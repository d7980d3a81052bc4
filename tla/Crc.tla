--------------------------------- MODULE Crc ---------------------------------
(***************************************************************************)
(* The checksum of CoreMark (core_util.c:160-207), by which the outputs of *)
(* its algorithms are validated.  Two checksums are computed side by side, *)
(* of two messages of the same shape.                                      *)
(***************************************************************************)
EXTENDS Integers, Sequences, FiniteSets, SequencesExt, Bitwise

CONSTANTS
  Bytes,       \* bytes that are fed
  Words,       \* 16 bit numbers that are fed
  Longs,       \* pairs of 16 bit numbers that are fed as one of 32 bits, low part first
  MaxBits      \* bound: length of a message

VARIABLES
  crc,         \* the two checksums
  message      \* history: the two messages, as bits in the order they are fed

crcVars == <<crc, message>>

-----------------------------------------------------------------------------

\* Mutant: the carry does not enter the upper end.
shifted_open(c, x16) == (IF x16 = 1 THEN c ^^ 16386 ELSE c) \div 2

\* One turn of the loop of crcu8, x16 being the difference of the lowest bits.
shifted(c, x16) ==
  IF x16 = 1 THEN 32768 + (((c ^^ 16386) \div 2) % 32768) ELSE (c \div 2) % 32768

bits(data, n) == [k \in 1 .. n |-> (data \div (2 ^ (k - 1))) % 2]

crcu8(data, c0) ==
  FoldLeft(LAMBDA c, bit : shifted(c, (bit + c) % 2), c0, bits(data, 8))

\* Mutant: the shift is forgotten, so the lower byte counts twice.
crcu16_low(newval, c) == crcu8(newval % 256, crcu8(newval % 256, c))

crcu16(newval, c) == crcu8((newval \div 256) % 256, crcu8(newval % 256, c))

crc16(newval, c) == crcu16(newval % 65536, c)

crcu32(low, high, c) == crc16(high, crc16(low, c))

-----------------------------------------------------------------------------

Init == crc = <<0, 0>> /\ message = <<<<>>, <<>>>>

Feed8(a, b) ==
  /\ crc' = <<crcu8(a, crc[1]), crcu8(b, crc[2])>>
  /\ message' = <<message[1] \o bits(a, 8), message[2] \o bits(b, 8)>>

Feed16(a, b) ==
  /\ crc' = <<crc16(a, crc[1]), crc16(b, crc[2])>>
  /\ message' = <<message[1] \o bits(a, 16), message[2] \o bits(b, 16)>>

Feed32(a, b) ==
  /\ crc' = <<crcu32(a[1], a[2], crc[1]), crcu32(b[1], b[2], crc[2])>>
  /\ message' = <<message[1] \o bits(a[1], 16) \o bits(a[2], 16),
                  message[2] \o bits(b[1], 16) \o bits(b[2], 16)>>

Room(n) == Len(message[1]) + n <= MaxBits

Next ==
  \/ Room(8)  /\ \E a, b \in Bytes : Feed8(a, b)
  \/ Room(16) /\ \E a, b \in Words : Feed16(a, b)
  \/ Room(32) /\ \E a, b \in Longs : Feed32(a, b)

Spec == Init /\ [][Next]_crcVars

-----------------------------------------------------------------------------

\* The remainder of a message, as a polynomial followed by 16 zeros, divided by
\* x^16 + x^15 + x^2 + 1: the bits of the remainder from the highest power down.
Remainder(m) ==
  LET divisor == <<1, 1, 0, 0, 0, 0, 0, 0, 0, 0, 0, 0, 0, 0, 1, 0, 1>>
      padded  == m \o [k \in 1 .. 16 |-> 0]
      f[k \in 0 .. Len(m)] ==
        IF k = 0 THEN padded
        ELSE LET r == f[k - 1]
             IN  IF r[k] = 0 THEN r
                 ELSE [j \in DOMAIN r |->
                         IF j \in k .. k + 16 THEN (r[j] + divisor[j - k + 1]) % 2 ELSE r[j]]
  IN  SubSeq(f[Len(m)], Len(m) + 1, Len(m) + 16)

\* The checksum is that remainder with its bits reversed, whether the message came in
\* bytes, in numbers of 16 bits or of 32 (core_util.c:160-207).
IsRemainder == \A k \in {1, 2} : bits(crc[k], 16) = Remainder(message[k])

\* Messages that differ only within 16 consecutive bits have different checksums, so a
\* wrong 16 bit result is never validated (core_main.c:354-385).
DetectsBurst ==
  LET differ == {j \in DOMAIN message[1] : message[1][j] # message[2][j]}
  IN  differ # {} /\ (\A i, j \in differ : i - j < 16) => crc[1] # crc[2]
=============================================================================
