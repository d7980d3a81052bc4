------------------------------ MODULE CoreMatrix ------------------------------
(***************************************************************************)
(* The matrix benchmark of CoreMark (core_matrix.c): three N by N matrices *)
(* laid out in one block, A and B of 16 bit numbers and C of 32 bit ones,  *)
(* and matrix_test, which uses them and must leave A and B as they were.   *)
(*                                                                         *)
(* The memory is a function from the addresses of its 16 bit halves to     *)
(* their contents, so that a write to one matrix can reach another.        *)
(***************************************************************************)
EXTENDS Integers, Sequences, FiniteSetsExt, Bitwise, TLC

CONSTANTS
  Blksizes,    \* sizes of the block, in bytes
  Addresses,   \* where a block may start
  Seeds,       \* seed1 | seed2 << 16
  Vals,        \* what calc_func passes to core_bench_matrix
  MaxCalls     \* bound: calls of core_bench_matrix

VARIABLES
  blksize, memblk, seed,   \* the arguments of core_init_matrix
  mat,                     \* where the matrices are
  mem,
  pc, val,
  sums,                    \* the results of matrix_sum in this call
  calls,
  initial,                 \* history: the memory after the initialisation
  results                  \* history: the sums of the last call for each value

inputs == <<blksize, memblk, seed, mat>>
matrixVars == <<inputs, mem, pc, val, sums, calls, initial, results>>

-----------------------------------------------------------------------------
(* Numbers *)

\* The two's complement number in the low bits of an integer.
s16(x) == LET u == x % 65536 IN IF u >= 32768 THEN u - 65536 ELSE u

\* The remainder of C, with the sign of the dividend.
crem(x, n) == IF x < 0 THEN 0 - ((0 - x) % n) ELSE x % n

\* Bits from .. from + n - 1 of a number, the shift keeping the sign.
bit_extract(x, from, n) == (x \div (2 ^ from)) % (2 ^ n)

matrix_big(x) == s16(61440 | (x % 65536))

-----------------------------------------------------------------------------
(* Layout *)

\* Mutant: the first dimension that is too large.
dimension_over(bytes) == 1 + Max({n \in 0 .. bytes : n = 0 \/ n * n * 2 * 4 < bytes})

dimension(bytes) == Max({n \in 0 .. bytes : n = 0 \/ n * n * 2 * 4 < bytes})

align_mem(x) == 4 + (((x - 1) \div 4) * 4)

\* mat_params: A, then B, then C on a 32 bit boundary.
layout(n, start) ==
  LET atA == align_mem(start)  atB == atA + (2 * n * n)
  IN  [N |-> n, A |-> atA, B |-> atB, C |-> align_mem(atB + (2 * n * n))]

N == mat.N
A == mat.A
B == mat.B
C == mat.C

Cells == 0 .. (N * N) - 1

Halves == {A + (2 * k) : k \in 0 .. ((C - A) \div 2) + (2 * N * N)}

half(m, at) == s16(m[at])

a(m, k) == half(m, A + (2 * k))
b(m, k) == half(m, B + (2 * k))
c(m, k) == (m[C + (4 * k)] % 65536) + (65536 * s16(m[C + (4 * k) + 2]))

\* The memory after the cells of C get the values of a function.
write_C(m, cells) ==
  [h \in DOMAIN m |->
     IF h >= C /\ (h - C) \div 4 \in DOMAIN cells
       THEN LET x == cells[(h - C) \div 4]
            IN  IF (h - C) % 4 = 0 THEN x % 65536 ELSE (x \div 65536) % 65536
       ELSE m[h]]

row(k) == k \div N
column(k) == k % N

-----------------------------------------------------------------------------
(* core_init_matrix *)

\* The running seed before the element k + 1, from 1 when the seed is zero.
running(n, s0) ==
  LET f[k \in 0 .. n] ==
        IF k = 0 THEN (IF s0 = 0 THEN 1 ELSE s0) ELSE crem(k * f[k - 1], 65536)
  IN  f

core_init_matrix ==
  LET s == running(N * N, seed)
      inB(k) == (s[k + 1] + k + 1) % 65536
      inA(k) == (s16(inB(k)) + k + 1) % 256
  IN  [h \in Halves |->
         IF (h - A) \div 2 \in Cells THEN inA((h - A) \div 2)
         ELSE IF (h - B) \div 2 \in Cells THEN inB((h - B) \div 2) ELSE 0]

Init ==
  /\ blksize \in Blksizes /\ memblk \in Addresses /\ seed \in Seeds
  /\ mat = layout(dimension(blksize), memblk)
  /\ mem = core_init_matrix /\ initial = mem
  /\ pc = "ready" /\ val = 0 /\ sums = <<>> /\ calls = 0
  /\ results = << >>

-----------------------------------------------------------------------------
(* matrix_test *)

\* What matrix_sum returns: 10 when the accumulator is over the limit, and then it
\* starts again; else 1 for an element above the one before.
matrix_sum(m, clip) ==
  LET f[k \in 0 .. N * N] ==
        IF k = 0 THEN [tmp |-> 0, prev |-> 0, ret |-> 0]
        ELSE LET before == f[k - 1]
                 cur    == c(m, k - 1)
                 tmp    == before.tmp + cur
             IN  IF tmp > clip THEN [tmp |-> 0, prev |-> cur, ret |-> before.ret + 10]
                 ELSE [tmp |-> tmp, prev |-> cur,
                       ret |-> before.ret + (IF cur > before.prev THEN 1 ELSE 0)]
  IN  s16(f[N * N].ret)

matrix_add_const(m, x) ==
  [h \in DOMAIN m |-> IF (h - A) \div 2 \in Cells THEN (m[h] + x) % 65536 ELSE m[h]]

SumOver(F(_), n) == LET s[k \in 0 .. n] == IF k = 0 THEN 0 ELSE s[k - 1] + F(k - 1) IN s[n]

\* Mutant: the products are added to what C held.
mul_const_adding(k) == c(mem, k) + (a(mem, k) * val)

mul_const(k) == a(mem, k) * val

mul_vect(i) == SumOver(LAMBDA j : a(mem, (i * N) + j) * b(mem, j), N)

\* The product of two elements that meet in the product matrix.
meet(k, j) == a(mem, (row(k) * N) + j) * b(mem, (j * N) + column(k))

mul_matrix(k) == SumOver(LAMBDA j : meet(k, j), N)

extracted(x) == bit_extract(x, 2, 4) * bit_extract(x, 5, 7)

mul_matrix_bitextract(k) == SumOver(LAMBDA j : extracted(meet(k, j)), N)

\* A step that writes C and sums it.
Compute(from, to, cells) ==
  /\ pc = from /\ pc' = to
  /\ mem' = write_C(mem, cells)
  /\ sums' = Append(sums, matrix_sum(mem', matrix_big(val)))
  /\ UNCHANGED <<inputs, val, calls, initial, results>>

AddConst(v) ==
  /\ pc = "ready" /\ calls < MaxCalls /\ pc' = "const"
  /\ val' = v /\ calls' = calls + 1 /\ sums' = <<>>
  /\ mem' = matrix_add_const(mem, v)
  /\ UNCHANGED <<inputs, initial, results>>

MulConst == Compute("const", "vect", [k \in Cells |-> mul_const(k)])

\* Only the first N elements of C change.
MulVect == Compute("vect", "matrix", [i \in 0 .. N - 1 |-> mul_vect(i)])

MulMatrix == Compute("matrix", "extract", [k \in Cells |-> mul_matrix(k)])

BitExtract == Compute("extract", "restore", [k \in Cells |-> mul_matrix_bitextract(k)])

\* Mutant: the value is added once more.
restored_twice == matrix_add_const(mem, val)

restored == matrix_add_const(mem, 0 - val)

Restore ==
  /\ pc = "restore" /\ pc' = "ready"
  /\ mem' = restored
  /\ results' = (val :> sums) @@ results
  /\ UNCHANGED <<inputs, val, sums, calls, initial>>

Next ==
  \/ \E v \in Vals : AddConst(v)
  \/ MulConst \/ MulVect \/ MulMatrix \/ BitExtract \/ Restore

Spec == Init /\ [][Next]_matrixVars

-----------------------------------------------------------------------------
(* Properties *)

\* After a test A is back to its original contents (core_matrix.c:127), and B is not
\* changed by any step of it, whatever is written to C (core_matrix.c:112).
OperandsKept ==
  \A k \in Cells :
    /\ pc = "ready" => a(mem, k) = a(initial, k)
    /\ b(mem, k) = b(initial, k)

SameSums == \A v \in DOMAIN results : results'[v] = results[v]

\* Two tests with the same value have the same results: nothing of C, which keeps what
\* the last test left, enters them (core_matrix.c:114-117, 302-314).
SameValueSameResult == [][SameSums]_matrixVars

\* The three parts of the block stay inside it: the alignment of A takes up to 3 bytes
\* more than 8 N N, which is only below the size (core_matrix.c:30, 191-198, 217).
MatricesInBlock == C + (4 * N * N) <= memblk + blksize
=============================================================================
