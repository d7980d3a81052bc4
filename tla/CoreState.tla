------------------------------ MODULE CoreState ------------------------------
(***************************************************************************)
(* The state machine benchmark of CoreMark (core_state.c): a block of      *)
(* tokens is scanned, corrupted every step bytes, scanned again, and       *)
(* restored.  The calls come from calc_func (core_list_join.c:86-99).      *)
(*                                                                         *)
(* A byte is a number, since the corruption is an exclusive or; the scan   *)
(* takes one byte in a step.  Addresses count from the start of the block. *)
(***************************************************************************)
EXTENDS Integers, Sequences, FiniteSets, SequencesExt, Bitwise

CONSTANTS
  Sizes, Fill, \* sizes of blocks, and seeds they are filled with
  Texts,       \* other contents of a block, for the state machine alone
  Masks,       \* low bytes of seed1 and seed2
  Steps,       \* distances of the corrupted bytes
  MaxCalls     \* bound: calls of core_bench_state

VARIABLES
  block, seed1, seed2,
  pc, step,
  p, state,                      \* the scan: the next byte and the state of the token
  final_counts, track_counts,
  calls,
  original,                      \* history: the block before the calls
  token,                         \* history: the bytes of the token so far
  ended                          \* history: the last token that ended, and its state

histories == <<calls, original, token, ended>>
counts == <<final_counts, track_counts>>
stateVars == <<block, seed1, seed2, pc, step, p, state, counts, histories>>

-----------------------------------------------------------------------------
(* core_init_state *)

Comma == 44

intpat == <<<<53,48,49,50>>, <<49,50,51,52>>, <<45,56,55,52>>, <<43,49,50,50>>>>
floatpat == <<<<51,53,46,53,52,52,48,48>>, <<46,49,50,51,52,53,48,48>>,
              <<45,49,49,48,46,55,48,48>>, <<43,48,46,54,52,52,48,48>>>>
scipat == <<<<53,46,53,48,48,101,43,51>>, <<45,46,49,50,51,101,45,50>>,
            <<45,56,55,101,43,56,51,50>>, <<43,48,46,54,101,45,49,50>>>>
errpat == <<<<84,48,46,51,101,45,49,70>>, <<45,84,46,84,43,43,84,113>>,
            <<49,84,51,46,52,101,52,122>>, <<51,52,46,48,101,45,84,94>>>>

\* The pattern that a value of the running seed picks.
pattern(s) ==
  LET k == ((s \div 8) % 4) + 1
  IN  CASE s % 8 \in {0, 1, 2} -> intpat[k]
        [] s % 8 \in {3, 4}    -> floatpat[k]
        [] s % 8 \in {5, 6}    -> scipat[k]
        [] s % 8 = 7           -> errpat[k]

\* Mutant: the last byte is not kept free while the patterns are laid out.
fits_last(total, next, size) == total + next + 1 < size

\* Another turn of the loop: size is one less there.
fits(total, next, size) == total + next + 1 < size - 1

\* The contents after n turns of the loop: what is written, the pattern that comes next
\* and the seed; the rest of the block is zero.
core_init_state(size, seed) ==
  LET f[n \in 0 .. size] ==
        IF n = 0 THEN [text |-> <<>>, buf |-> <<>>, seed |-> seed]
        ELSE LET t == f[n - 1]
             IN  IF ~fits(Len(t.text), Len(t.buf), size) THEN t
                 ELSE [text |-> IF t.buf = <<>> THEN t.text
                                ELSE t.text \o t.buf \o <<Comma>>,
                       buf  |-> pattern(t.seed + 1),
                       seed |-> t.seed + 1]
      text == f[size].text
  IN  [k \in 1 .. size |-> IF k <= Len(text) THEN text[k] ELSE 0]

-----------------------------------------------------------------------------
(* core_state_transition *)

ee_isdigit(c) == c \in 48 .. 57
sign(c) == c \in {43, 45}
dot(c) == c = 46
exponent_mark(c) == c \in {69, 101}

States == {"START", "INVALID", "S1", "S2", "INT", "FLOAT", "EXPONENT", "SCIENTIFIC"}

\* Mutant: an exponent may follow an integer.
after_exponent_mark(s, c) ==
  CASE s = "START" -> IF ee_isdigit(c) THEN "INT" ELSE IF sign(c) THEN "S1"
                      ELSE IF dot(c) THEN "FLOAT" ELSE "INVALID"
    [] s = "S1" -> IF ee_isdigit(c) THEN "INT" ELSE IF dot(c) THEN "FLOAT" ELSE "INVALID"
    [] s = "INT" -> IF dot(c) THEN "FLOAT" ELSE IF exponent_mark(c) THEN "S2"
                    ELSE IF ee_isdigit(c) THEN s ELSE "INVALID"
    [] s = "FLOAT" -> IF exponent_mark(c) THEN "S2" ELSE IF ee_isdigit(c) THEN s ELSE "INVALID"
    [] s = "S2" -> IF sign(c) THEN "EXPONENT" ELSE "INVALID"
    [] s = "EXPONENT" -> IF ee_isdigit(c) THEN "SCIENTIFIC" ELSE "INVALID"
    [] s = "SCIENTIFIC" -> IF ee_isdigit(c) THEN s ELSE "INVALID"

after(s, c) ==
  CASE s = "START" -> IF ee_isdigit(c) THEN "INT" ELSE IF sign(c) THEN "S1"
                      ELSE IF dot(c) THEN "FLOAT" ELSE "INVALID"
    [] s = "S1" -> IF ee_isdigit(c) THEN "INT" ELSE IF dot(c) THEN "FLOAT" ELSE "INVALID"
    [] s = "INT" -> IF dot(c) THEN "FLOAT" ELSE IF ee_isdigit(c) THEN s ELSE "INVALID"
    [] s = "FLOAT" -> IF exponent_mark(c) THEN "S2" ELSE IF ee_isdigit(c) THEN s ELSE "INVALID"
    [] s = "S2" -> IF sign(c) THEN "EXPONENT" ELSE "INVALID"
    [] s = "EXPONENT" -> IF ee_isdigit(c) THEN "SCIENTIFIC" ELSE "INVALID"
    [] s = "SCIENTIFIC" -> IF ee_isdigit(c) THEN s ELSE "INVALID"

\* The counters that a byte of a token raises: the state that is left, and for a token
\* that starts wrong or ends a scientific number the invalid state as well or instead.
counted(s, c) ==
  CASE s = "START" -> {"START"} \cup ({after(s, c)} \cap {"INVALID"})
    [] s = "SCIENTIFIC" -> {after(s, c)} \cap {"INVALID"}
    [] OTHER -> IF after(s, c) = s THEN {} ELSE {s}

-----------------------------------------------------------------------------
(* core_bench_state *)

zero_counts == [s \in States |-> 0]

Built == {core_init_state(size, seed) : size \in Sizes, seed \in Fill}

Init ==
  /\ block \in Built \cup Texts /\ original = block
  /\ seed1 \in Masks /\ seed2 \in Masks
  /\ pc = "ready" /\ step = 1 /\ p = 0 /\ state = "START"
  /\ final_counts = zero_counts /\ track_counts = zero_counts
  /\ calls = 0 /\ token = <<>> /\ ended = <<<<>>, "START">>

Call(s) ==
  /\ pc = "ready" /\ calls < MaxCalls
  /\ pc' = "scan" /\ step' = s /\ p' = 0 /\ state' = "START"
  /\ final_counts' = zero_counts /\ track_counts' = zero_counts
  /\ calls' = calls + 1 /\ token' = <<>>
  /\ UNCHANGED <<block, seed1, seed2, original, ended>>

Scanning == pc \in {"scan", "rescan"}

\* The byte at p; the scan does not check that p is inside the block.
char == block[p + 1]

\* The end of a token: its last state is counted.
EndToken(s, text) ==
  /\ final_counts' = [final_counts EXCEPT ![s] = @ + 1]
  /\ state' = "START" /\ token' = <<>> /\ ended' = <<text, s>>

TakeComma ==
  /\ Scanning /\ char = Comma
  /\ p' = p + 1
  /\ EndToken(state, token)
  /\ UNCHANGED <<block, seed1, seed2, pc, step, track_counts, calls, original>>

\* A token ends at an invalid byte.
TakeByte ==
  /\ Scanning /\ char \notin {0, Comma}
  /\ LET s == after(state, char)
         text == Append(token, char)
     IN  /\ track_counts' = [x \in States |->
                               track_counts[x] + (IF x \in counted(state, char) THEN 1 ELSE 0)]
         /\ IF s = "INVALID"
              THEN EndToken(s, text)
              ELSE state' = s /\ token' = text /\ UNCHANGED <<final_counts, ended>>
  /\ p' = p + 1
  /\ UNCHANGED <<block, seed1, seed2, pc, step, calls, original>>

\* Mutant: the loop over the tokens goes on at the end of the text.
after_scan_never == pc

after_scan == IF pc = "scan" THEN "corrupt" ELSE "undo"

\* A token ends at the end of the text, too.
EndScan ==
  /\ Scanning /\ char = 0
  /\ pc' = after_scan
  /\ IF token # <<>> THEN EndToken(state, token)
                     ELSE UNCHANGED <<final_counts, state, token, ended>>
  /\ UNCHANGED <<block, seed1, seed2, step, p, track_counts, calls, original>>

\* Mutant: the corruption begins where the scan before it ended.
masked_from_end(mask) ==
  [k \in DOMAIN block |->
     IF k > p /\ (k - 1 - p) % step = 0 /\ block[k] # Comma THEN block[k] ^^ mask ELSE block[k]]

\* Every step-th byte of the block that is not a comma, its zeros too.
masked(mask) ==
  [k \in DOMAIN block |->
     IF (k - 1) % step = 0 /\ block[k] # Comma THEN block[k] ^^ mask ELSE block[k]]

Corrupt ==
  /\ pc = "corrupt" /\ pc' = "rescan"
  /\ block' = masked(seed1)
  /\ p' = 0
  /\ UNCHANGED <<seed1, seed2, step, state, counts, histories>>

Undo ==
  /\ pc = "undo" /\ pc' = "ready"
  /\ block' = masked(seed2)
  /\ UNCHANGED <<seed1, seed2, step, p, state, counts, histories>>

Scan == TakeComma \/ TakeByte \/ EndScan

Next == (\E s \in Steps : Call(s)) \/ Scan \/ Corrupt \/ Undo

Spec == Init /\ [][Next]_stateVars

\* The function runs until it returns.
FairSpec == Spec /\ WF_stateVars(Scan)

-----------------------------------------------------------------------------
(* Properties *)

\* The scan never reads behind the block: the two zeros at its end are never both
\* corrupted, because the steps are multiples of one number above 1, in however many
\* calls and with unequal seeds too (core_list_join.c:85-90, core_state.c:66, 150).
ScanStaysInBlock == Scanning => p < Len(block)

\* Corruption is undone when the seeds are equal (core_state.c:99).
BlockRestored == pc = "ready" /\ seed1 = seed2 => block = original

\* Every scan ends (core_state.c:66-69, 86-89).
ScanEnds == pc = "scan" ~> pc # "scan"

\* A reference for the state machine: a text is digits with an optional sign, and so on.
Digits(w) == \A k \in DOMAIN w : ee_isdigit(w[k])
Signed(w, Rest(_)) ==
  Rest(w) \/ (w # <<>> /\ sign(w[1]) /\ Rest(Tail(w)))
IsInt(w) == Signed(w, LAMBDA v : v # <<>> /\ Digits(v))
IsFloat(w) ==
  Signed(w, LAMBDA v : \E k \in DOMAIN v :
                         /\ dot(v[k])
                         /\ \A j \in DOMAIN v \ {k} : ee_isdigit(v[j]))
IsScientific(w) ==
  \E k \in 2 .. Len(w) - 2 :
    /\ IsFloat(SubSeq(w, 1, k - 1)) /\ exponent_mark(w[k]) /\ sign(w[k + 1])
    /\ Digits(SubSeq(w, k + 2, Len(w)))

\* A token that ended has the state its text asks for, and one that ended as invalid has
\* no continuation that would be a number (core_state.c:34-35, 208-213).
ClassifiesTokens ==
  LET w == ended[1]  s == ended[2]
  IN  /\ (s = "INT") = IsInt(w)
      /\ (s = "FLOAT") = IsFloat(w)
      /\ (s = "SCIENTIFIC") = IsScientific(w)
=============================================================================
