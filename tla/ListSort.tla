------------------------------- MODULE ListSort -------------------------------
(***************************************************************************)
(* core_list_mergesort of CoreMark (core_list_join.c): a linked list is    *)
(* sorted in place, bottom up, by relinking its nodes.                     *)
(*                                                                         *)
(* Nodes are numbers and NULL is 0.  The comparison function is a choice   *)
(* of key for every node.  A step is one iteration of the merging loop or  *)
(* what stands between two iterations.                                     *)
(***************************************************************************)
EXTENDS Integers, Sequences, FiniteSets, FiniteSetsExt

CONSTANTS
  Lengths,     \* lengths of the lists that are sorted
  Keys         \* keys that the comparison function tells apart

ASSUME SortAssumption == Lengths \subseteq Nat /\ Keys \subseteq Int

VARIABLES
  len, key,              \* the list to sort: nodes 1 .. len in this order
  next,                  \* the links
  list, p, q, tail,      \* the pointers of the function
  insize, nmerges,
  psize, qsize,
  stage,                    \* "pass", "merge", "take", "done"
  compared               \* history: the nodes that were compared

sortVars == <<len, key, next, list, p, q, tail, insize, nmerges, psize, qsize, stage, compared>>

NULL == 0

Nodes == 1 .. len

SortInit ==
  /\ len \in Lengths
  /\ key \in [Nodes -> Keys]
  /\ next = [n \in Nodes |-> IF n = len THEN NULL ELSE n + 1]
  /\ list = IF len = 0 THEN NULL ELSE 1
  /\ insize = 1
  /\ p = NULL /\ q = NULL /\ tail = NULL /\ nmerges = 0 /\ psize = 0 /\ qsize = 0
  /\ stage = "pass"
  /\ compared = {}

-----------------------------------------------------------------------------

\* The node k places along from a node, or NULL.
along(n, k) ==
  LET at[j \in 0 .. k] == IF j = 0 THEN n ELSE IF at[j - 1] = NULL THEN NULL ELSE next[at[j - 1]]
  IN  at[k]

StartPass ==
  /\ stage = "pass" /\ stage' = "merge"
  /\ p' = list /\ list' = NULL /\ tail' = NULL /\ nmerges' = 0
  /\ UNCHANGED <<len, key, next, q, insize, psize, qsize, compared>>

\* Step insize places along from p; what is left of it is the other run.
StartMerge ==
  /\ stage = "merge" /\ p # NULL /\ stage' = "take"
  /\ nmerges' = nmerges + 1
  /\ q' = along(p, insize)
  /\ psize' = Min({k \in 1 .. insize : k = insize \/ along(p, k) = NULL})
  /\ qsize' = insize
  /\ UNCHANGED <<len, key, next, list, p, tail, insize, compared>>

\* Append a node to the merged list.
Append1(n, links) ==
  /\ next' = IF tail = NULL THEN links ELSE [links EXCEPT ![tail] = n]
  /\ list' = IF tail = NULL THEN n ELSE list
  /\ tail' = n

\* Mutant: the last node of the first run is left.
more_p_but_one == psize > 1

more_p == psize > 0
more_q == qsize > 0 /\ q # NULL

\* Mutant: of equal nodes the one of the second run comes first.
first_is_lower_strict(a, b) == key[a] < key[b]

first_is_lower(a, b) == key[a] <= key[b]

TakeFromP ==
  /\ stage = "take" /\ more_p
  /\ more_q => first_is_lower(p, q)
  /\ compared' = IF more_q THEN compared \cup {p, q} ELSE compared
  /\ Append1(p, next)
  /\ p' = next[p] /\ psize' = psize - 1
  /\ UNCHANGED <<len, key, q, insize, nmerges, qsize, stage>>

TakeFromQ ==
  /\ stage = "take" /\ more_q
  /\ more_p => ~first_is_lower(p, q)
  /\ compared' = IF more_p THEN compared \cup {p, q} ELSE compared
  /\ Append1(q, next)
  /\ q' = next[q] /\ qsize' = qsize - 1
  /\ UNCHANGED <<len, key, p, insize, nmerges, psize, stage>>

EndMerge ==
  /\ stage = "take" /\ ~more_p /\ ~more_q /\ stage' = "merge"
  /\ p' = q
  /\ UNCHANGED <<len, key, next, list, q, tail, insize, nmerges, psize, qsize, compared>>

\* The links at the end of a pass.
terminated == [next EXCEPT ![tail] = NULL]

\* Mutant: two merges end the sort.
one_merge_or_two == nmerges <= 2

\* A pass of a single merge has sorted the list.
one_merge == nmerges <= 1

\* Mutant: the runs do not grow.
grown_never == insize

grown == 2 * insize

\* tail is dereferenced without a check.
EndPass ==
  /\ stage = "merge" /\ p = NULL /\ tail # NULL
  /\ next' = terminated
  /\ IF one_merge    THEN stage' = "done" /\ UNCHANGED insize
                     ELSE stage' = "pass" /\ insize' = grown
  /\ UNCHANGED <<len, key, list, p, q, tail, nmerges, psize, qsize, compared>>

SortNext == StartPass \/ StartMerge \/ TakeFromP \/ TakeFromQ \/ EndMerge \/ EndPass

SortSpec == SortInit /\ [][SortNext]_sortVars

\* The function runs until it returns.
SortFairSpec == SortSpec /\ WF_sortVars(SortNext)

-----------------------------------------------------------------------------

\* The nodes from n on, at most k of them, until NULL.
Chain(n, k) == {along(n, j) : j \in 0 .. k - 1} \ {NULL}

\* The merged list, up to tail.
Merged ==
  IF tail = NULL THEN {}
  ELSE {n \in Chain(list, len) : \E j \in 0 .. len - 1 :
          /\ along(list, j) = n
          /\ \A k \in 0 .. j - 1 : along(list, k) # tail}

\* Every node is in exactly one place while the links change: in the merged list, in
\* one of the two runs, or in the rest behind them (core_list_join.c:515-579).
NoNodeLost ==
  stage = "take" =>
    LET runP == Chain(p, psize)
        rest == Chain(q, len)
    IN  /\ Merged \cup runP \cup rest = Nodes
        /\ Cardinality(Merged) + Cardinality(runP) + Cardinality(rest) = len

\* The result as a sequence of nodes.
Result == [j \in 1 .. len |-> along(list, j - 1)]

\* The result has every node once, in the order of the keys, and nodes of equal keys
\* in the order they had; it ends in NULL (core_list_join.c:499-595).
SortsStably ==
  stage = "done" =>
    /\ {Result[j] : j \in 1 .. len} = Nodes
    /\ along(list, len) = NULL
    /\ \A i, j \in 1 .. len : i < j =>
         \/ key[Result[i]] < key[Result[j]]
         \/ key[Result[i]] = key[Result[j]] /\ Result[i] < Result[j]

\* Every node of a list of two or more is compared at least once: cmp_idx with no
\* result record rebuilds the data of the nodes it compares, so none is left out
\* (core_list_join.c:133-142).
EveryNodeCompared == stage = "done" /\ len > 1 => compared = Nodes

\* The sort is what the benchmark takes it for, whatever the keys: no node leaves the list
\* while it is relinked, the result is in order, equal nodes as they were, and every node has
\* been compared (core_list_join.c:133-142, 499-595).
SortIsStable == NoNodeLost /\ SortsStably /\ EveryNodeCompared

Returned == stage = "done"

\* The sort ends, whatever the keys.
SortEnds == <>Returned
=============================================================================
