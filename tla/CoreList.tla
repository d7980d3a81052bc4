------------------------------- MODULE CoreList -------------------------------
(***************************************************************************)
(* The list benchmark of CoreMark (core_list_join.c): the list built in a  *)
(* memory block, and core_bench_list, which searches, reverses, sorts and  *)
(* shortens it and must leave it as it was.                                *)
(*                                                                         *)
(* A node is its slot in the block and NULL is a number that is no slot.   *)
(* An item is [idx, hi, lo]: data16 by its two bytes.  The two sorts are   *)
(* one step each, a stable sort (ListSort shows that core_list_mergesort   *)
(* is one); the benchmarks that calc_func runs return any of Results.      *)
(***************************************************************************)
EXTENDS Integers, Sequences, FiniteSets, SequencesExt, Bitwise

CONSTANTS
  Blksizes,    \* sizes of the block, in bytes
  PtrBytes,    \* sizes of a pointer
  Seeds,       \* values of seed1, as 16 bit numbers
  FindNums,    \* values of seed3
  Calls,       \* values of finder_idx
  Results,     \* what a benchmark run by calc_func returns, in 7 bits
  MaxCalls     \* bound: calls of core_bench_list

VARIABLES
  blksize, ptr, seed, find_num,     \* the inputs
  next, info, data, list,           \* the list: links, items of nodes, items, head
  memblock,                         \* first free slot
  res_list,                         \* res->list: the head that every call starts from
  pc, i, finder,                    \* control, and locals of the loops
  finder_idx, want, retval, remover,
  calls,
  original,                         \* history: the items in order when it was built
  lastSearch                        \* history: what a call with finder_idx < 0 returned

inputs == <<blksize, ptr, seed, find_num>>
histories == <<calls, original, lastSearch>>
locals == <<finder_idx, want, retval, remover>>
listVars == <<inputs, next, info, data, list, memblock, res_list, pc, i, finder, locals, histories>>

NULL == 0 - 1

\* Mutant: an item takes the bytes of a 32 bit pointer pair.
item_count_32(bytes) == (bytes \div (8 + 4)) - 2

item_count(bytes) == (bytes \div (16 + 4)) - 2

size == item_count(blksize)

\* The nodes from n on, in order; a walk that does not end is cut.
walk(links, n) ==
  LET f[k \in 0 .. size + 1] ==
        IF k = 0 THEN <<>>
        ELSE LET before == f[k - 1]
                 here   == IF before = <<>> THEN n ELSE links[Last(before)]
             IN  IF here = NULL THEN before ELSE Append(before, here)
  IN  f[size + 1]

Order == walk(next, list)

Items == [k \in DOMAIN Order |-> data[info[Order[k]]]]

-----------------------------------------------------------------------------
(* core_list_init *)

Init ==
  /\ blksize \in Blksizes /\ ptr \in PtrBytes /\ seed \in Seeds /\ find_num \in FindNums
  /\ next = (0 :> NULL) /\ info = (0 :> 0)
  /\ data = (0 :> [idx |-> 0, hi |-> 128, lo |-> 128])
  /\ list = 0 /\ memblock = 1 /\ res_list = NULL
  /\ pc = "tail" /\ i = 0 /\ finder = NULL
  /\ finder_idx = 0 /\ want = 0 /\ retval = <<>> /\ remover = NULL
  /\ calls = 0 /\ original = <<>> /\ lastSearch = <<>>

room == memblock + 1 < size

\* A new item after the head; nothing when the block is full.
core_list_insert_new(item) ==
  IF room
    THEN /\ next' = [next EXCEPT ![list] = memblock] @@ (memblock :> next[list])
         /\ info' = info @@ (memblock :> memblock)
         /\ data' = data @@ (memblock :> item)
         /\ memblock' = memblock + 1
    ELSE UNCHANGED <<next, info, data, memblock>>

InsertTail ==
  /\ pc = "tail" /\ pc' = "items"
  /\ core_list_insert_new([idx |-> 32767, hi |-> 255, lo |-> 255])
  /\ UNCHANGED <<inputs, res_list, list, i, finder, locals, histories>>

dat(k) == (((seed ^^ k) % 16) * 8) + (k % 8)

\* info.idx keeps the value it had for the tail.
InsertItem ==
  /\ pc = "items" /\ i < size
  /\ core_list_insert_new([idx |-> 32767, hi |-> dat(i), lo |-> dat(i)])
  /\ i' = i + 1
  /\ UNCHANGED <<inputs, res_list, list, pc, finder, locals, histories>>

StartIndex ==
  /\ pc = "items" /\ i = size
  /\ pc' = "index" /\ i' = 1 /\ finder' = next[list]
  /\ UNCHANGED <<inputs, res_list, next, info, data, list, memblock, locals, histories>>

\* The index of an item: its place, or a mixed number.
new_idx(k) ==
  IF k < size \div 5 THEN k
  ELSE ((((k + 1) % 8) * 256) | (k ^^ seed)) % 16384

IndexItem ==
  /\ pc = "index" /\ next[finder] # NULL
  /\ data' = [data EXCEPT ![info[finder]].idx = new_idx(i)]
  /\ i' = i + 1 /\ finder' = next[finder]
  /\ UNCHANGED <<inputs, res_list, next, info, list, memblock, pc, locals, histories>>

-----------------------------------------------------------------------------
(* The sorts *)

\* The order of the nodes, stably sorted by a key of their items.
sorted(key) ==
  LET k == [j \in DOMAIN Order |-> key[info[Order[j]]]]
      rank(j) == Cardinality({m \in DOMAIN k : k[m] < k[j] \/ (k[m] = k[j] /\ m <= j)})
  IN  [r \in DOMAIN k |-> Order[CHOOSE j \in DOMAIN k : rank(j) = r]]

relink(seq) ==
  /\ list' = Head(seq)
  /\ next' = [n \in DOMAIN next |->
                IF \E j \in DOMAIN seq : seq[j] = n
                  THEN LET j == CHOOSE m \in DOMAIN seq : seq[m] = n
                       IN  IF j = Len(seq) THEN NULL ELSE seq[j + 1]
                  ELSE next[n]]

\* Mutant: comparing by index leaves the data alone.
regenerated_never(d) == d

\* cmp_idx without a result record: the low byte is restored from the high one.
regenerated(d) == [d EXCEPT !.lo = d.hi]

\* The sort by index; it compares every node of a list of two or more.
sort_by_idx ==
  /\ relink(sorted([d \in DOMAIN data |-> data[d].idx]))
  /\ data' = [d \in DOMAIN data |->
                IF Len(Order) > 1 /\ \E j \in DOMAIN Order : info[Order[j]] = d
                  THEN regenerated(data[d]) ELSE data[d]]

EndInit ==
  /\ pc = "index" /\ next[finder] = NULL
  /\ sort_by_idx
  /\ pc' = "built"
  /\ UNCHANGED <<inputs, res_list, info, memblock, i, finder, locals, histories>>

Remember ==
  /\ pc = "built" /\ pc' = "ready" /\ original' = Items
  /\ res_list' = list
  /\ UNCHANGED <<inputs, next, info, data, list, memblock, i, finder, locals, calls, lastSearch>>

\* The items whose value is the result of a benchmark.
Uncached == {d \in DOMAIN data : data[d].lo < 128}
Calculated == {d \in Uncached : data[d].lo % 8 \in {0, 1}}

\* The items after calc_func has run on all of them: bit 7 marks a cached result.
cached(r) ==
  [d \in DOMAIN data |->
     IF d \in Uncached
       THEN [data[d] EXCEPT !.lo = 128 + (IF d \in Calculated THEN r[d] ELSE data[d].lo)]
       ELSE data[d]]

-----------------------------------------------------------------------------
(* core_bench_list *)

Call(f) ==
  /\ pc = "ready" /\ calls < MaxCalls
  /\ pc' = "search" /\ calls' = calls + 1
  /\ list' = res_list
  /\ finder_idx' = f /\ want' = f /\ i' = 0 /\ retval' = <<0>>
  /\ UNCHANGED <<inputs, next, info, data, memblock, res_list, finder, remover, original, lastSearch>>

\* The first node of the list with the index, or with the data when the index is negative.
core_list_find(idx, low) ==
  LET hits == {j \in DOMAIN Order :
                 LET d == data[info[Order[j]]]
                 IN  IF idx >= 0 THEN d.idx = idx ELSE d.lo = low}
  IN  IF hits = {} THEN NULL ELSE Order[CHOOSE j \in hits : \A k \in hits : j <= k]

\* The links after a reversal: every node that had a successor follows it.
core_list_reverse ==
  [n \in DOMAIN next |->
     IF \E m \in DOMAIN next : next[m] = n THEN CHOOSE m \in DOMAIN next : next[m] = n
                                           ELSE NULL]

\* Mutant: the moved node stays linked where it was.
moved_to_front_kept(links, found, head) ==
  LET node == links[found]
      l2 == [links EXCEPT ![node] = links[head]]
  IN  [l2 EXCEPT ![head] = node]

\* The successor of the found node is moved behind the head.
moved_to_front(links, found, head) ==
  LET node == links[found]
      l1 == [links EXCEPT ![found] = links[node]]
      l2 == [l1 EXCEPT ![node] = l1[head]]
  IN  [l2 EXCEPT ![head] = node]

bit(byte, k) == (byte \div (2 ^ k)) % 2

count(k) == <<retval[1] + k>>

\* One search: the list is reversed whether or not something is found.  A hit counts 4
\* and a miss -1 (added after the loop in the code).
Search ==
  /\ pc = "search" /\ i < find_num
  /\ LET this_find == core_list_find(want, i % 256)
         head      == Last(Order)
         links     == core_list_reverse
     IN  /\ list' = head
         /\ IF this_find = NULL
              THEN /\ retval' = count(bit(data[info[links[head]]].hi, 0) - 1)
                   /\ next' = links
              ELSE LET d == data[info[this_find]]
                   IN  /\ retval' = count(4 + (IF d.lo % 2 = 1 THEN bit(d.hi, 1) ELSE 0))
                       /\ next' = IF links[this_find] = NULL THEN links
                                  ELSE moved_to_front(links, this_find, head)
  /\ want' = IF want >= 0 THEN want + 1 ELSE want
  /\ i' = i + 1
  /\ UNCHANGED <<inputs, res_list, info, data, memblock, pc, finder, finder_idx, remover, histories>>

\* The sort by data, in calls with a positive index only.
SortByData ==
  /\ pc = "search" /\ i = find_num /\ pc' = "remove"
  /\ IF finder_idx > 0
       THEN \E r \in [Calculated -> Results] :
              /\ data' = cached(r)
              /\ LET d == cached(r) IN relink(sorted([m \in DOMAIN d |-> d[m].lo % 128]))
       ELSE UNCHANGED <<next, data, list>>
  /\ UNCHANGED <<inputs, res_list, info, memblock, i, finder, locals, histories>>

\* The item of the node behind the head goes, and with it the node after that.
RemoveItem ==
  /\ pc = "remove" /\ pc' = "undo"
  /\ LET item == next[list]
         ret  == next[item]
     IN  /\ info' = [info EXCEPT ![item] = info[ret], ![ret] = info[item]]
         /\ next' = [next EXCEPT ![item] = next[ret], ![ret] = NULL]
         /\ remover' = ret
  /\ UNCHANGED <<inputs, res_list, data, list, memblock, i, finder, finder_idx, want, retval, histories>>

data16(n) == <<data[info[n]].hi, data[info[n]].lo>>

\* As many times as nodes follow the found one, the data of the head enters the result.
fed ==
  LET last == IF find_num = 0 THEN 0 ELSE (find_num - 1) % 256
      hit  == core_list_find(want, last)
      from == IF hit = NULL THEN next[list] ELSE hit
  IN  [k \in 1 .. Len(walk(next, from)) |-> data16(list)]

\* Mutant: the removed node is not linked again.
undone_lost(item, removed) == next

undone(item, removed) == [next EXCEPT ![removed] = next[item], ![item] = removed]

UndoRemove ==
  /\ pc = "undo" /\ pc' = "sort"
  /\ retval' = retval \o fed
  /\ LET item == next[list]
     IN  /\ info' = [info EXCEPT ![item] = info[remover], ![remover] = info[item]]
         /\ next' = undone(item, remover)
  /\ UNCHANGED <<inputs, res_list, data, list, memblock, i, finder, finder_idx, want, remover, histories>>

SortByIdx ==
  /\ pc = "sort" /\ pc' = "return"
  /\ sort_by_idx
  /\ UNCHANGED <<inputs, res_list, info, memblock, i, finder, locals, histories>>

\* The second checksum, and the return.
Return ==
  /\ pc = "return" /\ pc' = "ready"
  /\ LET all == retval \o [k \in 1 .. Len(Order) - 1 |-> data16(list)]
     IN  /\ retval' = all
         /\ lastSearch' = IF finder_idx < 0 THEN all ELSE lastSearch
  /\ UNCHANGED <<inputs, res_list, next, info, data, list, memblock, i, finder,
                 finder_idx, want, remover, calls, original>>

BuildList == InsertTail \/ InsertItem \/ StartIndex \/ IndexItem \/ EndInit \/ Remember

Next ==
  \/ BuildList
  \/ \E f \in Calls : Call(f)
  \/ Search \/ SortByData \/ RemoveItem \/ UndoRemove \/ SortByIdx \/ Return

Spec == Init /\ [][Next]_listVars

-----------------------------------------------------------------------------
(* Properties *)

\* The nodes of the list are all the nodes, once each, and one less while one is
\* removed: reversing, moving a hit to the front, sorting and removing lose and repeat
\* none, and a removal always has a second node behind the head
\* (core_list_join.c:178-231, 369-371).
OneChain ==
  LET nodes == 0 .. memblock - 1
      out   == IF pc = "undo" THEN {remover} ELSE {}
  IN  /\ {Order[k] : k \in DOMAIN Order} = nodes \ out
      /\ Len(Order) = Cardinality(nodes \ out)
      /\ pc \in {"remove", "undo"} => Len(Order) > 2

\* Headers and items stay inside the block and apart, with pointers of either size
\* (core_list_join.c:254-260, 345-348).
InBlock ==
  /\ \A n \in DOMAIN next : ((n + 1) * 2 * ptr) <= size * 2 * ptr
  /\ \A d \in DOMAIN data : (size * 2 * ptr) + ((d + 1) * 4) <= blksize

\* At the end of a call the list is back to its original state: the same items in the
\* same order, cached results gone (core_list_join.c:156, 222-223).
ListRestored == pc = "ready" => Items = original

SameSearch == pc = "return" /\ finder_idx < 0 /\ lastSearch # <<>> => lastSearch' = lastSearch

\* Each iteration is exactly the same: a search that calculates nothing returns what the
\* one before it returned, whatever the calls between did (core_list_join.c:395).
SameSearchSameResult == [][SameSearch]_listVars
=============================================================================
