-------------------------------- MODULE PmpRef --------------------------------
(***************************************************************************)
(* A reference for the access checker: the bytes that an access touches,   *)
(* the bytes that the PMA window and the PMP entry stand for, and the      *)
(* access is good when the first are among the second.  The arithmetic is  *)
(* that of the naturals, so nothing wraps.                                 *)
(*                                                                         *)
(* The checker is combinational: a state is one question to it.            *)
(***************************************************************************)
EXTENDS PmpPma

VARIABLE query

AddressSpace == 0 .. 2 ^ XLEN - 1

AccessKinds == {"fetch", "load", "store"}

Sizes == {1, 2, 4}

\* The lock bit with at most one permission; a permission only counts for its own kind.
Configs == {c \cup l \cup a : c \in {{}, {PmpR}, {PmpW}, {PmpX}}, l \in {{}, {PmpL}}, a \in SUBSET PmpA}

Queries ==
  [access : AccessKinds, addr : AddressSpace, size : Sizes, priv : Prv, cfg : Configs, paddr : AddressSpace]

NoQuery == [access |-> "none"]

CheckerInit == query = NoQuery

AskChecker == query = NoQuery /\ query' \in Queries

AnswerChecker == query # NoQuery /\ query' = NoQuery

CheckerNext == AskChecker \/ AnswerChecker

CheckerSpec == CheckerInit /\ [][CheckerNext]_query

-----------------------------------------------------------------------------

Touched(q) == q.addr .. q.addr + q.size - 1

\* The naturally aligned power-of-two regions, by size and index.
Region(size, n) == n * size .. (n + 1) * size - 1

\* The bytes of an entry.  A NAPOT entry 0..011..1 with k trailing ones stands for
\* the aligned region of 2^(k+3) bytes that holds its address.
EntryBytes(cfg, paddr) ==
  CASE pmp_a(cfg) = 0 -> {}
    [] pmp_a(cfg) = 1 -> 0 .. 4 * paddr - 1
    [] pmp_a(cfg) = 2 -> Region(4, paddr)
    [] pmp_a(cfg) = 3 ->
         LET k == CHOOSE k \in 0 .. XLEN : paddr % 2 ^ (k + 1) = 2 ^ k - 1
         IN  Region(2 ^ (k + 3), paddr \div 2 ^ (k + 1))

Permission(access) == [fetch |-> PmpX, load |-> PmpR, store |-> PmpW][access]

Permitted(q) ==
  /\ Touched(q) \subseteq 0 .. PmaLimit - 1
  /\ \/ pmp_a(q.cfg) = 0
     \/ q.priv = PrvM /\ PmpL \notin q.cfg
     \/ Touched(q) \subseteq EntryBytes(q.cfg, q.paddr) /\ Permission(q.access) \in q.cfg
     \/ q.priv = PrvM /\ ~(Touched(q) \subseteq EntryBytes(q.cfg, q.paddr))

\* An entry is within the address space when its top two address bits are clear; the
\* register holds the two bits of a 34-bit address more (the RTL drops them).
WithinSpace(q) == q.paddr < 2 ^ (XLEN - 2)

\* The checker faults exactly the accesses that are not permitted byte by byte, at
\* the top of the address space too (PMP_PMA_Checker.sv:49-127).
FaultsExactly ==
  query # NoQuery /\ WithinSpace(query) =>
    (access_fault(query.access, query.addr, query.size, query.priv, query.cfg, query.paddr)
       <=> ~Permitted(query))

\* The encoding README.md:139 gives for a region, (base >> 2) | ((size - 1) >> 3),
\* opens exactly that region.
DocumentedRegion ==
  query # NoQuery =>
    \A k \in 3 .. XLEN - 1 : \A n \in 0 .. 2 ^ (XLEN - k) - 1 :
      /\ pmp_a(query.cfg) = 3 /\ query.priv # PrvM
      /\ query.paddr = (n * 2 ^ k) \div 4 + (2 ^ k - 1) \div 8    \* disjoint bits: | is +
      => (access_fault(query.access, query.addr, query.size, query.priv, query.cfg, query.paddr)
            <=> \/ ~(Touched(query) \subseteq Region(2 ^ k, n) \cap (0 .. PmaLimit - 1))
                \/ Permission(query.access) \notin query.cfg)

\* The checker decides for every access byte by byte, and the encoding that the
\* documentation gives for a region is right (PMP_PMA_Checker.sv:16-127, README.md:139).
CheckerIsExact == FaultsExactly /\ DocumentedRegion
=============================================================================
