------------------------------- MODULE LoadStore -------------------------------
(***************************************************************************)
(* Data accesses of all sizes in EsCute-RV: EX rejects the misaligned ones *)
(* (CPU_TOP.sv), MEM places the bytes of a store in their lanes            *)
(* (StoreUnit.sv) and addresses the synchronous memory (DRAM.sv), and WB   *)
(* takes the bytes of a load from the word that comes out one cycle later  *)
(* (LoadUnit.sv).                                                          *)
(*                                                                         *)
(* A byte has BITS bits; a word is a number of 4 * BITS bits.              *)
(***************************************************************************)
EXTENDS Integers

CONSTANTS
  BITS,      \* bits of a byte, 8 in the RTL
  Words,     \* words of the memory, 2^14 in the RTL
  Data,      \* the words that are stored
  Accessed   \* bound: the addresses that are accessed

ASSUME LoadStoreAssumption ==
  /\ BITS \in 1 .. 8 /\ Words \in Nat \ {0}
  /\ Data \subseteq 0 .. 2 ^ (4 * BITS) - 1
  /\ Accessed \subseteq 0 .. 4 * Words - 1

VARIABLES
  ram_data,    \* DRAM: a word for every word address
  spo,         \* DRAM: the word that was addressed at the last clock edge
  mem,         \* EX/MEM: [op, addr, data]
  wb,          \* MEM/WB: [op, addr]
  bytes,       \* reference: a memory of bytes
  expected     \* reference: what the load in WB has to return

loadStoreVars == <<ram_data, spo, mem, wb, bytes, expected>>

Loads  == {"LB", "LBU", "LH", "LHU", "LW", "SSPOPCHK"}
Stores == {"SB", "SH", "SW", "SSPUSH"}

ByteOps == {"LB", "LBU", "SB"}
HalfOps == {"LH", "LHU", "SH"}

Address == 0 .. 4 * Words - 1

NoAccess == [op |-> "none", addr |-> 0, data |-> 0]

-----------------------------------------------------------------------------

\* Bytes of a word, the lowest first.
lane(word, k) == (word \div 2 ^ (BITS * k)) % 2 ^ BITS

word_of(b) == b[0] + b[1] * 2 ^ BITS + b[2] * 2 ^ (2 * BITS) + b[3] * 2 ^ (3 * BITS)

low_bits(word, n) == word % 2 ^ (BITS * n)

\* load_misaligned_EX, store_misaligned_EX, shadow_access_fault_EX
misaligned(op, addr) ==
  CASE op \in ByteOps -> FALSE
    [] op \in HalfOps -> addr % 2 # 0
    [] OTHER -> addr % 4 # 0

\* The byte lanes a store writes.
wstrb(op, addr) ==
  CASE op = "SB" -> {addr % 4}
    [] op = "SH" -> IF addr % 4 >= 2 THEN {2, 3} ELSE {0, 1}
    [] op \in {"SW", "SSPUSH"} -> 0 .. 3
    [] OTHER -> {}

\* Mutant: a half word is not moved to its lanes.
store_data_unshifted(op, addr, data) ==
  CASE op = "SB" -> low_bits(data, 1) * 2 ^ (BITS * (addr % 4))
    [] op = "SH" -> low_bits(data, 2)
    [] OTHER -> data

store_data(op, addr, data) ==
  CASE op = "SB" -> low_bits(data, 1) * 2 ^ (BITS * (addr % 4))
    [] op = "SH" -> low_bits(data, 2) * 2 ^ (BITS * 2 * ((addr % 4) \div 2))
    [] OTHER -> data

\* n bytes read as a signed number, as a word.
extend_sign(raw, n) ==
  IF 2 * raw >= 2 ^ (BITS * n) THEN raw + 2 ^ (BITS * 4) - 2 ^ (BITS * n) ELSE raw

\* Mutant: the unsigned loads extend the sign too.
load_data_signed(op, addr, word) ==
  LET byte == low_bits(word \div 2 ^ (BITS * (addr % 4)), 1)
      half == low_bits(word \div 2 ^ (BITS * 2 * ((addr % 4) \div 2)), 2)
  IN  CASE op \in {"LB", "LBU"} -> extend_sign(byte, 1)
        [] op \in {"LH", "LHU"} -> extend_sign(half, 2)
        [] OTHER -> word

load_data(op, addr, word) ==
  LET byte == low_bits(word \div 2 ^ (BITS * (addr % 4)), 1)
      half == low_bits(word \div 2 ^ (BITS * 2 * ((addr % 4) \div 2)), 2)
  IN  CASE op = "LB"  -> extend_sign(byte, 1)
        [] op = "LBU" -> byte
        [] op = "LH"  -> extend_sign(half, 2)
        [] op = "LHU" -> half
        [] OTHER      -> word

-----------------------------------------------------------------------------

MemoryInit ==
  /\ ram_data = [a \in 0 .. Words - 1 |-> 0]
  /\ spo = 0
  /\ mem = NoAccess
  /\ wb = NoAccess
  /\ bytes = [a \in Address |-> 0]
  /\ expected = 0

\* What the access in MEM does at a clock edge: write lanes and read the old word.
Memory ==
  LET a == mem.addr \div 4
      w == store_data(mem.op, mem.addr, mem.data)
      lanes == wstrb(mem.op, mem.addr)
  IN  /\ ram_data' = [ram_data EXCEPT
                        ![a] = word_of([k \in 0 .. 3 |->
                                 IF k \in lanes THEN lane(w, k) ELSE lane(@, k)])]
      /\ spo' = ram_data[a]

-----------------------------------------------------------------------------
(* The reference: a memory of bytes. *)

Size(op) == IF op \in ByteOps THEN 1 ELSE IF op \in HalfOps THEN 2 ELSE 4

BytesAfter ==
  [a \in Address |->
     IF mem.op \in Stores /\ a - mem.addr \in 0 .. Size(mem.op) - 1
     THEN lane(mem.data, a - mem.addr)
     ELSE bytes[a]]

\* The bytes at the address as a number, and its sign unless the load is unsigned.
Loaded ==
  LET n == Size(mem.op)
      value == word_of([k \in 0 .. 3 |-> IF k < n THEN bytes[mem.addr + k] ELSE 0])
      negative == lane(value, n - 1) >= 2 ^ (BITS - 1)
  IN  IF negative /\ mem.op \in {"LB", "LH"} THEN 2 ^ (4 * BITS) + value - 2 ^ (BITS * n)
      ELSE value

Reference ==
  /\ bytes' = BytesAfter
  /\ expected' = IF mem.op \in Loads THEN Loaded ELSE 0

-----------------------------------------------------------------------------

Edge == Memory /\ Reference /\ wb' = mem

\* An aligned access leaves EX; a misaligned one has raised its exception there.
Access(op, addr, data) ==
  /\ ~misaligned(op, addr)
  /\ mem' = [op |-> op, addr |-> addr, data |-> data]
  /\ Edge

\* Anything else leaves EX.
Other == mem' = NoAccess /\ Edge

MemoryNext ==
  \/ \E op \in Loads, addr \in Accessed : Access(op, addr, 0)
  \/ \E op \in Stores, addr \in Accessed, data \in Data : Access(op, addr, data)
  \/ Other

MemorySpec == MemoryInit /\ [][MemoryNext]_loadStoreVars

-----------------------------------------------------------------------------

\* A load of any size returns the bytes that the stores before it left, of whatever
\* sizes they were, with the extension its name says, although the word comes out
\* of the memory a cycle after the address went in (LoadUnit.sv:23-49).
LoadsReturnBytes == wb.op \in Loads => load_data(wb.op, wb.addr, spo) = expected

\* A store changes its own bytes and no others (StoreUnit.sv:17-69, DRAM.sv:41-50).
MemoryIsBytes ==
  \A a \in Address : lane(ram_data[a \div 4], a % 4) = bytes[a]

\* The data memory behaves as an array of bytes whatever the sizes of loads and stores
\* (LoadUnit.sv:23-49, StoreUnit.sv:17-69, DRAM.sv:41-50).
AccessesAreOfBytes == LoadsReturnBytes /\ MemoryIsBytes
=============================================================================
