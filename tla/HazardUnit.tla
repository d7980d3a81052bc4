------------------------------- MODULE HazardUnit -------------------------------
(***************************************************************************)
(* The hazard control unit (HazardUnit.sv) as operators: what is forwarded *)
(* to the instruction in ID and when it must wait there.                   *)
(*                                                                         *)
(* i is the instruction in ID.  A stage that may write the register file   *)
(* is a record [we, rd, wd, load].  mul is the set of the destinations of  *)
(* the multiplications in EX and in the multiplier's four stages.          *)
(***************************************************************************)
EXTENDS Decoder

RAW(stage, used, rs) ==
  /\ used
  /\ stage.we
  /\ stage.rd = rs
  /\ stage.rd # 0

\* Forwarding network of one operand, youngest producer first.
forward(used, rs, ex, mem, wb, rf_value) ==
  IF RAW(ex, used, rs)       THEN ex.wd
  ELSE IF RAW(mem, used, rs) THEN mem.wd
  ELSE IF RAW(wb, used, rs)  THEN wb.wd
  ELSE rf_value

\* Mutant of load_use_hazard: a load in MEM counts as answered.
load_use_hazard_EX_only(i, ex, mem) ==
  /\ ex.load
  /\ RAW(ex, rs1_used(i), i.rs1) \/ RAW(ex, rs2_used(i), i.rs2)

\* The synchronous memory answers a load only in WB.
load_use_hazard(i, ex, mem) ==
  \E stage \in {ex, mem} :
    /\ stage.load
    /\ RAW(stage, rs1_used(i), i.rs1) \/ RAW(stage, rs2_used(i), i.rs2)

reads(i, rd) ==
  /\ rd # 0
  /\ (rs1_used(i) /\ i.rs1 = rd) \/ (rs2_used(i) /\ i.rs2 = rd)

mul_use_hazard(i, mul) == \E rd \in mul : reads(i, rd)

mul_struct_hazard(i, s1_busy) == i.op = "MUL" /\ s1_busy

mul_waw_hazard(i, mul) ==
  \E rd \in mul : rf_we(i) /\ i.rd # 0 /\ i.rd = rd /\ reads(i, rd)

\* Nothing younger moves while a multiplication is in EX or in the multiplier.
mul_commit_serialize_hazard(mul) == mul # {}

\* Mutant of any_hazard: shadow-stack accesses do not serialise.
any_hazard_without_shadow(i, ex, mem, mul, s1_busy, shadow_serialize) ==
  \/ load_use_hazard(i, ex, mem)
  \/ mul_use_hazard(i, mul)
  \/ mul_struct_hazard(i, s1_busy)
  \/ mul_waw_hazard(i, mul)
  \/ mul_commit_serialize_hazard(mul)

any_hazard(i, ex, mem, mul, s1_busy, shadow_serialize) ==
  \/ load_use_hazard(i, ex, mem)
  \/ mul_use_hazard(i, mul)
  \/ mul_struct_hazard(i, s1_busy)
  \/ mul_waw_hazard(i, mul)
  \/ mul_commit_serialize_hazard(mul)
  \/ shadow_serialize
=============================================================================
