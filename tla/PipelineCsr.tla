------------------------------ MODULE PipelineCsr ------------------------------
(***************************************************************************)
(* The pipeline uses the CSR unit only in the ways the stand-alone model   *)
(* Csr assumes, so what Csr's runs and theorems say holds inside the core. *)
(***************************************************************************)
EXTENDS PipelineIsa

Unit == INSTANCE Csr WITH Exceptions <- {}, Writes <- {}, Pointers <- {}

UnitStep ==
  \/ exception.valid /\ Unit!Exception(exception)
  \/ Unit!MachineReturn
  \/ Unit!SupervisorReturn
  \/ ssp_update.valid /\ Unit!SspUpdate(ssp_update.data)
  \/ Unit!IndirectJump
  \/ Unit!LandingPad
  \/ csr_write.valid /\ Unit!Write(csr_write)

\* Every change of the CSRs is one request that Csr allows: a write or return
\* at a sufficient privilege, and none but a trap or LPAD while ELP is set.
UsesCsrUnit == [][UnitStep]_csr
=============================================================================
