SPECIFICATION SpecH
CONSTANTS
  XLEN = 24
  PmaLimit = 32
  Regs <- McRegs
  Programs <- McPrograms
  Boots <- McBoots
  BpuEnabled = TRUE
INVARIANTS CommitPortExclusive RedirectSparesOlderMul
PROPERTY ImplementsIsa
