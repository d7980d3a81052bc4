SPECIFICATION FairSpecH
CONSTANTS
  XLEN = 24
  PmaLimit = 32
  Regs <- McRegs
  Programs <- McPrograms
  Boots <- McBoots
  BpuEnabled = TRUE
PROPERTIES StallsEnd HeldExceptionResolved RetiresForever
