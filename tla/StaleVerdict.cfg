SPECIFICATION SpecH
CONSTANTS
  XLEN = 24
  PmaLimit = 32
  Regs <- McRegs
  Programs <- LockItself
  Boots <- LockBoot
  BpuEnabled = TRUE
INVARIANT ExecutesOnlyPermitted
