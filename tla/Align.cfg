SPECIFICATION SpecH
CONSTANTS
  XLEN = 24
  PmaLimit = 32
  Regs <- McRegs
  Programs <- HalfWordJump
  Boots <- PlainBoot
  BpuEnabled = TRUE
INVARIANT FetchAligned
