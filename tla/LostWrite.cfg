SPECIFICATION SpecH
CONSTANTS
  XLEN = 24
  PmaLimit = 32
  Regs <- McRegs
  Programs <- WriteThenPad
  Boots <- PlainBoot
  BpuEnabled = TRUE
INVARIANT CsrWriteNotDropped
