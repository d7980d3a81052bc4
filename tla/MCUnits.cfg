SPECIFICATION UnitsSpec
CONSTANTS
  B = 4
  Rds <- McRds
  Operands <- McOperands
  MaxInFlight = 2
  BPU_TYPES <- McTypes
  INDEX_BITS = 2
  META_BITS = 2
  Code <- McCode
  BITS = 1
  Words = 2
  Data <- McData
  Accessed <- McAccessed
  \* An address space of 32 bytes, all of it inside the PMA window.
  XLEN = 5
  PmaLimit = 32
INVARIANTS
  CorrectProduct PredictorsLearn AccessesAreOfBytes CheckerIsExact ChecksAsNamed
