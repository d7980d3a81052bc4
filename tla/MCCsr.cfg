SPECIFICATION Spec
CONSTANTS
  XLEN = 4
  Exceptions <- McExceptions
  Writes <- McWrites
  Pointers <- McPointers
INVARIANTS CsrTypeOK MppLegal ElpOnlyWhereEnabled TrapReturnRoundTrip
PROPERTIES PmpSticky RiseOnlyByTrap MachineStateIsolated
