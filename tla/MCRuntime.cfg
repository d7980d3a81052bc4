SPECIFICATION RuntimeSpec
CONSTANTS
  Bits = 6
  Weight <- McWeight
  Operands <- McOperands
  Lo = 16
  Hi = 3
  MaxStep = 2
  MaxElapsed = 20
  BootValues <- McBootValues
  Cases = 3
  Tests <- McTests
  Absences <- McAbsences
INVARIANTS
  DividesLikeC PrintsItsArguments TimeIsMeasured VerdictsAreEarned
PROPERTIES
  ReadingsAndTestsEnd
CHECK_DEADLOCK FALSE
