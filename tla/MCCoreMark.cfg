SPECIFICATION CoreMarkSpec
CONSTANTS
  TicksPerSec = 25
  Costs <- McCosts
  Given = {0, 1, 10}
  Lengths <- McLengths
  Keys = {1, 2, 3}
INVARIANTS
  AutomaticRunIsValid SortIsStable DataIsKept ResultsAreRight
PROPERTIES
  SameAgain PartsEnd
CHECK_DEADLOCK FALSE
