CONSTANTS
  Paths = {1, 2, 3, 4, 5}
  MaxMax = 3
SPECIFICATION Spec
INVARIANTS KeepsSelection
CHECK_DEADLOCK FALSE
