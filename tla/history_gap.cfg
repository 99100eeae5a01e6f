SPECIFICATION Spec
CONSTANTS
  N = 3
  PageSize = 1
  MaxPage = 2
  MaxChanges = 2
  MaxInputs = 2
CHECK_DEADLOCK FALSE
INVARIANTS
  NothingIsOutOfReach
