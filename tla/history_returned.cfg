SPECIFICATION Spec
CONSTANTS
  N = 3
  PageSize = 1
  MaxPage = 2
  MaxChanges = 1
  MaxInputs = 3
CHECK_DEADLOCK FALSE
INVARIANTS
  NoRowIsSkipped
