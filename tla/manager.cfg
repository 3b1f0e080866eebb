SPECIFICATION LiveSpec
CONSTANTS
  Pods = {p1, p2, p3}
  None = None
  Evictable = {p1, p2, p3}
  MaxFaults = 2
INVARIANTS
  ManagerTypeOK
  OneOperator
PROPERTY
  OperatorComesBack
CHECK_DEADLOCK FALSE
