SPECIFICATION Spec
CONSTANTS
  Replies = {"work", "error"}
  MaxFaults = 4
INVARIANT TypeOK
PROPERTY ClientExits
CHECK_DEADLOCK FALSE
