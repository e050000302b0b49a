SPECIFICATION Spec
CONSTANTS
  Replies = {"work", "error"}
  MaxFaults = 1
INVARIANT SuccessMeansWork
