SPECIFICATION Spec
CONSTANTS
  a = a  b = b
  Times <- Timeline
  Grid <- Snaps
  Starts = {1}
  Inputs <- AllInputs
  AutoName = AutoName
  Own = Own
  Names = {a, b, AutoName, Own}
  Ticks = 2
  Retries = 1
  MaxRequests = 1
  MaxEdits = 2
  None = None
INVARIANTS RepliesTellTheLocators PutBack
CHECK_DEADLOCK FALSE
