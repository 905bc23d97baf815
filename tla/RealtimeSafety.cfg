SPECIFICATION Spec
CONSTANTS
  r1 = r1
  r2 = r2
  Refs = {r1, r2}
  Bodies <- AllBodies
  Tokens = 2
  MaxSeq = 1
  MaxQueued = 2
  NoToken = NoToken
INVARIANTS NoStaleMoveWhileArmed QueueBounded AcceptedStopIsApplied XYBothUnlessLost
CHECK_DEADLOCK FALSE
