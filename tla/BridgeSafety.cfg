SPECIFICATION Spec
CONSTANTS
  None = None
  c1 = c1
  c2 = c2
  k1 = k1
  Callers = {c1}
  Clients = {k1}
  ClientOf <- OneClient
  Commands = {"read", "write", "huge"}
  Normal <- Plain
  Mutations = {"write", "huge"}
  Blocked = {}
  Oversized = {"huge"}
  Large = {"huge"}
  MaxRetries = 1
  MaxPerTick = 1
  MaxCalls = 2
  MaxConns = 2
  MaxSteps = 0
  MaxBreaks = 1
  MaxRestarts = 1
INVARIANTS AtMostOnce OwnAnswer
PROPERTY KeepsContract
CONSTRAINT OneFault
CHECK_DEADLOCK FALSE
