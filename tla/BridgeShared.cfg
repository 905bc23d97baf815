SPECIFICATION FairSpec
CONSTANTS
  None = None
  c1 = c1
  c2 = c2
  k1 = k1
  Callers = {c1, c2}
  Clients = {k1}
  ClientOf <- OneClient
  Commands = {"large", "blocked"}
  Normal <- Plain
  Mutations = {}
  Blocked = {"blocked"}
  Oversized = {}
  Large = {"large"}
  MaxRetries = 1
  MaxPerTick = 2
  MaxCalls = 1
  MaxConns = 2
  MaxSteps = 1
  MaxBreaks = 0
  MaxRestarts = 0
INVARIANT EpochNamesConnection
PROPERTY CallReturns
CHECK_DEADLOCK FALSE
