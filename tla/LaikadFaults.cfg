SPECIFICATION Spec
CONSTANTS
  Workers = {w1, w2}
  Clients = {c1}
  None = None
  Faults = {"clientTimeout", "workerSignal", "workerKill", "scanError", "slowBroker"}
  MaxItems = 2
  MaxChan = 1
  MaxSends = 2
  Retry = 1
  NumProcs = 2
  MaxConn = 2
SYMMETRY PoolAndClients
INVARIANTS OneTaskPerWorker AttemptInOnePlace ReplyMatches ItemsBounded
PROPERTY ServiceSpec
CHECK_DEADLOCK FALSE
