SPECIFICATION Spec
CONSTANTS
  Workers = {w1, w2}
  Clients = {c1}
  None = None
  Faults = {"clientTimeout", "brokerSignal", "brokerKill", "supStop"}
  MaxItems = 2
  MaxChan = 1
  MaxSends = 2
  Retry = 0
  NumProcs = 2
  MaxConn = 2
SYMMETRY Pool
INVARIANTS TypeOK BrokerLists AttemptInOnePlace ReplyMatches
CHECK_DEADLOCK FALSE
