SPECIFICATION Spec
CONSTANTS
  Workers = {w1, w2}
  Clients = {c1}
  None = None
  Faults = {"workerSignal", "workerKill", "scanError", "brokerKill", "supStop", "forwarderSignal", "forwarderKill"}
  MaxItems = 1
  MaxChan = 1
  MaxFiles = 2
  NumProcs = 2
  MaxConn = 1
SYMMETRY Pool
INVARIANTS BoundedBacklog OneCopy KeysOutliveForwarder
CHECK_DEADLOCK FALSE
