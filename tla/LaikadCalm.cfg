SPECIFICATION Spec
CONSTANTS
  Workers = {w1, w2, w3}
  Clients = {c1, c2}
  None = None
  Faults = {}
  MaxItems = 2
  MaxChan = 2
  MaxSends = 2
  Retry = 0
  NumProcs = 2
  MaxConn = 0
SYMMETRY PoolAndClients
INVARIANT RequestConserved
PROPERTY ServiceSpec
