SPECIFICATION FairSpec
CONSTANTS
  Workers = {w1, w2}
  Clients = {c1, c2}
  None = None
  Faults = {"brokerSignal"}
  MaxItems = 1
  MaxChan = 1
  MaxSends = 1
  Retry = 0
  NumProcs = 2
  MaxConn = 1
PROPERTIES DrainDelivers RequestAnswered BrokerReturns WorkerListed
CHECK_DEADLOCK FALSE
