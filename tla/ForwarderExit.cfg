SPECIFICATION FairSpec
CONSTANTS
  Workers = {w1}
  Clients = {c1}
  None = None
  Faults = {"forwarderSignal"}
  MaxItems = 1
  MaxChan = 1
  MaxFiles = 1
  NumProcs = 1
  MaxConn = 1
PROPERTY SignalEnds
