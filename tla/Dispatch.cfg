SPECIFICATION FairSpec
CONSTANTS
  early = early
  after = after
  last = last
  explode = explode
  meta = meta
  disp = disp
  missing = missing
  Modules <- MCModules
  FirstRules <- MCFirstRules
  SecondRules <- MCSecondRules
  ScanModules <- MCScanModules
  Priority <- MCPriority
  RuleFlags <- MCRuleFlags
  ParentFlags <- MCParentFlags
  Broken <- MCBroken
  Exploders <- MCExploders
  Dispositioner = disp
  Requests <- MCRequests
  MaxDepth = 2
  StartDepth = 0
  MaxKids = 2
  MaxObjects = 3
INVARIANTS TypeOK DepthLimit RunsInOrder ExtractedScanned TimeoutMarked LateStarts VerdictCoversTree
PROPERTY ScanEnds
CHECK_DEADLOCK FALSE
