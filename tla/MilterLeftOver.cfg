\* What the comment in envfrom says.
SPECIFICATION MilterSpec
CONSTANTS
  Confs <- Confs2
  Written = {0}
  MaxLoadAttempts = 2
  MaxRewrites = 1
  MaxMails = 2
  MaxRcpts = 1
  Dispositions = {"deny"}
INVARIANTS
  NothingLeftOver
CHECK_DEADLOCK FALSE
