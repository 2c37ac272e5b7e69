\* One connection: two mails and their recipients, exceptions, a file being rewritten.
SPECIFICATION FairMilterSpec
CONSTANTS
  Confs <- Confs2
  Written = {0}
  MaxLoadAttempts = 2
  MaxRewrites = 1
  MaxMails = 2
  MaxRcpts = 2
  Dispositions = {"deny"}
INVARIANTS
  MilterTypeOK
  OwnVerdict
  LoggedOnce
PROPERTIES
  ScannedBeforeLogged
  ShutdownScansNothing
  CallbackReturns
CHECK_DEADLOCK FALSE
