SPECIFICATION FairWorkerSpec
CONSTANTS
  Tabs = {t1, t2}
  MissedBeats = 2
  MaxInbox = 1
INVARIANTS PauseIsEveryTabs
PROPERTIES ClosesOnceHeard FailedCloses
CHECK_DEADLOCK FALSE
