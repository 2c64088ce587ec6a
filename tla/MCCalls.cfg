SPECIFICATION LiveSpec
CONSTANTS
  TwilioCalls = {c1}
  Importers = {worker, web}
  Worker = worker
  Tabs = {t1, t2}
  None = None
  MaxByHand = 1
  MaxFailures = 1
  MaxRequests = 2
  MaxBusy = 2
  LastTick = 2
  Lease = 1
  Overlap = 0
  Reread = 1
  CatchUp = 2
INVARIANTS TypeOK ClosedStepKeepsItsTouch OneFormPerCall
PROPERTIES FormsAreAsked
CHECK_DEADLOCK FALSE
