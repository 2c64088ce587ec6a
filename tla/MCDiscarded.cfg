SPECIFICATION LiveSpec
CONSTANTS
  TwilioCalls = {c1}
  Importers = {worker}
  Worker = worker
  Tabs = {t1}
  None = None
  MaxByHand = 0
  MaxFailures = 0
  MaxRequests = 1
  MaxBusy = 2
  LastTick = 2
  Lease = 1
  Overlap = 0
  Reread = 1
  CatchUp = 2
INVARIANTS DiscardedCountsNowhere
CHECK_DEADLOCK FALSE
