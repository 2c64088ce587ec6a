SPECIFICATION Spec
CONSTANTS
  ann = ann
  bo = bo
  firm = firm
  spring = spring
  autumn = autumn
  plan = plan
  w1 = w1
  w2 = w2
  NoAccount = NoAccount
  Procs = {w1, w2}
  People = {ann}
  Cold = {}
  Accounts = {firm}
  Campaigns = {spring}
  Calendar = {}
  Nurture = {}
  NumSteps = 2
  NumActions = 1
  Rows <- OneEach
  ClockMode = "shift"
  PauseColleagues = FALSE
  AccountOf <- OneFirm
  Audience <- Everyone
  SequenceOf <- SamePlan
  Requests <- ManyRequests
SYMMETRY Alike
INVARIANTS TypeOK EngineInv
CHECK_DEADLOCK FALSE
