SPECIFICATION LiveSpec
CONSTANTS
  ann = ann
  bo = bo
  firm = firm
  spring = spring
  autumn = autumn
  plan = plan
  w1 = w1
  w2 = w2
  NoAccount = NoAccount
  Procs = {w1, w2}
  People = {ann}
  Cold = {ann}
  Accounts = {firm}
  Campaigns = {spring}
  Calendar = {spring}
  Nurture = {}
  NumSteps = 2
  NumActions = 1
  Rows <- OneEach
  ClockMode = "shift"
  PauseColleagues = FALSE
  AccountOf <- OneFirm
  Audience <- Everyone
  SequenceOf <- SamePlan
  Requests <- CrashRequests
INVARIANTS StepsOpenInOrder
PROPERTIES StepsGoOn StepsOpenWhereAllowed ResolvedStaysResolved
CHECK_DEADLOCK FALSE
