SPECIFICATION RequestSpec
CONSTANTS
  ann = ann
  bo = bo
  firm = firm
  spring = spring
  autumn = autumn
  plan = plan
  w1 = w1
  w2 = w2
  NoAccount = NoAccount
  Procs = {w1, w2}
  People = {ann, bo}
  Cold = {}
  Accounts = {firm}
  Campaigns = {spring}
  Calendar = {}
  Nurture = {spring}
  NumSteps = 1
  NumActions = 1
  Rows <- AnnTwice
  ClockMode = "hold"
  PauseColleagues = FALSE
  AccountOf <- NoFirm
  Audience <- OnlyBo
  SequenceOf <- SamePlan
  Requests <- ReleaseRequests
PROPERTIES ResumeReleasesEveryone
CHECK_DEADLOCK FALSE
