SPECIFICATION LiveSpec
CONSTANTS
  mail = mail
  email = email
  Procs = {hook, worker}
  Worker = worker
  Emails = {email}
  Records = {mail}
  EmailOf <- OneEmail
  SentAt <- SentOnce
  NumTasks = 2
  OpensAt <- AllLate
  Nil = Nil
  MaxMishaps = 1
INVARIANTS TypeOK EvidenceUsedOnce OneReaderPerEvent
PROPERTIES SeenTouchesClose WholeRecordsAreRead
CHECK_DEADLOCK FALSE
