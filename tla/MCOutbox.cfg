SPECIFICATION LiveSpec
CONSTANTS
  Procs = {web, worker}
  Tasks = {call}
  Nil = Nil
  RemoveOnSkip = TRUE
  IdField = TRUE
  MaxIds = 2
  MaxWrites = 2
  MaxMishaps = 1
INVARIANTS TypeOK NothingIsLost DoneIsSomebodysWork
PROPERTIES DiscardStands EveryWriteLands
CHECK_DEADLOCK FALSE
