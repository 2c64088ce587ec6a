SPECIFICATION LiveSpec
CONSTANTS
  r1 = r1
  r2 = r2
  ann = ann
  bob = bob
  Users = {u1}
  Worker = worker
  Rows = {r1, r2}
  Persons = {ann, bob}
  Broken = {bob}
  Worked = {ann}
  Already = {r1, r2}
  Owner <- BothHaveOne
  LastDay = 2
  Repeats = {TRUE}
  Batch = 1
  MaxEdits = 2
  MaxUpsets = 1
  Nil = Nil
INVARIANTS TypeOK OccurrenceDoneOnce FieldsCarryTheTask
PROPERTIES ChangesReachTwenty
CHECK_DEADLOCK FALSE
