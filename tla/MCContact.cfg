SPECIFICATION LiveSpec
CONSTANTS
  Procs = {dialog, worker}
  Contacts = {cy}
  Nil = Nil
  Acts = {"move", "undo", "opt_out", "lift_opt_out", "remove", "erase", "enroll"}
  Existing = {}
  MaxPersons = 2
  MaxItems = 1
  MaxMishaps = 1
INVARIANTS TypeOK OptOutOutlivesUndo OnePersonPerContact
PROPERTIES LivesAsPromised MovesSettle
CHECK_DEADLOCK FALSE
