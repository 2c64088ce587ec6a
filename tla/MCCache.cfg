SPECIFICATION LiveSpec
CONSTANTS
  Persons = {ann, bob}
  Failures = {"stage"}
  MaxChanges = 2
  MaxFailures = 2
INVARIANTS NobodyWrittenOff WatermarkSkipsNothing
PROPERTIES DeletedStaysDeleted CacheCatchesUp
CHECK_DEADLOCK FALSE
