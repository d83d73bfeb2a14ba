SPECIFICATION Spec
CONSTANTS
  Runs = {r1, r2, r3}
  None = None
  MaxMessages = 3
  MaxQueue = 1
  MaxHandOffs = 1
  MaxReadings = 1
  Failures = TRUE
  Overlap = FALSE
CHECK_DEADLOCK FALSE
INVARIANTS TypeOK OneRun NothingUnanswered
PROPERTIES StoppedIsMute EveryMessageEnds
