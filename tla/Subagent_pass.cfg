SPECIFICATION Spec
CONSTANTS
  Tasks = {t1, t2, t3}
  Batch = {t2, t3}
  BatchWorkers = 2
  MaxConcurrent = 1
  MaxQueue = 2
  Timed = {t1}
  Called = {t1}
  Events = {"send", "resume", "stop", "expiry", "dispose", "restart"}
  MaxCalls = 2
CHECK_DEADLOCK FALSE
INVARIANTS TypeOK SlotsConserved CancelledNotCompleted
PROPERTIES OutcomeStands StopEnds
