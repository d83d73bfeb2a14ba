SPECIFICATION Spec
CONSTANTS
  Tasks = {t1}
  Batch = {}
  BatchWorkers = 1
  MaxConcurrent = 1
  MaxQueue = 2
  Timed = {}
  Called = {t1}
  Events = {"send"}
  MaxCalls = 1
CHECK_DEADLOCK FALSE

PROPERTIES FollowUpRuns
