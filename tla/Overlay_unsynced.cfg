SPECIFICATION Spec
CONSTANTS
  Paths = {p1}
  Texts = {v1, v2}
  EmptyText = empty
  Marked = marked
  Absent = absent
  None = none
  Actors = {a1}
  Kinds = {"review", "unsynced"}
  Environment = {"revoked"}
  MaxOps = 3
  MaxSnaps = 2
  MaxClock = 5
SYMMETRY Interchangeable
INVARIANTS SyncedSnapshotSettled
CHECK_DEADLOCK FALSE
