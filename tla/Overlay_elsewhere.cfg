SPECIFICATION Spec
CONSTANTS
  Paths = {p1, p2}
  Texts = {v1, v2}
  EmptyText = empty
  Marked = marked
  Absent = absent
  None = none
  Actors = {a1, a2}
  Kinds = {"review", "auto"}
  Environment = {"callsElsewhere"}
  MaxOps = 3
  MaxSnaps = 2
  MaxClock = 3
SYMMETRY Interchangeable
INVARIANTS NoStrandedApproval DraftTracked SyncedSnapshotSettled
CHECK_DEADLOCK FALSE
