SPECIFICATION Spec
CONSTANTS
  Paths = {p1}
  Texts = {v1, v2}
  EmptyText = empty
  Marked = marked
  Absent = absent
  None = none
  Actors = {a1}
  Kinds = {"review", "auto"}
  Environment = {"io"}
  MaxOps = 3
  MaxSnaps = 2
  MaxClock = 5
SYMMETRY Interchangeable
INVARIANTS TypeOK MapMirrorsLedger NoStrandedApproval ReadYourWrites BaselineKept NoFalseConflict SyncedSnapshotSettled
PROPERTIES NoSilentOverwrite AutoApplyNeverDeletes
CHECK_DEADLOCK FALSE
