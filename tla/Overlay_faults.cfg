SPECIFICATION Spec
CONSTANTS
  Paths = {p1}
  Texts = {v1, empty}
  EmptyText = empty
  Marked = marked
  Absent = absent
  None = none
  Actors = {a1}
  Kinds = {"review", "auto", "tool", "unsynced"}
  Environment = {"crash", "revoked", "io", "refreshDuringCall", "editDuringSync"}
  MaxOps = 3
  MaxSnaps = 2
  MaxClock = 3
INVARIANTS DraftTracked DraftStored
PROPERTIES RunEnds
CHECK_DEADLOCK FALSE
