SPECIFICATION Spec
CONSTANTS
  Paths = {p1}
  Texts = {v1, v2}
  EmptyText = empty
  Marked = marked
  Absent = absent
  None = none
  Actors = {a1}
  Kinds = {"review"}
  Environment = {"sameText"}
  MaxOps = 3
  MaxSnaps = 2
  MaxClock = 4
SYMMETRY Interchangeable
INVARIANTS DraftTracked
CHECK_DEADLOCK FALSE
