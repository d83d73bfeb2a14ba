SPECIFICATION Spec
CONSTANTS
  c1 = c1
  c2 = c2
  c3 = c3
  r1 = r1
  r2 = r2
  r3 = r3
  a = a
  b = b
  None = None
  Calls = {c1, c2, c3}
  Runs = {r1, r2, r3}
  Conversations = {a, b}
  Paths = {p}
  RunOf <- MCRunOf
  ConvOf <- MCConvOf
  Subs <- MCSubs
  KindsOf <- MCKindsOf
  Overlap = FALSE
CHECK_DEADLOCK FALSE

INVARIANTS TypeOK RequestsStand AnsweredAsSaid GrantsAreChosen
PROPERTIES WritesRemoveNothing CallsReturn
