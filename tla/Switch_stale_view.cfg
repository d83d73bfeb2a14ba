SPECIFICATION Spec
CONSTANTS
  Workspaces = {w1, w2}
  Switchers = {s1}
  Agent = agent
  None = None
  MaxVersion = 1
  Faults = FALSE
INVARIANT ViewIsActive
