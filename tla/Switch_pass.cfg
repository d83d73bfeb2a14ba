SPECIFICATION Spec
CONSTANTS
  Workspaces = {w1, w2}
  Switchers = {s1, s2}
  Agent = agent
  None = None
  MaxVersion = 1
  Faults = TRUE
INVARIANTS TypeOK LockHasOwner WaiterHasSwitch SettledViewIsActive
PROPERTIES AskedIsShown SwitchEnds SwitchPrepares
