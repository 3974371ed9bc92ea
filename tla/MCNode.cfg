SPECIFICATION Spec
CONSTANTS
  s = s
  y = y
  A = A
  B = B
  Nil = Nil
  None = None
  any = any
  p = p
INVARIANTS BlockMatchesParts LocksHavePolkas LastCommitBacked TimerArmed
PROPERTIES SplitKeeps LeadAndHeightsKeep
CHECK_DEADLOCK FALSE
