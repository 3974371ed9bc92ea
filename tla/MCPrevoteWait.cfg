SPECIFICATION Spec
CONSTANTS
  s = s
  y = y
  A = A
  B = B
  Nil = Nil
  None = None
  any = any
  p = p
PROPERTY PrevoteWaitFollows
CHECK_DEADLOCK FALSE
