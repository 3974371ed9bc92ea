SPECIFICATION MCSpec
CONSTANTS
  v1 = v1
  v2 = v2
  v3 = v3
  v4 = v4
  A = A
  B = B
  Nil = Nil
  None = None
  Validators = {v1, v2, v3, v4}
  Power <- EqualPower
  Faulty = {v4}
  Rounds = {0, 1}
  BlockIds = {A, B, Nil}
SYMMETRY Symmetry
INVARIANT Agreement
CONSTRAINT NoNilPrecommit
