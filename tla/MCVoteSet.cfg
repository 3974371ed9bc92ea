SPECIFICATION MCSpec
CONSTANTS
  v1 = v1
  v2 = v2
  v3 = v3
  v4 = v4
  A = A
  B = B
  Validators = {v1, v2, v3, v4}
  Power <- TightPower
  N = 4
  ValidatorAt <- Order
  BlockIds = {A, B, Nil}
  Nil = Nil
  None = None
  Peers = {p1}
  Faulty = {v3, v4}
INVARIANTS MajorityNotMissed CommitBacked AcceptedIsSigned SignedIsAccepted
PROPERTIES Maj23Stable HeavyKeepsFirst
