SPECIFICATION Spec
CONSTANTS
  Junk = Junk
INVARIANTS  ReadsTheStream
PROPERTY OpensAgain
CHECK_DEADLOCK FALSE
