SPECIFICATION AppSpec
CONSTANTS
  NoRequest = NoRequest
  NoValue = NoValue
  None = None
  Deleted = Deleted
  Unset = Unset
  Absent = Absent
INVARIANTS OwnResponse EvidenceIsUsedOnce
  
CHECK_DEADLOCK FALSE
