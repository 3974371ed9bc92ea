SPECIFICATION DataSpec
CONSTANTS
  NoRequest = NoRequest
  NoValue = NoValue
  None = None
  Deleted = Deleted
  Unset = Unset
  Absent = Absent
INVARIANTS RootIsCanonical   ValuesReadBack
 
CHECK_DEADLOCK FALSE
