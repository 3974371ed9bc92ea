SPECIFICATION GossipSpec
CONSTANTS
  NoVote = NoVote
  NoBits = NoBits
  NoHeader = NoHeader
  NoPart = NoPart
  Null = Null
INVARIANTS MarksAreTrue PicksAMissingOne 
PROPERTY VotesArrive
CHECK_DEADLOCK FALSE
