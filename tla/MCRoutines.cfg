SPECIFICATION RoutinesSpec
CONSTANTS
  NoVote = NoVote
  NoBits = NoBits
  NoHeader = NoHeader
  NoPart = NoPart
  Null = Null
 
PROPERTIES PeersCatchUp SeenUnlessRemoved RoutinesEnd HandshakeCompletes
CHECK_DEADLOCK FALSE
