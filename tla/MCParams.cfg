SPECIFICATION Spec
CONSTANTS
  NoPeer = NoPeer
  NoBlock = NoBlock
  NotStored = NotStored
  NoBytes = NoBytes
  Missing = Missing
  Torn = Torn
  Peers = {1, 2}
  Faulty = {1}
  Ranges <- WholeChain
  MaxHeight = 3
  MaxRequesters = 2
  MaxPendingPerPeer = 2
  MaxDowns = 1
  SignHeights = {1, 2}
  SignRounds = {0, 1}
  Contents = {"A", "B"}
  Times = {1, 2}
  MaxSigned = 3
INVARIANT ParamsRecoverable
CHECK_DEADLOCK FALSE
