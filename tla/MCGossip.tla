-------------------------------- MODULE MCGossip --------------------------------
(***************************************************************************)
(* Gossip between nodes, for TLC: the routines that send votes and blocks  *)
(* to a peer, the bit arrays by which they know what the peer has, the     *)
(* part sets in which blocks are sent, the concurrent list that is         *)
(* gossiped from, the evidence reactor with its peer routines, and the     *)
(* secret connection between two nodes.  They share no state: each         *)
(* behaviour explores the component that its focus names.                  *)
(***************************************************************************)
EXTENDS Integers, Sequences, TLC

CONSTANTS NoVote, NoBits, NoHeader, NoPart, Null

VARIABLES
  votes_rs, votes_ours, votes_prs, votes_peer, votes_inbox, votes_wire,
  votes_reconnects, votes_routine,
  data_rs, data_decided, data_prs, data_peer, data_inbox, data_wire,
  data_routine, data_reconnects,
  bits_x, bits_y,
  block_wanted, block_other, block_set,
  list_head, list_tail, list_len, list_link, list_removed, list_fresh,
  list_gen, list_closed, list_thrown, list_mutator, list_at, list_asleep,
  list_seen,
  reactor_routines, reactor_closed, reactor_at, reactor_evidence,
  reactor_count, reactor_notifying, reactor_main, reactor_missed,
  reactor_updates,
  secret_task, secret_sendKey, secret_recvKey, secret_sendNonce,
  secret_recvNonce, secret_wire, secret_pend, secret_busy, secret_buf,
  secret_sent, secret_got, secret_dead, secret_early,
  focus                          \* the component that moves

V(h, r, t, i) == [height |-> h, round |-> r, type |-> t, index |-> i]

(* Precommits of one validator in two rounds; the peer may have the first  *)
(* from elsewhere.                                                         *)
VotePool == {V(1, 0, "precommit", 0), V(1, 1, "precommit", 0)}
Elsewhere == {V(1, 0, "precommit", 0)}


Votes == INSTANCE GossipVotes WITH
  MaxHeight <- 2, MaxRound <- 1, MaxInbox <- 1, MaxReconnects <- 1,
  PeerSteps <- {1, 5}, rs <- votes_rs, ours <- votes_ours,
  prs <- votes_prs, peer <- votes_peer, inbox <- votes_inbox,
  wire <- votes_wire, reconnects <- votes_reconnects,
  routine <- votes_routine

Data == INSTANCE GossipData WITH
  Parts <- {0, 1}, MaxHeight <- 2, MaxRound <- 1, MaxInbox <- 1,
  MaxWire <- 2, MaxReconnects <- 1, rs <- data_rs,
  decided <- data_decided, prs <- data_prs, peer <- data_peer,
  inbox <- data_inbox, wire <- data_wire, routine <- data_routine,
  reconnects <- data_reconnects

Bits == INSTANCE BitArray WITH
  ByteBits <- 2, WordBytes <- 2, MaxBits <- 5, x <- bits_x, y <- bits_y

Block == INSTANCE PartSet WITH
  PartBytes <- {0, 1}, PartSize <- 2, MaxSize <- 5,
  wanted <- block_wanted, other <- block_other, set <- block_set

List == INSTANCE CList WITH
  Elems <- {1, 2, 3}, ListMaxLen <- 2, head <- list_head,
  tail <- list_tail, len <- list_len, link <- list_link,
  removed <- list_removed, fresh <- list_fresh, gen <- list_gen,
  closed <- list_closed, thrown <- list_thrown, mutator <- list_mutator,
  at <- list_at, asleep <- list_asleep, seen <- list_seen

Reactor == INSTANCE EvidenceReactor WITH
  Peers <- {"p", "q"}, MaxUpdates <- 3, routines <- reactor_routines,
  closed <- reactor_closed, at <- reactor_at,
  evidence <- reactor_evidence, count <- reactor_count,
  notifying <- reactor_notifying, main <- reactor_main,
  missed <- reactor_missed, updates <- reactor_updates

Secret == INSTANCE SecretConnection WITH
  Ends <- {"a", "b"}, Lower <- "a", Sizes <- [auth |-> 3, info |-> 2, ping
  |-> 1, pong |-> 1, msg |-> 2], DataMax <- 2, MinBytes <- 2,
  MaxPings <- 1, MaxMsgs <- 2, task <- secret_task,
  sendKey <- secret_sendKey, recvKey <- secret_recvKey,
  sendNonce <- secret_sendNonce, recvNonce <- secret_recvNonce,
  wire <- secret_wire, pend <- secret_pend, busy <- secret_busy,
  buf <- secret_buf, sent <- secret_sent, got <- secret_got,
  dead <- secret_dead, early <- secret_early

votesVars == <<votes_rs, votes_ours, votes_prs, votes_peer, votes_inbox,
           votes_wire, votes_reconnects, votes_routine>>
dataVars == <<data_rs, data_decided, data_prs, data_peer, data_inbox, data_wire,
           data_routine, data_reconnects>>
bitsVars == <<bits_x, bits_y>>
blockVars == <<block_wanted, block_other, block_set>>
listVars == <<list_head, list_tail, list_len, list_link, list_removed,
           list_fresh, list_gen, list_closed, list_thrown, list_mutator,
           list_at, list_asleep, list_seen>>
reactorVars == <<reactor_routines, reactor_closed, reactor_at, reactor_evidence,
           reactor_count, reactor_notifying, reactor_main, reactor_missed,
           reactor_updates>>
secretVars == <<secret_task, secret_sendKey, secret_recvKey, secret_sendNonce,
           secret_recvNonce, secret_wire, secret_pend, secret_busy,
           secret_buf, secret_sent, secret_got, secret_dead, secret_early>>
allVars == <<votesVars, dataVars, bitsVars, blockVars, listVars, reactorVars, secretVars, focus>>

-----------------------------------------------------------------------------
InitWith(foci) ==
  /\ focus \in foci
  /\ Votes!Init
  /\ Data!Init
  /\ IF focus = "bits" THEN Bits!BitInit ELSE bits_x = <<>> /\ bits_y = <<>>
  /\ IF focus = "block" THEN Block!PartInit ELSE block_wanted = <<>> /\ block_other = <<>> /\ block_set = <<>>
  /\ List!ListInit
  /\ Reactor!ReactorInit
  /\ Secret!SecretInit

VotesMoves == focus = "votes" /\ Votes!Next /\ UNCHANGED <<dataVars, bitsVars, blockVars, listVars, reactorVars, secretVars, focus>>
DataMoves == focus = "data" /\ Data!Next /\ UNCHANGED <<votesVars, bitsVars, blockVars, listVars, reactorVars, secretVars, focus>>
BitsMoves == focus = "bits" /\ Bits!BitNext /\ UNCHANGED <<votesVars, dataVars, blockVars, listVars, reactorVars, secretVars, focus>>
BlockMoves == focus = "block" /\ Block!PartNext /\ UNCHANGED <<votesVars, dataVars, bitsVars, listVars, reactorVars, secretVars, focus>>
ListMoves == focus = "list" /\ List!ListNext /\ UNCHANGED <<votesVars, dataVars, bitsVars, blockVars, reactorVars, secretVars, focus>>
ReactorMoves == focus = "reactor" /\ Reactor!ReactorNext /\ UNCHANGED <<votesVars, dataVars, bitsVars, blockVars, listVars, secretVars, focus>>
SecretMoves == focus = "secret" /\ Secret!SecretNext /\ UNCHANGED <<votesVars, dataVars, bitsVars, blockVars, listVars, reactorVars, focus>>

Next == VotesMoves \/ DataMoves \/ BitsMoves \/ BlockMoves \/ ListMoves \/ ReactorMoves \/ SecretMoves

(* Votes and what carries them, and the routines that wait for each other. *)
(* Strong fairness is a premise of the properties that need it: TLC would  *)
(* multiply it over the others.                                            *)
GossipSpec ==
  /\ InitWith({"votes", "bits", "block"}) /\ [][Next]_allVars
  /\ focus = "votes" => Votes!Fairness

RoutinesSpec ==
  /\ InitWith({"data", "list", "reactor", "secret"}) /\ [][Next]_allVars
  /\ focus = "list" => List!ListFairness

-----------------------------------------------------------------------------
(* Every vote peer_state marks as the peer's is with the peer or on its    *)
(* way to it (GossipVotes).                                                *)
MarksAreTrue == Votes!TypeOK /\ Votes!MarksAreTrue

(* gossip_votes_routine gets every vote of the peer's round to it          *)
(* (GossipVotes).                                                          *)
VotesArrive == focus = "votes" => Votes!VotesArrive

(* A peer at an earlier height gets the block and goes on, and a peer in   *)
(* our round gets the parts of the proposal (GossipData).                  *)
PeersCatchUp == focus = "data" /\ Data!Fairness => Data!CatchesUp /\ Data!PartsArrive

(* What bit_array's sub and pick_random select is missing, and something   *)
(* missing is selected; the encodings are inverses; or_op is the union if  *)
(* the first array is not the shorter (BitArray).                          *)
PicksAMissingOne ==
  focus = "bits" => Bits!PicksAMissingOne /\ Bits!EncodingsAreInverse /\ Bits!OrIsUnionIfLonger


(* A routine that walks the list sleeps when and only when it has to, no   *)
(* channel is closed twice, and an element that stays in the list is seen  *)
(* (CList).                                                                *)
SeenUnlessRemoved ==
  focus = "list" =>
    /\ [](List!ListTypeOK /\ List!NeverClosedTwice /\ List!ClosedWhenThereIsMore)
    /\ List!SeenUnlessRemoved

(* The routine of a peer that is down ends, on_stop ends, and no routine   *)
(* is left when it has returned (EvidenceReactor).                         *)
RoutinesEnd ==
  focus = "reactor" /\ Reactor!ReactorFairness =>
    Reactor!ClosedRoutinesEnd /\ Reactor!StopEnds /\ []Reactor!StoppedIsQuiet


(* The handshake of a secret connection ends on both sides                 *)
(* (SecretConnection).                                                     *)
HandshakeCompletes == focus = "secret" /\ Secret!SecretFairness => Secret!HandshakeCompletes

==============================================================================
