------------------------------ MODULE BlockSync ------------------------------
(***************************************************************************)
(* block_pool and the block_sync reactor (consensus/block_sync): a node    *)
(* that is behind fetches the blocks from its peers, then hands over to    *)
(* consensus.  Four threads take steps: the main thread, which handles the *)
(* messages and the status of the peers; the thread of the pool, which     *)
(* makes requesters; try_sync_ticker, which verifies, saves and applies    *)
(* blocks; and switch_to_consensus_ticker.  A step is what a thread does   *)
(* under the mutex of the pool, or between two such sections.              *)
(*                                                                         *)
(* A peer is a number, as the map of the peers is ordered by their names.  *)
(* A block is its height, whether it is the one that was decided, and      *)
(* whether the commit it carries is one for the decided block before it.   *)
(***************************************************************************)
EXTENDS Integers, FiniteSets, FiniteSetsExt, Functions, Sequences

CONSTANTS Peers, NoPeer, NoBlock,
          Faulty,                  \* the peers that may send any block
          Ranges,                  \* the base and height that a peer may report
          MaxHeight,               \* the height of the chain
          MaxRequesters,           \* max_total_requesters and max_pending_requests
          MaxPendingPerPeer,       \* max_pending_requests_per_peer
          MaxDowns                 \* how often a peer goes down

(* The chain the peers have is finite.                                     *)
ASSUME SyncAssumption == MaxHeight \in Nat

VARIABLES
  peers,            \* bp_peer by id
  requesters,       \* bp_requester by height
  height,           \* block_pool::height
  max_peer_height,
  num_pending,
  mutex,            \* "free", or "dead" once a thread locked it twice
  is_running,       \* of the pool; block_sync of the reactor goes with it
  removing,         \* the peer that the main thread is removing, and where
  making,           \* the requester that the pool thread is starting
  trying,           \* what try_sync_ticker is doing
  last,             \* last_block_height of latest_state
  store,            \* the blocks that were saved
  handed,           \* the last height of the state that consensus got
  downs             \* how often a peer went down

syncVars == <<peers, requesters, height, max_peer_height, num_pending, mutex, is_running,
          removing, making, trying, last, store, handed, downs>>

pool == <<peers, requesters, height, max_peer_height, num_pending, mutex>>

Heights == 1..MaxHeight

Blocks == [height : Heights, decided : BOOLEAN, commit : BOOLEAN]

SentBy(p) == IF p \in Faulty THEN Blocks ELSE {b \in Blocks : b.decided /\ b.commit}

NotRemoving == [peer |-> NoPeer, from |-> 0]
NotMaking == [height |-> 0, peer |-> NoPeer]
NotTrying == [step |-> "peek", first |-> NoBlock, second |-> NoBlock]

(* new_reactor and new_block_pool on a node with an empty store.           *)
SyncInit ==
  /\ peers = [p \in {} |-> 0]
  /\ requesters = [h \in {} |-> 0]
  /\ height = 1
  /\ max_peer_height = 0
  /\ num_pending = 0
  /\ mutex = "free"
  /\ is_running = TRUE
  /\ removing = NotRemoving
  /\ making = NotMaking
  /\ trying = NotTrying
  /\ last = 0
  /\ store = <<>>
  /\ handed = -1
  /\ downs = 0

Without(f, x) == Restrict(f, DOMAIN f \ {x})
With(f, x, v) == [y \in DOMAIN f \cup {x} |-> IF y = x THEN v ELSE f[y]]

-----------------------------------------------------------------------------
(* bp_peer.  The timer waits once, from the creation of the peer: setting  *)
(* it again in incr_pending cancels that wait and starts no other.         *)
NewPeer(base, h) == [base |-> base, height |-> h, pending |-> 0, timer |-> "waits", did_timeout |-> FALSE]

IncrPending(peer) ==
  [peer EXCEPT !.pending = @ + 1, !.timer = IF peer.pending = 0 THEN "off" ELSE @]

DecrPending(peer) == [peer EXCEPT !.pending = @ - 1, !.timer = "off"]

UpdatedMax == IF DOMAIN peers = {} THEN 0 ELSE Max({peers[p].height : p \in DOMAIN peers})

(* The last part of remove_peer; the peer still counts for the maximum.    *)
ErasePeer(p) ==
  IF p \in DOMAIN peers
  THEN /\ peers' = Without(peers, p)
       /\ max_peer_height' = IF peers[p].height = max_peer_height THEN UpdatedMax ELSE max_peer_height
  ELSE UNCHANGED <<peers, max_peer_height>>

Assigned(p) == \E h \in DOMAIN requesters : requesters[h].peer = p

(* remove_peer, called with the mutex locked: the redo of a requester      *)
(* locks it again, and no thread gets it any more.                         *)
RemovePeerLocked(p) ==
  IF Assigned(p) /\ is_running
  THEN mutex' = "dead" /\ UNCHANGED <<peers, max_peer_height>>
  ELSE mutex' = mutex /\ ErasePeer(p)

(* pick_incr_available_peer: a peer that can serve the height.             *)
CanServe(peer, h) == peer.pending < MaxPendingPerPeer /\ peer.base <= h /\ h <= peer.height

(* The peers that the search meets up to the one it picks.                 *)
Serving(h) == {p \in DOMAIN peers : ~peers[p].did_timeout /\ CanServe(peers[p], h)}

Picked(h) == IF Serving(h) = {} THEN NoPeer ELSE Min(Serving(h))

TimedOutBefore(p) ==
  {q \in DOMAIN peers : peers[q].did_timeout /\ (p # NoPeer => q < p)}

(* pick_incr_available_peer, on its own under the mutex: the peers that    *)
(* timed out are removed on the way.                                       *)
PickIncrAvailablePeer(h, p) ==
  /\ p = Picked(h)
  /\ IF \E q \in TimedOutBefore(p) : Assigned(q)
     THEN mutex' = "dead" /\ UNCHANGED <<peers, max_peer_height>>
     ELSE LET left == Restrict(peers, DOMAIN peers \ TimedOutBefore(p))
          IN /\ mutex' = mutex
             /\ peers' = IF p = NoPeer THEN left ELSE [left EXCEPT ![p] = IncrPending(@)]
             /\ max_peer_height' =
                  IF \E q \in TimedOutBefore(p) : peers[q].height = max_peer_height
                  THEN UpdatedMax ELSE max_peer_height

-----------------------------------------------------------------------------
(* The main thread: one message, or one step of remove_peer, at a time.    *)

MainIdle == removing = NotRemoving /\ mutex = "free"

(* process_peer_msg: status_response, set_peer_range.                      *)
SetPeerRange(p, base, h) ==
  /\ MainIdle /\ is_running
  /\ peers' = IF p \in DOMAIN peers THEN [peers EXCEPT ![p].base = base, ![p].height = h]
              ELSE With(peers, p, NewPeer(base, h))
  /\ max_peer_height' = Max({max_peer_height, h})
  /\ UNCHANGED <<requesters, height, num_pending, mutex, is_running, removing, making, trying, last, store, handed, downs>>

(* process_peer_msg: block_response, add_block and set_block.              *)
AddBlock(p, b) ==
  /\ MainIdle
  /\ b.height \in DOMAIN requesters
  /\ requesters[b.height] = [peer |-> p, block |-> NoBlock]
  /\ requesters' = [requesters EXCEPT ![b.height].block = b]
  /\ num_pending' = num_pending - 1
  /\ peers' = IF p \in DOMAIN peers THEN [peers EXCEPT ![p] = DecrPending(@)] ELSE peers
  /\ UNCHANGED <<height, max_peer_height, mutex, is_running, removing, making, trying, last, store, handed, downs>>

(* process_peer_update: a peer is gone.  remove_peer runs over the         *)
(* requesters without the mutex.                                           *)
PeerDown(p) ==
  /\ MainIdle /\ p \in DOMAIN peers /\ downs < MaxDowns
  /\ downs' = downs + 1
  /\ removing' = [peer |-> p, from |-> 1]
  /\ UNCHANGED <<pool, is_running, making, trying, last, store, handed>>

NextOf(S) == IF S = {} THEN 0 ELSE Min(S)

(* remove_peer: one requester is visited, and asked to redo if it waits    *)
(* for this peer, which is still among those it picks from.  The count of  *)
(* pending requests is raised without the mutex, so that the raise may be  *)
(* lost.                                                                   *)
RedoRequester ==
  LET h == NextOf({x \in DOMAIN requesters : x >= removing.from})
  IN /\ removing # NotRemoving /\ h # 0 /\ mutex = "free"
     /\ removing' = [removing EXCEPT !.from = h + 1]
     /\ IF requesters[h].peer = removing.peer /\ is_running
        THEN \E p \in DOMAIN peers \cup {NoPeer} :
               /\ PickIncrAvailablePeer(h, p)
               /\ requesters' = [requesters EXCEPT ![h] = [peer |-> p, block |-> NoBlock]]
               /\ IF requesters[h].block = NoBlock THEN UNCHANGED num_pending
                  ELSE num_pending' \in {num_pending, num_pending + 1}
               /\ UNCHANGED height
        ELSE UNCHANGED pool
     /\ UNCHANGED <<is_running, making, trying, last, store, handed, downs>>

(* remove_peer: the peer is erased.                                        *)
PeerErased ==
  /\ removing # NotRemoving /\ {x \in DOMAIN requesters : x >= removing.from} = {}
  /\ ErasePeer(removing.peer)
  /\ removing' = NotRemoving
  /\ UNCHANGED <<requesters, height, num_pending, mutex, is_running, making, trying, last, store, handed, downs>>

(* bp_peer::on_timeout                                                     *)
PeerTimeout(p) ==
  /\ p \in DOMAIN peers /\ peers[p].timer = "waits" /\ is_running
  /\ peers' = [peers EXCEPT ![p].timer = "off", ![p].did_timeout = TRUE]
  /\ UNCHANGED <<requesters, height, max_peer_height, num_pending, mutex, is_running,
                 removing, making, trying, last, store, handed, downs>>

-----------------------------------------------------------------------------
(* The thread of the pool.                                                 *)

AtLimit == num_pending >= MaxRequesters \/ Cardinality(DOMAIN requesters) >= MaxRequesters

NextRequest == height + Cardinality(DOMAIN requesters)

(* make_requester_routine and make_next_requester                          *)
MakeNextRequester ==
  /\ mutex = "free" /\ is_running /\ making = NotMaking
  /\ ~AtLimit
  /\ NextRequest <= max_peer_height /\ NextRequest \in Heights
  /\ requesters' = With(requesters, NextRequest, [peer |-> NoPeer, block |-> NoBlock])
  /\ num_pending' = num_pending + 1
  /\ making' = [height |-> NextRequest, peer |-> NoPeer]
  /\ UNCHANGED <<peers, height, max_peer_height, mutex, is_running, removing, trying, last, store, handed, downs>>

(* request_routine: a peer is picked; without one the requester is left    *)
(* to itself.                                                              *)
RequestRoutine ==
  /\ mutex = "free" /\ making.height # 0 /\ making.peer = NoPeer
  /\ IF is_running
     THEN \E p \in DOMAIN peers \cup {NoPeer} :
            /\ PickIncrAvailablePeer(making.height, p)
            /\ making' = IF p = NoPeer THEN NotMaking ELSE [making EXCEPT !.peer = p]
     ELSE UNCHANGED <<peers, max_peer_height, mutex>> /\ making' = NotMaking
  /\ UNCHANGED <<requesters, height, num_pending, is_running, removing, trying, last, store, handed, downs>>

(* request_routine: the requester gets its peer, under its own mutex.      *)
AssignPeer ==
  /\ making.height # 0 /\ making.peer # NoPeer
  /\ requesters' = IF making.height \in DOMAIN requesters
                   THEN [requesters EXCEPT ![making.height].peer = making.peer] ELSE requesters
  /\ making' = NotMaking
  /\ UNCHANGED <<peers, height, max_peer_height, num_pending, mutex, is_running, removing, trying, last, store, handed, downs>>

(* make_requester_routine at its limits: remove_timed_out_peers.           *)
RemoveTimedOutPeer ==
  /\ mutex = "free" /\ is_running /\ making = NotMaking
  /\ AtLimit
  /\ \E p \in DOMAIN peers : peers[p].did_timeout /\ RemovePeerLocked(p)
  /\ UNCHANGED <<requesters, height, num_pending, is_running, removing, making, trying, last, store, handed, downs>>

-----------------------------------------------------------------------------
(* try_sync_ticker                                                         *)

BlockAt(h) == IF h \in DOMAIN requesters THEN requesters[h].block ELSE NoBlock

(* peek_two_blocks *)
PeekTwoBlocks ==
  /\ trying.step = "peek" /\ is_running /\ mutex = "free"
  /\ BlockAt(height) # NoBlock /\ BlockAt(height + 1) # NoBlock
  /\ trying' = [step |-> "verify", first |-> BlockAt(height), second |-> BlockAt(height + 1)]
  /\ UNCHANGED <<pool, is_running, removing, making, last, store, handed, downs>>

(* Variant: the commit is verified, but not that it is for this block.     *)
VerifiedAnyBlock(first, second) == second.commit

(* verify_commit_light of the first block with the commit in the second.   *)
Verified(first, second) == first.decided /\ second.commit

(* pop_request *)
PopRequest ==
  /\ trying.step = "verify" /\ mutex = "free"
  /\ Verified(trying.first, trying.second)
  /\ requesters' = Without(requesters, height)
  /\ height' = height + 1
  /\ trying' = [trying EXCEPT !.step = "save"]
  /\ UNCHANGED <<peers, max_peer_height, num_pending, mutex, is_running, removing, making, last, store, handed, downs>>

(* save_block *)
SaveFirst ==
  /\ trying.step = "save"
  /\ store' = Append(store, trying.first)
  /\ trying' = [trying EXCEPT !.step = "apply"]
  /\ UNCHANGED <<pool, is_running, removing, making, last, handed, downs>>

(* apply_block, and latest_state = new_state.                              *)
ApplyFirst ==
  /\ trying.step = "apply"
  /\ last' = trying.first.height
  /\ trying' = NotTrying
  /\ UNCHANGED <<pool, is_running, removing, making, store, handed, downs>>

(* redo_request for the first or the second block: a requester that was    *)
(* given a peer is redone with the mutex locked.                           *)
RedoRequest(step, h, next) ==
  /\ trying.step = step /\ mutex = "free"
  /\ ~Verified(trying.first, trying.second)
  /\ IF h \in DOMAIN requesters /\ requesters[h].peer # NoPeer
     THEN RemovePeerLocked(requesters[h].peer)
     ELSE UNCHANGED <<mutex, peers, max_peer_height>>
  /\ trying' = next
  /\ UNCHANGED <<requesters, height, num_pending, is_running, removing, making, last, store, handed, downs>>

RedoFirst == RedoRequest("verify", trying.first.height, [trying EXCEPT !.step = "redo"])

RedoSecond == RedoRequest("redo", trying.second.height, NotTrying)

-----------------------------------------------------------------------------
(* switch_to_consensus_ticker                                              *)

(* is_caught_up *)
IsCaughtUp == DOMAIN peers # {} /\ height >= max_peer_height - 1

(* Variant: only a pool that has caught up is left.                        *)
MaySwitchCaughtUp(stalled) == IsCaughtUp

(* The ticker leaves its loop when the pool has caught up, or when nothing *)
(* was popped for sync_timeout, which may always be the case between two   *)
(* pops.  It needs the mutex to look.                                      *)
MaySwitch(stalled) == stalled \/ IsCaughtUp

(* The pool is stopped ...                                                 *)
StopPool(stalled) ==
  /\ is_running /\ mutex = "free"
  /\ MaySwitch(stalled)
  /\ is_running' = FALSE
  /\ UNCHANGED <<pool, removing, making, trying, last, store, handed, downs>>

(* ... its thread joined, and consensus gets latest_state.                 *)
SwitchToConsensus ==
  /\ ~is_running /\ handed = -1
  /\ making = NotMaking
  /\ handed' = last
  /\ UNCHANGED <<pool, is_running, removing, making, trying, last, store, downs>>

SyncNext ==
  \/ \E p \in Peers, r \in Ranges : SetPeerRange(p, r.base, r.height)
  \/ \E p \in Peers : \E b \in SentBy(p) : AddBlock(p, b)
  \/ \E p \in Peers : PeerDown(p) \/ PeerTimeout(p)
  \/ RedoRequester \/ PeerErased
  \/ MakeNextRequester \/ RequestRoutine \/ AssignPeer \/ RemoveTimedOutPeer
  \/ PeekTwoBlocks \/ PopRequest \/ SaveFirst \/ ApplyFirst \/ RedoFirst \/ RedoSecond
  \/ StopPool(FALSE) \/ StopPool(TRUE) \/ SwitchToConsensus

(* The threads run.  The ticker looks once a second, for as long as the    *)
(* node syncs, and a minute without a pop comes about if there is no pop.  *)
SyncFairness ==
  /\ WF_syncVars(RequestRoutine) /\ WF_syncVars(AssignPeer)
  /\ WF_syncVars(StopPool(FALSE)) /\ WF_syncVars(StopPool(TRUE)) /\ WF_syncVars(SwitchToConsensus)
  /\ WF_syncVars(RedoFirst) /\ WF_syncVars(RedoSecond)

SyncSpec == SyncInit /\ [][SyncNext]_syncVars /\ SyncFairness

-----------------------------------------------------------------------------
SyncTypeOK ==
  /\ DOMAIN peers \subseteq Peers
  /\ DOMAIN requesters \subseteq Heights
  /\ \A h \in DOMAIN requesters :
       requesters[h].peer \in Peers \cup {NoPeer} /\ requesters[h].block \in Blocks \cup {NoBlock}
  /\ mutex \in {"free", "dead"} /\ is_running \in BOOLEAN
  /\ last \in 0..MaxHeight /\ handed \in -1..MaxHeight

(* Whatever the peers send, and however the four threads interleave, the   *)
(* blocks that are saved and applied are the decided ones, each once and   *)
(* in order: what is popped after the unlock is what was verified before   *)
(* (try_sync_ticker, reactor.cpp:130-158).                                 *)
SyncsDecidedChain ==
  /\ \A i \in DOMAIN store : store[i].height = i /\ store[i].decided
  /\ last = IF trying.step = "apply" THEN Len(store) - 1 ELSE Len(store)

(* The requesters are for consecutive heights from that of the pool, which *)
(* make_next_requester relies on when it counts them to find the next      *)
(* (block_pool.cpp:161), and a block is kept only for its own height.      *)
RequestersContiguous ==
  /\ DOMAIN requesters = height .. height + Cardinality(DOMAIN requesters) - 1
  /\ \A h \in DOMAIN requesters : requesters[h].block # NoBlock => requesters[h].block.height = h

(* A node that syncs gets to consensus in the end, with whatever peers it  *)
(* has or has not, unless the mutex of the pool is locked up               *)
(* (switch_to_consensus_ticker, reactor.cpp:166-202).                      *)
SwitchesInTheEnd == <>(handed # -1 \/ mutex = "dead")
==============================================================================
