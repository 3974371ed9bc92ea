----------------------------- MODULE GossipVotes -----------------------------
(***************************************************************************)
(* consensus_reactor's gossip of votes to one peer                         *)
(* (consensus/consensus_reactor.cpp): what the node knows of the peer      *)
(* (PeerState), the messages that tell it, and the routine that picks a    *)
(* vote the peer does not have.  The routine runs in a thread of its own:  *)
(* it copies the two round states, then picks a vote under the mutex of    *)
(* the peer state, sends it, and marks it under the mutex again.           *)
(***************************************************************************)
EXTENDS PeerState, Sequences

CONSTANTS VotePool,      \* the votes that are ever cast
          Elsewhere,     \* those of them that the peer also gets from others
          MaxHeight, MaxRound, MaxInbox, MaxReconnects, NoVote,
          PeerSteps      \* the steps at which the peer tells where it is

VARIABLES rs,            \* our height, round and the rounds of our commits
          ours,          \* the votes we have, also those of former heights
          prs,           \* peer_state of the peer
          peer,          \* the peer: its height, round, step and votes
          inbox,         \* what the peer sent and we have not handled
          wire,          \* the votes sent to the peer and not arrived
          reconnects,
          routine        \* gossip_votes_routine

vars == <<rs, ours, prs, peer, inbox, wire, reconnects, routine>>

Rounds == 0..MaxRound

Resting == [at |-> "rest", readers |-> <<>>, vote |-> NoVote]

RoundStep(p) ==
  [kind |-> "step", height |-> p.height, round |-> p.round, step |-> p.step, last_commit_round |-> p.last_round]

Init ==
  /\ rs = [height |-> 1, round |-> 0, commits |-> <<>>]
  /\ ours = {}
  /\ prs = NewPeerState
  /\ peer = [height |-> 1, round |-> 0, step |-> NewHeightStep, last_round |-> -1, has |-> {}]
  /\ inbox = <<RoundStep(peer)>>
  /\ wire = {}
  /\ reconnects = 0
  /\ routine = Resting

-----------------------------------------------------------------------------
(* What the node itself does: votes come in, rounds and heights pass.      *)

AddVote(v) ==
  /\ v \notin ours /\ v.height = rs.height /\ v.round <= rs.round + 1
  /\ ours' = ours \cup {v}
  /\ UNCHANGED <<rs, prs, peer, inbox, wire, reconnects, routine>>

NewRound ==
  /\ rs.round < MaxRound
  /\ rs' = [rs EXCEPT !.round = @ + 1]
  /\ UNCHANGED <<ours, prs, peer, inbox, wire, reconnects, routine>>

Precommits(h, r) == {v \in VotePool : v.height = h /\ v.round = r /\ v.type = "precommit"}

Maj23(h, r) == Precommits(h, r) # {} /\ Precommits(h, r) \subseteq ours

NewHeight(r) ==
  /\ rs.height < MaxHeight /\ Maj23(rs.height, r)
  /\ rs' = [height |-> rs.height + 1, round |-> 0, commits |-> Append(rs.commits, r)]
  /\ UNCHANGED <<ours, prs, peer, inbox, wire, reconnects, routine>>

-----------------------------------------------------------------------------
(* What the peer does, as the code of this node does it.                   *)

Send(msg) == inbox' = Append(inbox, msg)

(* broadcast_new_round_step_message *)
PeerMoves(h, r, s) ==
  /\ Len(inbox) < MaxInbox
  /\ Advances(peer, [height |-> h, round |-> r, step |-> s])
  /\ h <= peer.height + 1 /\ (s = NewHeightStep => r = 0)
  /\ \E c \in IF h = peer.height THEN {peer.last_round} ELSE {r0 \in Rounds : Precommits(peer.height, r0) # {}} :
       peer' = [peer EXCEPT !.height = h, !.round = r, !.step = s, !.last_round = c]
  /\ Send(RoundStep(peer'))
  /\ UNCHANGED <<rs, ours, prs, wire, reconnects, routine>>

(* The peer gets a vote from elsewhere: broadcast_has_vote_message, or it  *)
(* sends the vote itself before its has_vote message got here.             *)
PeerAddsVote(v, kind) ==
  /\ Len(inbox) < MaxInbox
  /\ v \in Elsewhere \ peer.has /\ v.height = peer.height /\ v.round <= peer.round + 1
  /\ peer' = [peer EXCEPT !.has = @ \cup {v}]
  /\ Send([kind |-> kind, vote |-> v])
  /\ UNCHANGED <<rs, ours, prs, wire, reconnects, routine>>

(* A vote of the height of the peer, or a late precommit of its last       *)
(* commit while it waits for the new height.                               *)
Acceptable(v) ==
  \/ v.height = peer.height
  \/ /\ v.height + 1 = peer.height /\ peer.step = NewHeightStep
     /\ v.type = "precommit" /\ v.round = peer.last_round

Arrives(v) ==
  /\ v \in wire
  /\ wire' = wire \ {v}
  /\ peer' = IF Acceptable(v) THEN [peer EXCEPT !.has = @ \cup {v}] ELSE peer
  /\ UNCHANGED <<rs, ours, prs, inbox, reconnects, routine>>

-----------------------------------------------------------------------------
(* process_peer_msg of a vote; it goes on to the consensus state.          *)
ReceivedVote(v) ==
  /\ prs' = SetHasVote(EnsureVoteBitArrays(EnsureVoteBitArrays(prs, rs.height), rs.height - 1), v)
  /\ ours' = IF v.height = rs.height THEN ours \cup {v} ELSE ours

(* process_peer_msg of new_round_step, has_vote and vote, once wait_sync   *)
(* is over.                                                                *)
Receive ==
  /\ inbox # <<>>
  /\ inbox' = Tail(inbox)
  /\ LET msg == Head(inbox)
     IN CASE msg.kind = "step" ->
               prs' = ApplyNewRoundStep(prs, msg) /\ UNCHANGED ours
          [] msg.kind = "has_vote" ->
               prs' = ApplyHasVote(prs, msg.vote) /\ UNCHANGED ours
          [] msg.kind = "vote" -> ReceivedVote(msg.vote)
  /\ UNCHANGED <<rs, peer, wire, reconnects, routine>>

(* process_peer_update: the peer goes down and comes up again, with a new  *)
(* peer_state; what was under way is lost.                                 *)
Reconnect ==
  /\ reconnects < MaxReconnects
  /\ reconnects' = reconnects + 1
  /\ prs' = NewPeerState
  /\ inbox' = <<RoundStep(peer)>>
  /\ wire' = {}
  /\ routine' = Resting
  /\ UNCHANGED <<rs, ours, peer>>

-----------------------------------------------------------------------------
(* gossip_votes_routine *)

Reader(h, r, type) == [height |-> h, round |-> r, type |-> type]

LastCommit(r0) == IF r0.height = 1 THEN <<>> ELSE <<Reader(r0.height - 1, r0.commits[r0.height - 1], "precommit")>>

(* Variant: only the last commit and the prevotes are tried.               *)
ReadersForHeightPrevotes(r0, p0) ==
  IF p0.round # -1 /\ p0.round <= r0.round THEN <<Reader(p0.height, p0.round, "prevote")>> ELSE <<>>

(* gossip_votes_for_height: the vote sets it tries, in this order.         *)
ReadersForHeight(r0, p0) ==
  LET known == p0.round # -1 /\ p0.round <= r0.round
      If(c, s) == IF c THEN s ELSE <<>>
      prevotes == <<Reader(p0.height, p0.round, "prevote")>>
      pol == <<Reader(p0.height, p0.pol_round, "prevote")>>
  IN If(p0.step = NewHeightStep, LastCommit(r0))
     \o If(p0.step <= ProposeStep /\ known /\ p0.pol_round # -1, pol)
     \o If(p0.step <= PrevoteWaitStep /\ known, prevotes)
     \o If(p0.step <= PrecommitWaitStep /\ known, <<Reader(p0.height, p0.round, "precommit")>>)
     \o If(known, prevotes)
     \o If(p0.pol_round # -1, pol)

(* The branches of gossip_votes_routine.                                   *)
Readers(r0, p0) ==
  IF r0.height = p0.height THEN ReadersForHeight(r0, p0)
  ELSE IF p0.height # 0 /\ r0.height = p0.height + 1 THEN LastCommit(r0)
  ELSE IF p0.height # 0 /\ r0.height >= p0.height + 2
  THEN <<Reader(p0.height, r0.commits[p0.height], "precommit")>>
  ELSE <<>>

(* get_round_state of the consensus state and of the peer; where there is  *)
(* nothing to try the routine sleeps and comes back.                       *)
Snapshot ==
  /\ routine.at = "rest"
  /\ Readers(rs, prs) # <<>>
  /\ routine' = [at |-> "pick", readers |-> Readers(rs, prs), vote |-> NoVote]
  /\ UNCHANGED <<rs, ours, prs, peer, inbox, wire, reconnects>>

(* vote_set_reader *)
BitsOf(reader) ==
  {v.index : v \in {u \in ours : u.height = reader.height /\ u.round = reader.round /\ u.type = reader.type}}

IsCommit(reader) == reader.type = "precommit" /\ Maj23(reader.height, reader.round)

(* pick_vote_to_send, up to the choice of the vote.                        *)
Ensured(p, reader) ==
  EnsureVoteBitArrays(IF IsCommit(reader) THEN EnsureCatchupCommitRound(p, reader.height, reader.round) ELSE p,
                      reader.height)

Missing(p, reader) ==
  LET field == VoteBitArray(p, reader.height, reader.round, reader.type)
  IN IF HasBits(p, field) THEN BitsOf(reader) \ p[field] ELSE {}

(* The vote sets are tried one after the other, each under the mutex of    *)
(* the peer state, until one has a vote for the peer.                      *)
PickVote ==
  /\ routine.at = "pick"
  /\ LET reader == Head(routine.readers)
         ensured == Ensured(prs, reader)
         missing == Missing(ensured, reader)
     IN /\ prs' = ensured
        /\ \/ /\ missing = {}
              /\ routine' = IF Len(routine.readers) = 1 THEN Resting ELSE [routine EXCEPT !.readers = Tail(@)]
           \/ \E i \in missing :
                routine' = [at |-> "send", readers |-> <<>>,
                            vote |-> [height |-> reader.height, round |-> reader.round,
                                      type |-> reader.type, index |-> i]]
  /\ UNCHANGED <<rs, ours, peer, inbox, wire, reconnects>>

(* pick_send_vote: the vote is sent and marked.                            *)
SendVote ==
  /\ routine.at = "send"
  /\ wire' = wire \cup {routine.vote}
  /\ prs' = SetHasVote(prs, routine.vote)
  /\ routine' = Resting
  /\ UNCHANGED <<rs, ours, peer, inbox, reconnects>>

Next ==
  \/ \E v \in VotePool : AddVote(v) \/ Arrives(v) \/ \E kind \in {"has_vote", "vote"} : PeerAddsVote(v, kind)
  \/ NewRound
  \/ \E r \in Rounds : NewHeight(r)
  \/ \E h \in 1..MaxHeight, r \in Rounds, s \in PeerSteps : PeerMoves(h, r, s)
  \/ Receive \/ Reconnect
  \/ Snapshot \/ PickVote \/ SendVote

(* The strand of the peer runs the routine again and again, the network    *)
(* delivers what it took.                                                  *)
Fairness ==
  /\ WF_routine(Snapshot \/ PickVote \/ SendVote)
  /\ WF_inbox(Receive)
  /\ \A v \in VotePool : WF_wire(Arrives(v))

Spec == Init /\ [][Next]_vars /\ Fairness

-----------------------------------------------------------------------------
TypeOK ==
  /\ ours \subseteq VotePool /\ peer.has \subseteq VotePool /\ wire \subseteq VotePool
  /\ rs.height \in 1..MaxHeight /\ Len(rs.commits) = rs.height - 1
  /\ prs.height \in 0..MaxHeight /\ prs.round \in -1..MaxRound
  /\ Len(inbox) <= MaxInbox
  /\ routine.at \in {"rest", "pick", "send"}

(* The votes that the view of the peer says it has.                        *)
Claimed(v) ==
  LET field == VoteBitArray(prs, v.height, v.round, v.type)
  IN HasBits(prs, field) /\ v.index \in prs[field]

(* A vote that peer_state marks as one the peer has is one it has, or one  *)
(* on its way to it, for as long as the peer accepts it: a wrong mark would*)
(* keep the vote from ever being sent, whatever order the messages of the  *)
(* peer, its rounds and the routine come in.                               *)
MarksAreTrue ==
  \A v \in VotePool :
    Claimed(v) /\ Acceptable(v) => v \in peer.has \cup wire

Wanted(v) ==
  /\ v \in ours /\ v \notin peer.has
  /\ v.height = peer.height /\ v.round = peer.round
  /\ v.type = "precommit" => peer.step <= PrecommitWaitStep
  /\ \/ rs.height = v.height /\ rs.round >= v.round
     \/ rs.height > v.height /\ v.type = "precommit" /\ rs.commits[v.height] = v.round

(* Every vote we have, of the round the peer is in, gets to the peer or    *)
(* the peer goes on without it (gossip_votes_routine).                     *)
VotesArrive == \A v \in VotePool : Wanted(v) ~> ~Wanted(v)
==============================================================================
