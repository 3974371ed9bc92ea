------------------------------ MODULE GossipData ------------------------------
(***************************************************************************)
(* consensus_reactor's gossip of proposals and block parts to one peer     *)
(* (consensus/consensus_reactor.cpp): gossip_data_routine with its catch-  *)
(* up branch, the messages it sends, and the messages of the peer that     *)
(* tell the node what the peer has (PeerState).                            *)
(*                                                                         *)
(* The header of the block proposed in round r of height h is <<h, r>>,    *)
(* and its pol_round is r - 1: that of round 0 has none.                   *)
(* decided[h] is the header of the block of height h.  The routine runs in *)
(* a thread of its own and works on copies of the two round states, in     *)
(* which the bit arrays of the peer are blank.  The peer runs this code.   *)
(***************************************************************************)
EXTENDS PeerState, Sequences

CONSTANTS Parts,         \* indices of the parts of a block
          MaxHeight, MaxRound,
          MaxInbox, MaxWire,     \* bounds: messages under way
          MaxReconnects

VARIABLES rs,            \* our round state
          decided,       \* block_store: the header of each block stored
          prs,           \* peer_state of the peer
          peer,          \* the peer's own round state
          inbox,         \* what the peer sent and we have not handled
          wire,          \* what was sent to the peer and has not arrived
          routine,       \* gossip_data_routine: at rest, or the copies it works on
          reconnects

vars == <<rs, decided, prs, peer, inbox, wire, routine, reconnects>>

AtRound(h, r) == [height |-> h, round |-> r, proposal |-> FALSE, header |-> NoHeader, parts |-> {}]

Resting == [at |-> "rest"]

RoundStep(p) == [kind |-> "step", height |-> p.height, round |-> p.round, step |-> NewHeightStep,
                 last_commit_round |-> -1]

Init ==
  /\ rs = AtRound(1, 0)
  /\ decided = <<>>
  /\ prs = NewPeerState
  /\ peer = AtRound(1, 0)
  /\ inbox = <<RoundStep(peer)>>
  /\ wire = <<>>
  /\ routine = Resting
  /\ reconnects = 0

-----------------------------------------------------------------------------
(* What the node itself does; it rests at the last height.                 *)

(* A proposal of the round is taken, from this node's proposer or another. *)
TakeProposal(s, header) ==
  IF s.proposal THEN s
  ELSE IF s.header # NoHeader THEN [s EXCEPT !.proposal = TRUE]
  ELSE [s EXCEPT !.proposal = TRUE, !.header = header]

Propose ==
  /\ ~rs.proposal /\ rs.height < MaxHeight
  /\ rs' = TakeProposal(rs, <<rs.height, rs.round>>)
  /\ UNCHANGED <<decided, prs, peer, inbox, wire, routine, reconnects>>

AddPart(i) ==
  /\ rs.header # NoHeader /\ i \notin rs.parts
  /\ rs' = [rs EXCEPT !.parts = @ \cup {i}]
  /\ UNCHANGED <<decided, prs, peer, inbox, wire, routine, reconnects>>

NewRound ==
  /\ rs.round < MaxRound /\ rs.height < MaxHeight
  /\ rs' = AtRound(rs.height, rs.round + 1)
  /\ UNCHANGED <<decided, prs, peer, inbox, wire, routine, reconnects>>

(* The block is complete and committed.                                    *)
NewHeight ==
  /\ rs.height < MaxHeight /\ rs.header # NoHeader /\ rs.parts = Parts
  /\ decided' = Append(decided, rs.header)
  /\ rs' = AtRound(rs.height + 1, 0)
  /\ UNCHANGED <<prs, peer, inbox, wire, routine, reconnects>>

-----------------------------------------------------------------------------
(* What the peer does *)

Tell(msg) == inbox' = Append(inbox, msg)

PeerNewRound ==
  /\ peer.round < MaxRound /\ peer.height < MaxHeight /\ Len(inbox) < MaxInbox
  /\ peer' = AtRound(peer.height, peer.round + 1)
  /\ Tell(RoundStep(peer'))
  /\ UNCHANGED <<rs, decided, prs, wire, routine, reconnects>>

(* It has seen the precommits of a block that it does not have:            *)
(* enter_commit, and broadcast_new_valid_block_message.                    *)
PeerLearnsCommit ==
  /\ peer.height <= Len(decided) /\ Len(inbox) < MaxInbox
  /\ peer.header # decided[peer.height]
  /\ peer' = [peer EXCEPT !.header = decided[peer.height], !.parts = {}]
  /\ Tell([kind |-> "valid_block", height |-> peer.height, round |-> peer.round,
           header |-> peer'.header, parts |-> {}, is_commit |-> TRUE])
  /\ UNCHANGED <<rs, decided, prs, wire, routine, reconnects>>

PeerNewHeight ==
  /\ peer.height <= Len(decided) /\ Len(inbox) < MaxInbox
  /\ peer.header = decided[peer.height] /\ peer.parts = Parts
  /\ peer' = AtRound(peer.height + 1, 0)
  /\ Tell(RoundStep(peer'))
  /\ UNCHANGED <<rs, decided, prs, wire, routine, reconnects>>

(* add_proposal_block_part: a part proves which header it is of.           *)
TakePart(s, msg) ==
  IF msg.height # s.height \/ msg.header # s.header THEN s ELSE [s EXCEPT !.parts = @ \cup {msg.index}]

(* A message arrives at the peer; proposal_pol is for its view of us.      *)
Arrives ==
  /\ wire # <<>>
  /\ wire' = Tail(wire)
  /\ LET msg == Head(wire)
     IN peer' = IF msg.kind = "part" THEN TakePart(peer, msg)
                ELSE IF msg.kind = "proposal" /\ msg.height = peer.height /\ msg.round = peer.round
                THEN TakeProposal(peer, msg.header)
                ELSE peer
  /\ UNCHANGED <<rs, decided, prs, inbox, routine, reconnects>>

-----------------------------------------------------------------------------
(* process_peer_msg: new_round_step and new_valid_block.                   *)
Receive ==
  /\ inbox # <<>>
  /\ inbox' = Tail(inbox)
  /\ prs' = IF Head(inbox).kind = "step" THEN ApplyNewRoundStep(prs, Head(inbox))
            ELSE ApplyNewValidBlock(prs, Head(inbox))
  /\ UNCHANGED <<rs, decided, peer, wire, routine, reconnects>>

(* process_peer_update, down and up: a new peer_state, and the peer tells  *)
(* where it is.  The old routine ends, a new one starts.                   *)
Reconnect ==
  /\ reconnects < MaxReconnects
  /\ reconnects' = reconnects + 1
  /\ prs' = NewPeerState
  /\ inbox' = <<RoundStep(peer)>>
  /\ wire' = <<>>
  /\ routine' = Resting
  /\ UNCHANGED <<rs, decided, peer>>

-----------------------------------------------------------------------------
(* gossip_data_routine *)

(* peer_round_state::operator= *)
Blank(p) == [p EXCEPT !.parts = Copied(@), !.pol = Copied(@)]

Snapshot ==
  /\ routine.at = "rest"
  /\ routine' = [at |-> "work", rs |-> rs, prs |-> Blank(prs)]
  /\ UNCHANGED <<rs, decided, prs, peer, inbox, wire, reconnects>>

Rest == routine' = Resting /\ UNCHANGED <<rs, decided, peer, inbox, reconnects>>

TransmitAll(msgs) == Len(wire) + Len(msgs) <= MaxWire /\ wire' = wire \o msgs

Transmit(msg) == TransmitAll(<<msg>>)

(* A part of the proposal that the peer's header asks for: all of ours     *)
(* less those marked, picked at random.                                    *)
MissingParts(r0, p0) ==
  IF r0.header # NoHeader /\ r0.header = p0.header /\ p0.parts # NoBits THEN r0.parts \ p0.parts ELSE {}

SendPart(i) ==
  /\ routine.at = "work"
  /\ i \in MissingParts(routine.rs, routine.prs)
  /\ Transmit([kind |-> "part", height |-> routine.rs.height, header |-> routine.rs.header, index |-> i])
  /\ prs' = SetHasBlockPart(prs, routine.prs.height, routine.prs.round, i)
  /\ Rest

(* The peer is at a former height that the block store has.                *)
Behind(r0, p0) ==
  /\ MissingParts(r0, p0) = {}
  /\ Len(decided) > 0 /\ 0 < p0.height /\ p0.height < r0.height

InitParts ==
  /\ routine.at = "work" /\ Behind(routine.rs, routine.prs)
  /\ routine.prs.parts = NoBits
  /\ prs' = InitBlockParts(prs, decided[routine.prs.height])
  /\ Rest /\ UNCHANGED wire

(* gossip_data_for_catchup: any part that is not marked, of the block that *)
(* was decided, if the peer's header is that of it; the part is not marked.*)
SendCatchup(i) ==
  /\ routine.at = "work" /\ Behind(routine.rs, routine.prs)
  /\ routine.prs.parts # NoBits /\ i \in Parts \ routine.prs.parts
  /\ decided[routine.prs.height] = routine.prs.header
  /\ Transmit([kind |-> "part", height |-> routine.prs.height, header |-> routine.prs.header, index |-> i])
  /\ Rest /\ UNCHANGED prs

PolRound(header) == header[2] - 1

(* The proposal, and the prevotes that it claims; the peer must receive    *)
(* the proposal first.                                                     *)
ProposalMessages(r0) ==
  <<[kind |-> "proposal", height |-> r0.height, round |-> r0.round, header |-> r0.header]>>
  \o IF PolRound(r0.header) < 0 THEN <<>>
     ELSE <<[kind |-> "pol", height |-> r0.height, pol_round |-> PolRound(r0.header)]>>

SendProposal ==
  LET r0 == routine.rs p0 == routine.prs
  IN /\ routine.at = "work"
     /\ MissingParts(r0, p0) = {} /\ ~Behind(r0, p0)
     /\ r0.height = p0.height /\ r0.round = p0.round
     /\ r0.proposal /\ ~p0.proposal
     /\ TransmitAll(ProposalMessages(r0))
     /\ prs' = SetHasProposal(prs, [height |-> r0.height, round |-> r0.round, header |-> r0.header,
                                    pol_round |-> PolRound(r0.header)])
     /\ Rest

(* Another height or round, a header that is not the block's, or nothing   *)
(* to do: the routine sleeps.                                              *)
Sleep ==
  LET r0 == routine.rs p0 == routine.prs
  IN /\ routine.at = "work" /\ MissingParts(r0, p0) = {}
     /\ \/ Behind(r0, p0) /\ p0.parts # NoBits /\ (p0.parts = Parts \/ decided[p0.height] # p0.header)
        \/ /\ ~Behind(r0, p0)
           /\ r0.height # p0.height \/ r0.round # p0.round \/ ~r0.proposal \/ p0.proposal
     /\ Rest /\ UNCHANGED <<prs, wire>>

Work == InitParts \/ SendProposal \/ Sleep \/ \E i \in Parts : SendPart(i) \/ SendCatchup(i)

Next ==
  \/ Propose \/ NewRound \/ NewHeight \/ \E i \in Parts : AddPart(i)
  \/ PeerNewRound \/ PeerLearnsCommit \/ PeerNewHeight
  \/ Arrives
  \/ Receive \/ Reconnect
  \/ Snapshot \/ Work

(* The strand of the peer runs the routine again and again, pick_random    *)
(* takes every part in the end, the network delivers what it took and the  *)
(* peer goes on when it can.                                               *)
Fairness ==
  /\ WF_routine(Snapshot \/ Work)
  /\ \A i \in Parts : SF_<<routine, wire>>(SendPart(i) \/ SendCatchup(i))
  /\ WF_inbox(Receive)
  /\ WF_wire(Arrives)
  /\ WF_peer(PeerLearnsCommit) /\ WF_peer(PeerNewHeight)

DataSpec == Init /\ [][Next]_vars /\ Fairness

-----------------------------------------------------------------------------

(* A peer at a height that we have a block of gets the block, part by      *)
(* part, and goes on: whatever headers, rounds and reconnections came      *)
(* before (the catch-up branch of gossip_data_routine).                    *)
CatchesUp ==
  \A h \in 1..MaxHeight - 1 : (rs.height > h /\ peer.height = h) ~> peer.height > h

Wants(i) ==
  /\ rs.height = peer.height /\ rs.round = peer.round
  /\ rs.proposal /\ i \in rs.parts /\ i \notin peer.parts

(* A peer in our height and round gets the proposal and each of the parts  *)
(* that we have, or one of the two goes on.                                *)
PartsArrive == \A i \in Parts : Wants(i) ~> ~Wants(i)
==============================================================================
