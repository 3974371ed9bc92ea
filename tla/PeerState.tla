------------------------------ MODULE PeerState ------------------------------
(***************************************************************************)
(* peer_state (consensus/peer_state.h): what consensus_reactor knows of    *)
(* one peer, a peer_round_state.  A bit_array is the set of its true       *)
(* indices, or NoBits for a null pointer.  catchup_commit may be the same  *)
(* object as precommits; alias says so.  Steps are numbers, 1 for          *)
(* NewHeight to 8 for Commit.                                              *)
(***************************************************************************)
EXTENDS Integers, FiniteSets

CONSTANTS NoBits, NoHeader

NewHeightStep == 1
ProposeStep == 3
PrevoteWaitStep == 5
PrecommitWaitStep == 7

(* new_peer_state *)
NewPeerState ==
  [height |-> 0, round |-> -1, step |-> 0,
   proposal |-> FALSE, header |-> NoHeader, parts |-> NoBits, pol_round |-> -1, pol |-> NoBits,
   prevotes |-> NoBits, precommits |-> NoBits, last_commit_round |-> -1, last_commit |-> NoBits,
   catchup_commit_round |-> -1, catchup_commit |-> NoBits, alias |-> FALSE]

(* The checks of apply_new_round_step_message: duplicates and decreased    *)
(* values are ignored.                                                     *)
Advances(prs, msg) ==
  \/ msg.height > prs.height
  \/ msg.height = prs.height /\ msg.round > prs.round
  \/ msg.height = prs.height /\ msg.round = prs.round /\ msg.step > prs.step

(* Variant: the votes of the round before are taken for those of the new   *)
(* one.                                                                    *)
ApplyNewRoundStepKeepsVotes(prs, msg) ==
  IF ~Advances(prs, msg) THEN prs
  ELSE [prs EXCEPT !.height = msg.height, !.round = msg.round, !.step = msg.step]

(* apply_new_round_step_message.  When the height is new, precommits is    *)
(* already null where last_commit is taken from it.                        *)
ApplyNewRoundStep(prs, msg) ==
  LET new_height == prs.height # msg.height
      new_round == new_height \/ prs.round # msg.round
      caught_up == ~new_height /\ new_round /\ msg.round = prs.catchup_commit_round
      p1 == [prs EXCEPT !.height = msg.height, !.round = msg.round, !.step = msg.step]
      p2 == IF ~new_round THEN p1
            ELSE [p1 EXCEPT !.proposal = FALSE, !.header = NoHeader, !.parts = NoBits, !.pol_round = -1,
                            !.pol = NoBits, !.prevotes = NoBits,
                            !.precommits = IF caught_up THEN prs.catchup_commit ELSE NoBits,
                            !.alias = caught_up /\ prs.catchup_commit # NoBits]
  IN IF ~Advances(prs, msg) THEN prs
     ELSE IF ~new_height THEN p2
     ELSE [p2 EXCEPT !.last_commit_round = msg.last_commit_round, !.last_commit = NoBits,
                     !.catchup_commit_round = -1, !.catchup_commit = NoBits, !.alias = FALSE]

(* Variant: parts that are known already stay.                             *)
ApplyNewValidBlockOnce(prs, msg) ==
  IF prs.height # msg.height \/ (prs.round # msg.round /\ ~msg.is_commit) \/ prs.parts # NoBits THEN prs
  ELSE [prs EXCEPT !.header = msg.header, !.parts = msg.parts]

(* apply_new_valid_block_message *)
ApplyNewValidBlock(prs, msg) ==
  IF prs.height # msg.height \/ (prs.round # msg.round /\ ~msg.is_commit) THEN prs
  ELSE [prs EXCEPT !.header = msg.header, !.parts = msg.parts]

(* get_vote_bit_array, by the name of the field it returns.                *)
VoteBitArray(prs, h, r, type) ==
  IF prs.height = h
  THEN IF prs.round = r THEN (IF type = "prevote" THEN "prevotes" ELSE "precommits")
       ELSE IF prs.catchup_commit_round = r THEN (IF type = "precommit" THEN "catchup_commit" ELSE "none")
       ELSE IF prs.pol_round = r THEN (IF type = "prevote" THEN "pol" ELSE "none")
       ELSE "none"
  ELSE IF prs.height = h + 1 /\ prs.last_commit_round = r /\ type = "precommit" THEN "last_commit"
  ELSE "none"

HasBits(prs, field) == field # "none" /\ prs[field] # NoBits

SetBit(prs, field, i) ==
  IF ~HasBits(prs, field) THEN prs
  ELSE IF prs.alias /\ field \in {"precommits", "catchup_commit"}
  THEN [prs EXCEPT !.precommits = @ \cup {i}, !.catchup_commit = @ \cup {i}]
  ELSE [prs EXCEPT ![field] = @ \cup {i}]

(* set_has_vote, and apply_has_vote_message at the height of the peer.     *)
SetHasVote(prs, v) == SetBit(prs, VoteBitArray(prs, v.height, v.round, v.type), v.index)

ApplyHasVote(prs, v) == IF prs.height = v.height THEN SetHasVote(prs, v) ELSE prs

OrEmpty(bits) == IF bits = NoBits THEN {} ELSE bits

(* ensure_vote_bit_arrays *)
EnsureVoteBitArrays(prs, h) ==
  IF prs.height = h
  THEN [prs EXCEPT !.prevotes = OrEmpty(@), !.precommits = OrEmpty(@),
                   !.catchup_commit = OrEmpty(@), !.pol = OrEmpty(@)]
  ELSE IF prs.height = h + 1 THEN [prs EXCEPT !.last_commit = OrEmpty(@)]
  ELSE prs

(* ensure_catchup_commit_round *)
EnsureCatchupCommitRound(prs, h, r) ==
  IF prs.height # h \/ prs.catchup_commit_round = r THEN prs
  ELSE IF prs.round = r
  THEN [prs EXCEPT !.catchup_commit_round = r, !.catchup_commit = prs.precommits, !.alias = prs.precommits # NoBits]
  ELSE [prs EXCEPT !.catchup_commit_round = r, !.catchup_commit = {}, !.alias = FALSE]

(* set_has_proposal *)
SetHasProposal(prs, msg) ==
  IF prs.height # msg.height \/ prs.round # msg.round \/ prs.proposal THEN prs
  ELSE IF prs.parts # NoBits THEN [prs EXCEPT !.proposal = TRUE]
  ELSE [prs EXCEPT !.proposal = TRUE, !.header = msg.header, !.parts = {}, !.pol_round = msg.pol_round, !.pol = NoBits]

(* set_has_proposal_block_part *)
SetHasBlockPart(prs, h, r, i) ==
  IF prs.height # h \/ prs.round # r \/ prs.parts = NoBits THEN prs
  ELSE [prs EXCEPT !.parts = @ \cup {i}]

(* init_proposal_block_parts *)
InitBlockParts(prs, header) ==
  IF prs.parts # NoBits THEN prs ELSE [prs EXCEPT !.header = header, !.parts = {}]

(* get_round_state copies the bit arrays with bit_array::copy, which keeps *)
(* their size only.                                                        *)
Copied(bits) == IF bits = NoBits THEN NoBits ELSE {}
==============================================================================
