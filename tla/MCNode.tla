------------------------------- MODULE MCNode --------------------------------
(***************************************************************************)
(* Three instances of ConsensusNode; a behaviour is one of the instance    *)
(* that "focus" names.  "split": two rounds of a height, in which y votes  *)
(* for either block or nil and s and y together make the quorum.  "lead":  *)
(* y is a quorum by itself, votes for A in round 0 and for B or nil in     *)
(* round 1, so that polkas follow one another and s locks, unlocks and     *)
(* locks again.  "heights": one round each of two heights, with blocks of  *)
(* two parts, s and y proposing in turn and a peer that claims majorities. *)
(***************************************************************************)
EXTENDS Integers, FiniteSets, Sequences

CONSTANTS s, y, A, B, Nil, None, any, p

VARIABLES node, focus

vars == <<node, focus>>

Both == {s, y}
ThreePower == [S \in SUBSET Both |-> Cardinality(S) + (IF y \in S THEN 1 ELSE 0)]
LeaderPower == [S \in SUBSET Both |-> Cardinality(S) + (IF y \in S THEN 2 ELSE 0)]
AllBallots(rounds) == [v \in Both |-> [r \in rounds |-> {A, B, Nil}]]
OneBallots == [v \in Both |-> [r \in {0} |-> {A, Nil}]]
ChangingBallots == [v \in Both |-> [r \in 0..1 |-> IF r = 0 THEN {A} ELSE {B, Nil}]]

Split == INSTANCE ConsensusNode WITH n <- node,
  Power <- ThreePower, Ballots <- AllBallots(0..1), Builds <- {"checked", "optimised"},
  Validators <- Both, Self <- s, Proposers <- <<y>>, Faulty <- {}, Peers <- {},
  AnyPeer <- any, NodeIds <- {any}, Blocks <- {A, B}, BlockIds <- {A, B, Nil},
  ValidBlocks <- {A, B}, AppliedBlocks <- {A, B}, OwnBlock <- A, NumParts <- 1,
  SkipTimeoutCommit <- FALSE, MaxHeight <- 1, MaxRound <- 1

Lead == INSTANCE ConsensusNode WITH n <- node,
  Power <- LeaderPower, Ballots <- ChangingBallots, Builds <- {"checked"},
  Validators <- Both, Self <- s, Proposers <- <<y>>, Faulty <- {}, Peers <- {},
  AnyPeer <- any, NodeIds <- {any}, Blocks <- {A, B}, BlockIds <- {A, B, Nil},
  ValidBlocks <- {A, B}, AppliedBlocks <- {A, B}, OwnBlock <- A, NumParts <- 1,
  SkipTimeoutCommit <- FALSE, MaxHeight <- 1, MaxRound <- 1

Heights == INSTANCE ConsensusNode WITH n <- node,
  Power <- ThreePower, Ballots <- OneBallots, Builds <- {"checked"},
  Validators <- Both, Self <- s, Proposers <- <<s, y>>, Faulty <- {}, Peers <- {p},
  AnyPeer <- any, NodeIds <- {any}, Blocks <- {A, B}, BlockIds <- {A, B, Nil},
  ValidBlocks <- {A, B}, AppliedBlocks <- {A, B}, OwnBlock <- A, NumParts <- 2,
  SkipTimeoutCommit <- TRUE, MaxHeight <- 2, MaxRound <- 0

ASSUME ConstantsAssumption ==
  Split!NodeConstants /\ Lead!NodeConstants /\ Heights!NodeConstants

Init ==
  \/ focus = "split" /\ Split!Init
  \/ focus = "lead" /\ Lead!Init
  \/ focus = "heights" /\ Heights!Init

Next ==
  /\ \/ focus = "split" /\ Split!Next
     \/ focus = "lead" /\ Lead!Next
     \/ focus = "heights" /\ Heights!Next
  /\ UNCHANGED focus

Spec == Init /\ [][Next]_vars

(* In every node proposal_block is the block of proposal_block_parts,      *)
(* complete: finalize_commit finds no other header than the committed one. *)
BlockMatchesParts ==
  CASE focus = "split" -> Split!BlockMatchesParts
    [] focus = "lead" -> Lead!BlockMatchesParts
    [] focus = "heights" -> Heights!BlockMatchesParts

(* In both nodes the majority of prevotes of locked_round is for           *)
(* locked_block, whatever was locked and unlocked before, and that of      *)
(* valid_round for valid_block, whichever of add_vote and                  *)
(* add_proposal_block_part set it.                                         *)
LocksHavePolkas ==
  /\ focus = "split" => Split!LockHasPolka /\ Split!ValidHasPolka /\ Split!TypeOK
  /\ focus = "lead" => Lead!LockHasPolka /\ Lead!ValidHasPolka

(* The precommits kept in last_commit make a commit of the block saved at  *)
(* the height before, also while late ones are added (update_to_state).    *)
LastCommitBacked == focus = "heights" => Heights!LastCommitBacked

(* A pending timer stands behind every wait, although tick() drops the     *)
(* timeouts it takes for old ones.                                         *)
TimerArmed == focus = "heights" => Heights!TimerArmed

(* With votes split between the blocks, every handler of consensus_state   *)
(* keeps the promise of ValidatorRules: votes once and in order, prevotes  *)
(* by the lock, precommits by a polka, decisions by a majority.            *)
SplitKeeps ==
  /\ focus = "split" => Split!V!Init
  /\ [][focus = "split" => [Split!V!Next]_(Split!V!vars)]_vars

(* The same when polkas for different blocks follow one another, so that a *)
(* lock yields to a polka of a later round and to no other; and over two   *)
(* heights with own proposals, blocks in parts and skip_timeout_commit.    *)
LeadAndHeightsKeep ==
  /\ focus = "lead" => Lead!V!Init
  /\ [][focus = "lead" => [Lead!V!Next]_(Lead!V!vars)]_vars
  /\ focus = "heights" => Heights!V!Init
  /\ [][focus = "heights" => [Heights!V!Next]_(Heights!V!vars)]_vars

(* "Once `add_vote` hits any +2/3 prevotes, we will go to prevote_wait"    *)
(* (enter_prevote): a prevote that is added in step Prevote and leaves two *)
(* thirds of any prevotes ends that step.                                  *)
PrevoteWaitFollows == [][focus = "lead" => Lead!WaitFollows]_vars
==============================================================================
