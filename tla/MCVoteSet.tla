------------------------------ MODULE MCVoteSet ------------------------------
(***************************************************************************)
(* Vote sets and the verification of commits, for TLC.  Where less than a  *)
(* third of the power is faulty, the correct validators can form a quorum; *)
(* where more is, two blocks can each get one.  So there are two vote      *)
(* sets, in which different validators are faulty.  Each behaviour         *)
(* explores one of them, or the verification of one commit.                *)
(***************************************************************************)
EXTENDS VoteSetSpec, CommitVerification, FiniteSets, FiniteSetsExt, TLC

CONSTANTS v1, v2, v3, v4, A, B

VARIABLES heavy_vs, heavy_cast, focus

PowerFrom(weight) == [S \in SUBSET Validators |-> MapThenSumSet(LAMBDA v : weight[v], S)]

(* Both v1 with v2 and v1 with v3 and v4 hold exactly a quorum.            *)
TightPower == PowerFrom([v \in Validators |-> CASE v = v1 -> 3 [] v = v2 -> 2 [] OTHER -> 1])

Heavy == INSTANCE VoteSetSpec WITH Faulty <- {v1}, vs <- heavy_vs, cast <- heavy_cast

heavyVars == <<heavy_vs, heavy_cast>>

Order == <<v1, v2, v3, v4>>

NoCommit ==
  /\ flags = [v \in Validators |-> "absent"] /\ signers = {} /\ basic = FALSE
  /\ i = 1 /\ tallied_voting_power = 0 /\ verdict = "none"

MCInit ==
  /\ Init /\ Heavy!Init
  /\ focus \in {"light", "heavy", "verify"}
  /\ IF focus = "verify" THEN VerifyInit ELSE NoCommit

(* The call has returned.                                                  *)
Returned == verdict # "none" /\ UNCHANGED verifyVars

MCNext ==
  \/ focus = "light" /\ Next /\ UNCHANGED <<heavyVars, verifyVars, focus>>
  \/ focus = "heavy" /\ Heavy!Next /\ UNCHANGED <<vars, verifyVars, focus>>
  \/ focus = "verify" /\ (VerifyNext \/ Returned) /\ UNCHANGED <<vars, heavyVars, focus>>

MCSpec == MCInit /\ [][MCNext]_<<vars, heavyVars, verifyVars, focus>>

-----------------------------------------------------------------------------
(* With v1 faulty, so that two blocks can each get a quorum: the first     *)
(* majority found stays the one, and the commit made of it carries the     *)
(* signatures of a quorum (add_vote, make_commit).                         *)
HeavyKeepsFirst ==
  /\ []Heavy!CommitBacked
  /\ [][heavy_vs.maj23 # None => heavy_vs'.maj23 = heavy_vs.maj23]_heavyVars
==============================================================================
