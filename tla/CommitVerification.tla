-------------------------- MODULE CommitVerification --------------------------
(***************************************************************************)
(* verify_commit_light (consensus/types/validation.cpp), with which a node *)
(* that syncs decides whether a block was committed.  The loop of          *)
(* verify_commit_single goes over the signatures in the order of the       *)
(* validator set and ends as soon as enough power is tallied; each turn of *)
(* it is a step.                                                           *)
(*                                                                         *)
(*   flags    the commit: the flag of every validator's signature          *)
(*   signers  the validators whose signature in it verifies as a precommit *)
(*            for the block id the commit states                           *)
(*   basic    the commit is for the height and the block asked about, and  *)
(*            has a signature entry for every validator                    *)
(*   i, tallied_voting_power   of the loop                                 *)
(*   verdict  "none" while there is none                                   *)
(***************************************************************************)
EXTENDS VotingPower

CONSTANTS N, ValidatorAt         \* vals->validators: their number, and the order

(* The validator set lists every validator once.                           *)
ASSUME ValidatorSetAssumption ==
  /\ N \in Nat
  /\ ValidatorAt \in [1..N -> Validators]
  /\ \A v \in Validators : \E j \in 1..N : ValidatorAt[j] = v
  /\ \A j, k \in 1..N : ValidatorAt[j] = ValidatorAt[k] => j = k

VARIABLES flags, signers, basic, i, tallied_voting_power, verdict

verifyVars == <<flags, signers, basic, i, tallied_voting_power, verdict>>

VerifyInit ==
  /\ flags \in [Validators -> {"commit", "nil", "absent"}]
  /\ signers \in SUBSET Validators
  /\ basic \in BOOLEAN
  /\ i = 1 /\ tallied_voting_power = 0 /\ verdict = "none"

VotingPowerNeeded == (TotalVotingPower * 2) \div 3

(* Variant: two thirds are enough.                                         *)
EnoughAt(power) == power >= VotingPowerNeeded

Enough(power) == power > VotingPowerNeeded

(* verify_basic_vals_and_commit                                            *)
VerifyBasicValsAndCommit ==
  /\ verdict = "none" /\ ~basic
  /\ verdict' = "refused"
  /\ UNCHANGED <<flags, signers, basic, i, tallied_voting_power>>

(* Variant: a signature that is not for the block is wrong.                *)
SkipSignatureNever ==
  /\ flags[ValidatorAt[i]] # "commit"
  /\ verdict' = "refused"
  /\ UNCHANGED <<i, tallied_voting_power>>

(* A signature that is not for the block is skipped.                       *)
SkipSignature ==
  /\ flags[ValidatorAt[i]] # "commit"
  /\ i' = i + 1
  /\ UNCHANGED <<tallied_voting_power, verdict>>

WrongSignature ==
  /\ flags[ValidatorAt[i]] = "commit" /\ ValidatorAt[i] \notin signers
  /\ verdict' = "refused"
  /\ UNCHANGED <<i, tallied_voting_power>>

TallySignature ==
  /\ flags[ValidatorAt[i]] = "commit" /\ ValidatorAt[i] \in signers
  /\ tallied_voting_power' = tallied_voting_power + PowerOf(ValidatorAt[i])
  /\ i' = i + 1
  /\ verdict' = IF Enough(tallied_voting_power') THEN "accepted" ELSE "none"

(* One turn of the loop of verify_commit_single.                           *)
VerifySignature ==
  /\ verdict = "none" /\ basic /\ i <= N
  /\ SkipSignature \/ WrongSignature \/ TallySignature
  /\ UNCHANGED <<flags, signers, basic>>

(* The end of the loop.                                                    *)
NotEnoughVotes ==
  /\ verdict = "none" /\ basic /\ i > N
  /\ verdict' = IF Enough(tallied_voting_power) THEN "accepted" ELSE "refused"
  /\ UNCHANGED <<flags, signers, basic, i, tallied_voting_power>>

VerifyNext == VerifyBasicValsAndCommit \/ VerifySignature \/ NotEnoughVotes

VerifySpec == VerifyInit /\ [][VerifyNext]_verifyVars

-----------------------------------------------------------------------------
ForBlock == {v \in Validators : flags[v] = "commit"}

(* The validators whose signatures the loop has tallied so far.            *)
Tallied == {v \in ForBlock : \E j \in 1..N : j < i /\ ValidatorAt[j] = v}

(* The tally is the power of the signatures seen so far, all of which      *)
(* verified; the inductive invariant behind the two properties.            *)
TallyInv ==
  /\ flags \in [Validators -> {"commit", "nil", "absent"}]
  /\ signers \in SUBSET Validators /\ basic \in BOOLEAN
  /\ i \in 1..(N + 1)
  /\ tallied_voting_power = Power[Tallied]
  /\ Tallied \subseteq signers
  /\ verdict = "accepted" => basic /\ Enough(tallied_voting_power)
  /\ verdict = "refused" => \/ ~basic
                            \/ ~(ForBlock \subseteq signers)
                            \/ ~Enough(Power[ForBlock])

(* A commit that verify_commit_light accepts was signed by a quorum, though*)
(* it stops looking at signatures before the end.                          *)
AcceptedIsSigned == verdict = "accepted" => basic /\ HasQuorum(ForBlock \cap signers)

(* A commit for the block asked about, signed by a quorum and with no bad  *)
(* signature among those for the block, is never refused: what make_commit *)
(* makes of a majority (CommitBacked) is accepted everywhere.              *)
SignedIsAccepted ==
  verdict = "refused" => ~(basic /\ ForBlock \subseteq signers /\ HasQuorum(ForBlock))
==============================================================================
