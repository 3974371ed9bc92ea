----------------------------- MODULE VotingPower -----------------------------
(***************************************************************************)
(* The voting power of a set of validators, and the two thresholds that    *)
(* every count of votes is compared with.                                  *)
(*                                                                         *)
(* Power is the measure the code builds up one validator at a time with    *)
(* sum += voting_power.  It is given for whole sets, with the two laws of  *)
(* a finite sum as an assumption, so that proofs can use it without        *)
(* induction on the size of the set.                                       *)
(***************************************************************************)
EXTENDS Integers, TLAPS

CONSTANTS Validators, Power

(* Power is the finite sum of positive individual voting powers.           *)
ASSUME PowerAssumption ==
  /\ Power \in [SUBSET Validators -> Nat]
  /\ Power[{}] = 0
  /\ \A v \in Validators : Power[{v}] > 0
  /\ \A S, T \in SUBSET Validators :
        Power[S \cup T] + Power[S \cap T] = Power[S] + Power[T]

(* The voting_power of one validator.                                      *)
PowerOf(v) == Power[{v}]

TotalVotingPower == Power[Validators]

(* The sum at which a block has its majority.                              *)
QuorumPower == (TotalVotingPower * 2) \div 3 + 1

HasQuorum(S) == Power[S] >= QuorumPower

-----------------------------------------------------------------------------
(***************************************************************************)
(* What the laws of the measure Power give: monotonicity, adding one       *)
(* validator, and that two quorums overlap.                                *)
(***************************************************************************)
(* The thresholds are natural numbers, and a set with the quorum has more  *)
(* than two thirds of the total power, exactly.                            *)
LEMMA QuorumIsTwoThirds ==
  /\ TotalVotingPower \in Nat
  /\ QuorumPower \in Nat
  /\ QuorumPower > 0
  /\ \A x \in Int : x >= QuorumPower <=> 3 * x > 2 * TotalVotingPower
  /\ \A x \in Int : x > (TotalVotingPower * 2) \div 3 <=> x >= QuorumPower
<1>1. TotalVotingPower \in Nat
  BY PowerAssumption DEF TotalVotingPower
<1> QED BY <1>1 DEF QuorumPower

(* A larger set has no less power.                                         *)
LEMMA PowerMonotone ==
  ASSUME NEW S \in SUBSET Validators, NEW T \in SUBSET Validators, S \subseteq T
  PROVE  Power[S] <= Power[T]
<1>1. S \cup (T \ S) = T /\ S \cap (T \ S) = {}
  OBVIOUS
<1>2. T \ S \in SUBSET Validators
  OBVIOUS
<1>3. Power[S \cup (T \ S)] + Power[S \cap (T \ S)] = Power[S] + Power[T \ S]
  BY <1>2, PowerAssumption
<1>4. Power[S] \in Nat /\ Power[T] \in Nat /\ Power[T \ S] \in Nat /\ Power[{}] = 0
  BY <1>2, PowerAssumption
<1>5. Power[S \cup (T \ S)] = Power[T] /\ Power[S \cap (T \ S)] = Power[{}]
  BY <1>1, Zenon
<1> QED BY <1>3, <1>4, <1>5

(* sum += voting_power keeps a sum equal to the power of the set counted.  *)
LEMMA PowerAdd ==
  ASSUME NEW S \in SUBSET Validators, NEW v \in Validators, v \notin S
  PROVE  Power[S \cup {v}] = Power[S] + PowerOf(v)
<1>1. S \cap {v} = {} /\ {v} \in SUBSET Validators /\ S \cup {v} \in SUBSET Validators
  OBVIOUS
<1>2. Power[S \cup {v}] + Power[S \cap {v}] = Power[S] + Power[{v}]
  BY <1>1, PowerAssumption
<1>3. Power[S \cup {v}] \in Nat /\ Power[S] \in Nat /\ Power[{v}] \in Nat /\ Power[{}] = 0
  BY <1>1, PowerAssumption
<1>4. Power[S \cap {v}] = Power[{}]
  BY <1>1, Zenon
<1> QED BY <1>2, <1>3, <1>4 DEF PowerOf

(* A superset of a quorum is a quorum.                                     *)
LEMMA QuorumMonotone ==
  ASSUME NEW S \in SUBSET Validators, NEW T \in SUBSET Validators,
         S \subseteq T, HasQuorum(S)
  PROVE  HasQuorum(T)
<1>1. Power[S] <= Power[T]
  BY PowerMonotone
<1>2. Power[S] \in Nat /\ Power[T] \in Nat /\ QuorumPower \in Nat
  BY PowerAssumption, QuorumIsTwoThirds
<1> QED BY <1>1, <1>2 DEF HasQuorum

(* Two quorums share more than a third of the power.                       *)
LEMMA QuorumsOverlap ==
  ASSUME NEW S \in SUBSET Validators, NEW T \in SUBSET Validators,
         HasQuorum(S), HasQuorum(T)
  PROVE  3 * Power[S \cap T] > TotalVotingPower
<1>1. /\ S \cup T \in SUBSET Validators
      /\ S \cap T \in SUBSET Validators
      /\ Validators \in SUBSET Validators
  OBVIOUS
<1>2. /\ Power[S \cup T] \in Nat /\ Power[S \cap T] \in Nat
      /\ Power[S] \in Nat /\ Power[T] \in Nat
  BY <1>1, PowerAssumption
<1>3. Power[S \cup T] + Power[S \cap T] = Power[S] + Power[T]
  BY PowerAssumption
<1>4. Power[S \cup T] <= TotalVotingPower
  BY <1>1, PowerMonotone DEF TotalVotingPower
<1>5. 3 * Power[S] > 2 * TotalVotingPower /\ 3 * Power[T] > 2 * TotalVotingPower
  BY <1>2, QuorumIsTwoThirds DEF HasQuorum
<1> QED BY <1>2, <1>3, <1>4, <1>5, QuorumIsTwoThirds

(* Two quorums are never disjoint.                                         *)
LEMMA QuorumsMeet ==
  ASSUME NEW S \in SUBSET Validators, NEW T \in SUBSET Validators,
         HasQuorum(S), HasQuorum(T)
  PROVE  S \cap T # {}
<1>1. 3 * Power[S \cap T] > TotalVotingPower
  BY QuorumsOverlap
<1>2. Power[{}] = 0 /\ TotalVotingPower \in Nat
  BY PowerAssumption, QuorumIsTwoThirds
<1>3. S \cap T \in SUBSET Validators /\ Power[S \cap T] \in Nat
  BY PowerAssumption
<1>4. SUFFICES ASSUME S \cap T = {} PROVE FALSE
  OBVIOUS
<1>5. Power[S \cap T] = Power[{}]
  BY <1>4, Zenon
<1> QED BY <1>1, <1>2, <1>3, <1>5
==============================================================================
