------------------------------ MODULE Tendermint ------------------------------
(***************************************************************************)
(* The validators of one height together.  A correct one keeps the promise *)
(* of ValidatorRules in every handler it runs; a faulty one may sign every *)
(* vote, so it is counted for every block in every round.  Votes may be    *)
(* delayed, lost and reordered: a validator acts on polkas and commits     *)
(* that exist, and need not act on any.                                    *)
(***************************************************************************)
EXTENDS VotingPower, ValidatorRules

CONSTANT Faulty

(* Less than a third of the voting power is faulty. *)
ASSUME FaultyAssumption ==
  /\ Faulty \subseteq Validators
  /\ 3 * Power[Faulty] < TotalVotingPower

VARIABLE vals

Correct == Validators \ Faulty

Prevoters(r, b) == {v \in Correct : vals[v].prevote[r] = b} \cup Faulty
Precommitters(r, b) == {v \in Correct : vals[v].precommit[r] = b} \cup Faulty

Polkas == {p \in Rounds \X BlockIds : HasQuorum(Prevoters(p[1], p[2]))}
Commits == {p \in Rounds \X BlockIds : HasQuorum(Precommitters(p[1], p[2]))}

Init == vals = [v \in Correct |-> NewVal]

Step(v) ==
  \E z \in Vals :
     /\ Promise(vals[v], z, Polkas, Commits)
     /\ vals' = [vals EXCEPT ![v] = z]

Next == \E v \in Correct : Step(v)

Spec == Init /\ [][Next]_vals

TypeOK == vals \in [Correct -> Vals]

(* No two correct validators commit different blocks at a height, however  *)
(* rounds, votes and unlocks interleave, as long as less than a third of   *)
(* the voting power is faulty.                                             *)
Agreement ==
  \A v, w \in Correct :
     vals[v].decided # None /\ vals[w].decided # None => vals[v].decided = vals[w].decided

(* A block with a commit in one round has no rival: no later round has a   *)
(* polka for anything else.                                                *)
CommitIsFinal ==
  \A r, q \in Rounds, b \in BlockIds \ {Nil}, c \in BlockIds :
     q > r /\ <<r, b>> \in Commits /\ <<q, c>> \in Polkas => c = b

(* The votes that may still come: v may be counted for b in round r now or *)
(* later.                                                                  *)
MayPrecommit(v, r, b) ==
  \/ vals[v].precommit[r] = b
  \/ vals[v].precommit[r] = None /\ NoVoteAfter(vals[v], r)

Choosable(r, b) == HasQuorum({v \in Correct : MayPrecommit(v, r, b)} \cup Faulty)

(* A later polka for something else than b. *)
Rival(r, b) ==
  \E q \in Rounds, c \in BlockIds : q > r /\ c # b /\ <<q, c>> \in Polkas

(* b has both its polka and its commit in some round.                      *)
Grounded(b) == \E q \in Rounds : <<q, b>> \in Polkas /\ <<q, b>> \in Commits

(* A lock that holds from round r on: it is of that round or a later one,  *)
(* or of a round after a commit of its block.                              *)
Bound(w, r, b) ==
  /\ w.locked_block = b
  /\ \/ w.locked_round >= r
     \/ \E p \in Rounds : p < w.locked_round /\ <<p, b>> \in Commits

(* What a precommit for a block obliges its validator to.                  *)
PrecommitInv ==
  \A v \in Correct, r \in Rounds, b \in BlockIds \ {Nil} : vals[v].precommit[r] = b =>
     /\ <<r, b>> \in Polkas \/ Grounded(b)
     /\ \/ vals[v].decided # None
        \/ Bound(vals[v], r, b)
        \/ Rival(r, b)
     /\ \A q \in Rounds : q > r /\ vals[v].prevote[q] \notin {None, b} => Rival(r, b)

(* While a commit of b in round r is possible, no later polka is for       *)
(* anything else.                                                          *)
ChoosableInv == \A r \in Rounds, b \in BlockIds \ {Nil} : Choosable(r, b) => ~Rival(r, b)

DecidedInv ==
  \A v \in Correct : vals[v].decided # None =>
     vals[v].decided # Nil /\ \E r \in Rounds : <<r, vals[v].decided>> \in Commits

(* The inductive invariant behind Agreement. *)
SafetyInv == PrecommitInv /\ ChoosableInv /\ DecidedInv
===============================================================================
