---------------------------- MODULE ValidatorRules ----------------------------
(***************************************************************************)
(* What one validator promises the others at one height, whichever of its  *)
(* handlers runs: the rules for voting, locking and deciding that keep two *)
(* validators from committing different blocks.                            *)
(*                                                                         *)
(* A validator is the votes it has signed, its lock and its decision.  The *)
(* rules relate it before (w) and after (z) a handler, given the polkas    *)
(* and the commits, pairs of a round and a block id, that it has seen.     *)
(***************************************************************************)
EXTENDS Integers

CONSTANTS Rounds, BlockIds, Nil, None

ASSUME RulesAssumption ==
  /\ Rounds \subseteq Nat
  /\ Nil \in BlockIds /\ None \notin BlockIds

Ids == BlockIds \cup {None}

Vals == [prevote: [Rounds -> Ids], precommit: [Rounds -> Ids],
         locked_round: Rounds \cup {-1}, locked_block: Ids, decided: Ids]

NewVal == [prevote |-> [r \in Rounds |-> None], precommit |-> [r \in Rounds |-> None],
           locked_round |-> -1, locked_block |-> None, decided |-> None]

(* Nothing is signed for a round after r. *)
NoVoteAfter(w, r) ==
  \A q \in Rounds : q > r => w.prevote[q] = None /\ w.precommit[q] = None

(* A polka after the locked round is for something else than the lock. *)
Superseded(w, polkas) ==
  \E r \in Rounds, b \in BlockIds :
     <<r, b>> \in polkas /\ r > w.locked_round /\ b # w.locked_block

(* A commit was seen before round q.  enter_commit goes back to the round  *)
(* of the commit, where the timeouts of later rounds still find the node.  *)
Returned(q, commits) ==
  \E p \in Rounds, c \in BlockIds \ {Nil} : p < q /\ <<p, c>> \in commits

(* A prevote is signed once, in order, and keeps to the lock. *)
PrevoteRule(w, z, polkas) ==
  \A r \in Rounds : z.prevote[r] # w.prevote[r] =>
     /\ w.decided = None
     /\ w.prevote[r] = None /\ w.precommit[r] = None /\ NoVoteAfter(w, r)
     /\ w.locked_block \in {None, z.prevote[r]} \/ Superseded(w, polkas)

(* A precommit is signed once and in order; one for a block has a polka    *)
(* and leaves the validator locked on the block.  The polka is of the      *)
(* round signed for, or of a later one that was left for a commit.         *)
PrecommitRule(w, z, polkas, commits) ==
  \A r \in Rounds : z.precommit[r] # w.precommit[r] =>
     /\ w.decided = None
     /\ w.precommit[r] = None /\ NoVoteAfter(w, r)
     /\ \A q \in Rounds : q > r => z.prevote[q] = None
     /\ z.precommit[r] # Nil =>
          \E q \in Rounds :
             /\ q = r \/ (q > r /\ Returned(q, commits))
             /\ <<q, z.precommit[r]>> \in polkas
             /\ \/ z.locked_block = z.precommit[r] /\ z.locked_round = q
                \/ z.decided # None

(* Variant: a polka of any round gives up the lock. *)
LockRuleAnyPolka(w, z, polkas, commits) ==
  \/ w.locked_block = None
  \/ z.locked_block = w.locked_block /\ z.locked_round >= w.locked_round
  \/ polkas # {}
  \/ z.decided # None

(* A lock is given up only for a later polka, or for one after a commit.   *)
LockRule(w, z, polkas, commits) ==
  \/ w.locked_block = None
  \/ z.locked_block = w.locked_block /\ z.locked_round >= w.locked_round
  \/ Superseded(w, polkas)
  \/ z.decided # None
  \/ \E q \in Rounds, b \in BlockIds :
        /\ <<q, b>> \in polkas /\ Returned(q, commits)
        /\ b # w.locked_block \/ (z.locked_block = b /\ z.locked_round = q)

(* A decision is for a block, has a commit, and is final. *)
DecideRule(w, z, commits) ==
  z.decided # w.decided =>
     /\ w.decided = None /\ z.decided # Nil
     /\ \E r \in Rounds : <<r, z.decided>> \in commits

Promise(w, z, polkas, commits) ==
  /\ z \in Vals
  /\ PrevoteRule(w, z, polkas)
  /\ PrecommitRule(w, z, polkas, commits)
  /\ LockRule(w, z, polkas, commits)
  /\ DecideRule(w, z, commits)
===============================================================================
