--------------------------- MODULE TendermintProofs ---------------------------
(***************************************************************************)
(* The proof of Agreement, for any validators and powers, any number of    *)
(* rounds and any blocks.  The heart of it is ChoosableInv: as long as a   *)
(* commit of b in round r can still come about, a quorum of validators is  *)
(* bound by locks on b, so no later round has a polka for anything else.   *)
(***************************************************************************)
EXTENDS Tendermint

(* Two quorums that both count every faulty validator share a correct one. *)
LEMMA QuorumsShareCorrect ==
  ASSUME NEW S \in SUBSET Correct, NEW T \in SUBSET Correct,
         HasQuorum(S \cup Faulty), HasQuorum(T \cup Faulty)
  PROVE  \E v \in Correct : v \in S /\ v \in T
<1> SUFFICES ASSUME S \cap T = {} PROVE FALSE
  OBVIOUS
<1>1. /\ S \cup Faulty \in SUBSET Validators
      /\ T \cup Faulty \in SUBSET Validators
      /\ Faulty \in SUBSET Validators
  BY FaultyAssumption DEF Correct
<1>2. (S \cup Faulty) \cap (T \cup Faulty) = Faulty
  OBVIOUS
<1>3. 3 * Power[(S \cup Faulty) \cap (T \cup Faulty)] > TotalVotingPower
  BY <1>1, QuorumsOverlap
<1>4. Power[(S \cup Faulty) \cap (T \cup Faulty)] = Power[Faulty]
  BY <1>2, Zenon
<1>5. Power[Faulty] \in Nat /\ TotalVotingPower \in Nat
  BY <1>1, PowerAssumption, QuorumIsTwoThirds
<1> QED BY <1>3, <1>4, <1>5, FaultyAssumption

(* Polkas and Commits, one pair at a time. *)
LEMMA PolkaDef ==
  ASSUME NEW r \in Rounds, NEW b \in BlockIds
  PROVE  /\ <<r, b>> \in Polkas <=> HasQuorum(Prevoters(r, b))
         /\ <<r, b>> \in Commits <=> HasQuorum(Precommitters(r, b))
BY DEF Polkas, Commits

(* vals is well typed. *)
THEOREM TypeCorrect == Spec => []TypeOK
<1>1. Init => TypeOK
  BY RulesAssumption DEF Init, TypeOK, NewVal, Vals, Ids
<1>2. TypeOK /\ [Next]_vals => TypeOK'
  BY DEF TypeOK, Next, Step, Promise
<1> QED BY <1>1, <1>2, PTL DEF Spec

LEMMA RoundsAreIntegers ==
  ASSUME NEW w \in Vals
  PROVE  Rounds \subseteq Int /\ w.locked_round \in Int
<1>1. w.locked_round \in Rounds \/ w.locked_round = -1
  BY DEF Vals
<1>2. Rounds \subseteq Int
  BY RulesAssumption
<1>3. -1 \in Int
  OBVIOUS
<1> QED BY <1>1, <1>2, <1>3, Zenon

(* What is signed stays signed, and a decision stays. *)
LEMMA VotesKept ==
  ASSUME TypeOK, NEW v \in Correct, NEW z \in Vals,
         Promise(vals[v], z, Polkas, Commits), vals' = [vals EXCEPT ![v] = z],
         NEW w \in Correct
  PROVE  /\ \A r \in Rounds : vals[w].prevote[r] # None => vals'[w].prevote[r] = vals[w].prevote[r]
         /\ \A r \in Rounds : vals[w].precommit[r] # None => vals'[w].precommit[r] = vals[w].precommit[r]
         /\ vals[w].decided # None => vals'[w].decided = vals[w].decided
<1>1. CASE w = v
  <2>1. vals'[w] = z
    BY <1>1 DEF TypeOK
  <2> QED BY <1>1, <2>1 DEF Promise, PrevoteRule, PrecommitRule, DecideRule
<1>2. CASE w # v
  BY <1>2 DEF TypeOK
<1> QED BY <1>1, <1>2

(* Polkas and commits are never lost. *)
LEMMA MajoritiesGrow ==
  ASSUME TypeOK, NEW v \in Correct, NEW z \in Vals,
         Promise(vals[v], z, Polkas, Commits), vals' = [vals EXCEPT ![v] = z]
  PROVE  Polkas \subseteq Polkas' /\ Commits \subseteq Commits'
<1>1. ASSUME NEW r \in Rounds, NEW b \in BlockIds
      PROVE  /\ Prevoters(r, b) \subseteq Prevoters(r, b)'
             /\ Precommitters(r, b) \subseteq Precommitters(r, b)'
  BY <1>1, VotesKept, RulesAssumption DEF Prevoters, Precommitters
<1>2. ASSUME NEW r \in Rounds, NEW b \in BlockIds
      PROVE  /\ Prevoters(r, b) \in SUBSET Validators /\ Prevoters(r, b)' \in SUBSET Validators
             /\ Precommitters(r, b) \in SUBSET Validators /\ Precommitters(r, b)' \in SUBSET Validators
  BY FaultyAssumption DEF Prevoters, Precommitters, Correct
<1>3. ASSUME NEW r \in Rounds, NEW b \in BlockIds
      PROVE  /\ HasQuorum(Prevoters(r, b)) => HasQuorum(Prevoters(r, b)')
             /\ HasQuorum(Precommitters(r, b)) => HasQuorum(Precommitters(r, b)')
  BY <1>1, <1>2, <1>3, QuorumMonotone
<1> QED BY <1>3 DEF Polkas, Commits, HasQuorum

(* What may still be chosen after a step could be chosen before it. *)
LEMMA ChoosableShrinks ==
  ASSUME TypeOK, NEW v \in Correct, NEW z \in Vals,
         Promise(vals[v], z, Polkas, Commits), vals' = [vals EXCEPT ![v] = z],
         NEW r \in Rounds, NEW b \in BlockIds, Choosable(r, b)'
  PROVE  Choosable(r, b)
<1> DEFINE May == {w \in Correct : MayPrecommit(w, r, b)}
           MayNext == {w \in Correct : MayPrecommit(w, r, b)'}
<1>1. ASSUME NEW w \in Correct, MayPrecommit(w, r, b)' PROVE MayPrecommit(w, r, b)
  <2>1. CASE w # v
    <3>1. vals'[w] = vals[w]
      BY <2>1 DEF TypeOK
    <3> QED BY <1>1, <3>1 DEF MayPrecommit, NoVoteAfter
  <2>2. CASE w = v
    <3>1. vals'[w] = z
      BY <2>2 DEF TypeOK
    <3>2. CASE z.precommit[r] = b
      BY <2>2, <3>2 DEF Promise, PrecommitRule, MayPrecommit
    <3>3. CASE z.precommit[r] = None /\ NoVoteAfter(z, r)
      <4>1. \A q \in Rounds : /\ vals[w].prevote[q] # None => z.prevote[q] = vals[w].prevote[q]
                              /\ vals[w].precommit[q] # None => z.precommit[q] = vals[w].precommit[q]
        <5>1. \A q \in Rounds : /\ vals[w].prevote[q] # None => vals'[w].prevote[q] = vals[w].prevote[q]
                                /\ vals[w].precommit[q] # None => vals'[w].precommit[q] = vals[w].precommit[q]
          BY VotesKept
        <5> QED BY <3>1, <5>1, Zenon
      <4>2. vals[w].precommit[r] = None /\ NoVoteAfter(vals[w], r)
        BY <3>3, <4>1 DEF NoVoteAfter
      <4> QED BY <4>2 DEF MayPrecommit
    <3> QED BY <1>1, <3>1, <3>2, <3>3 DEF MayPrecommit
  <2> QED BY <2>1, <2>2
<1>2. MayNext \cup Faulty \subseteq May \cup Faulty
  BY <1>1
<1>3. May \cup Faulty \in SUBSET Validators /\ MayNext \cup Faulty \in SUBSET Validators
  BY FaultyAssumption DEF Correct
<1>4. HasQuorum(MayNext \cup Faulty)
  BY DEF Choosable, HasQuorum
<1> QED BY <1>2, <1>3, <1>4, QuorumMonotone DEF Choosable

(* A committed block can be chosen, and has its polka in a round with its  *)
(* commit.                                                                 *)
LEMMA CommitFacts ==
  ASSUME TypeOK, PrecommitInv, NEW r \in Rounds, NEW b \in BlockIds \ {Nil}, <<r, b>> \in Commits
  PROVE  Choosable(r, b) /\ Grounded(b)
<1> DEFINE S == {v \in Correct : vals[v].precommit[r] = b}
           May == {v \in Correct : MayPrecommit(v, r, b)}
<1>1. HasQuorum(S \cup Faulty)
  BY PolkaDef DEF Precommitters
<1>2. S \cup Faulty \subseteq May \cup Faulty
  BY DEF MayPrecommit
<1>3. S \cup Faulty \in SUBSET Validators /\ May \cup Faulty \in SUBSET Validators
  BY FaultyAssumption DEF Correct
<1>4. Choosable(r, b)
  BY <1>1, <1>2, <1>3, QuorumMonotone DEF Choosable
<1>5. PICK v \in Correct : v \in S
  BY <1>1, QuorumsShareCorrect
<1>6. Grounded(b)
  BY <1>5 DEF PrecommitInv, Grounded
<1> QED BY <1>4, <1>6

(* A committed block has no rival.                                         *)
LEMMA NoRival == ASSUME TypeOK, PrecommitInv, ChoosableInv PROVE CommitIsFinal
BY CommitFacts DEF ChoosableInv, Rival, CommitIsFinal

(* A grounded block is the committed one.                                  *)
LEMMA GroundedIsIt ==
  ASSUME TypeOK, PrecommitInv, ChoosableInv,
         NEW p \in Rounds, NEW c \in BlockIds \ {Nil}, <<p, c>> \in Commits,
         NEW q \in Rounds, p < q, <<q, c>> \in Polkas,
         NEW b \in BlockIds \ {Nil}, Grounded(b)
  PROVE  b = c
<1>1. PICK g \in Rounds : <<g, b>> \in Polkas /\ <<g, b>> \in Commits
  BY DEF Grounded
<1>2. p \in Int /\ q \in Int /\ g \in Int /\ b \in BlockIds /\ c \in BlockIds
  BY RulesAssumption
<1>3. CASE g > p
  BY <1>1, <1>2, <1>3, NoRival DEF CommitIsFinal
<1>4. CASE g <= p
  <2>1. q > g
    BY <1>2, <1>4
  <2> QED BY <1>1, <1>2, <2>1, NoRival DEF CommitIsFinal
<1> QED BY <1>2, <1>3, <1>4

(* A polka that supersedes a lock that holds from round r on is a rival.   *)
LEMMA SupersededIsRival ==
  ASSUME TypeOK, PrecommitInv, ChoosableInv,
         NEW w \in Vals, NEW r \in Rounds, NEW b \in BlockIds \ {Nil},
         Bound(w, r, b), Superseded(w, Polkas)
  PROVE  Rival(r, b)
<1>1. PICK s \in Rounds, d \in BlockIds :
        <<s, d>> \in Polkas /\ s > w.locked_round /\ d # b
  BY DEF Superseded, Bound
<1>2. w.locked_round \in Int /\ Rounds \subseteq Int
  BY RoundsAreIntegers
<1>3. CASE w.locked_round >= r
  BY <1>1, <1>2, <1>3 DEF Rival
<1>4. ASSUME NEW p \in Rounds, p < w.locked_round, <<p, b>> \in Commits
      PROVE  FALSE
  <2>1. s > p
    BY <1>1, <1>2, <1>4
  <2> QED BY <1>1, <1>4, <2>1, NoRival DEF CommitIsFinal
<1> QED BY <1>3, <1>4 DEF Bound

(* A validator that precommitted b and prevotes otherwise in a later round *)
(* does so for a rival polka that was there before the step.               *)
LEMMA PrevoteNeedsRival ==
  ASSUME TypeOK, PrecommitInv, ChoosableInv, NEW v \in Correct, NEW z \in Vals,
         Promise(vals[v], z, Polkas, Commits), vals' = [vals EXCEPT ![v] = z],
         NEW w \in Correct, NEW r \in Rounds, NEW q \in Rounds, q > r,
         NEW b \in BlockIds \ {Nil}, vals'[w].precommit[r] = b,
         vals'[w].prevote[q] \notin {None, b}
  PROVE  Rival(r, b)
<1>1. CASE w # v
  <2>1. vals'[w] = vals[w]
    BY <1>1 DEF TypeOK
  <2> QED BY <2>1 DEF PrecommitInv
<1>2. CASE w = v
  <2> DEFINE c == z.prevote[q]
  <2>1. vals'[w] = z
    BY <1>2 DEF TypeOK
  <2>2. vals[v].precommit[r] = b
    BY <2>1 DEF Promise, PrecommitRule
  <2>3. CASE vals[v].prevote[q] = c
    BY <2>1, <2>2, <2>3 DEF PrecommitInv
  <2>4. CASE vals[v].prevote[q] # c
    <3>1. /\ vals[v].decided = None
          /\ vals[v].locked_block \in {None, c} \/ Superseded(vals[v], Polkas)
      BY <2>4 DEF Promise, PrevoteRule
    <3>2. Bound(vals[v], r, b) \/ Rival(r, b)
      BY <2>2, <3>1 DEF PrecommitInv
    <3>3. CASE Bound(vals[v], r, b)
      <4>1. Superseded(vals[v], Polkas)
        BY <2>1, <3>1, <3>3, RulesAssumption DEF Bound
      <4> QED BY <3>3, <4>1, SupersededIsRival DEF TypeOK
    <3> QED BY <3>2, <3>3
  <2> QED BY <2>3, <2>4
<1> QED BY <1>1, <1>2

(* A precommit made in a step has a polka of its round, or its block is    *)
(* grounded.                                                               *)
LEMMA NewPrecommit ==
  ASSUME TypeOK, PrecommitInv, ChoosableInv, NEW v \in Correct, NEW z \in Vals,
         Promise(vals[v], z, Polkas, Commits),
         NEW r \in Rounds, NEW b \in BlockIds \ {Nil}, z.precommit[r] = b, vals[v].precommit[r] # b
  PROVE  /\ <<r, b>> \in Polkas \/ Grounded(b)
         /\ z.decided # None \/ Bound(z, r, b)
<1>1. PICK q \in Rounds :
        /\ q = r \/ (q > r /\ Returned(q, Commits))
        /\ <<q, b>> \in Polkas
        /\ (z.locked_block = b /\ z.locked_round = q) \/ z.decided # None
  BY DEF Promise, PrecommitRule
<1>2. z.decided # None \/ Bound(z, r, b)
  BY <1>1, RoundsAreIntegers DEF Bound
<1>3. CASE q = r
  BY <1>1, <1>2, <1>3
<1>4. CASE Returned(q, Commits)
  <2>1. PICK p \in Rounds, c \in BlockIds \ {Nil} : p < q /\ <<p, c>> \in Commits
    BY <1>4 DEF Returned
  <2>2. q > p
    BY <2>1, RulesAssumption
  <2>3. b = c
    BY <1>1, <2>1, <2>2, NoRival DEF CommitIsFinal
  <2> QED BY <1>2, <2>1, <2>3, CommitFacts
<1> QED BY <1>1, <1>3, <1>4

(* A lock that holds is kept, or yields to a rival, or to a polka for its  *)
(* own block after a commit.                                               *)
LEMMA LockKept ==
  ASSUME TypeOK, PrecommitInv, ChoosableInv, NEW v \in Correct, NEW z \in Vals,
         Promise(vals[v], z, Polkas, Commits),
         NEW r \in Rounds, NEW b \in BlockIds \ {Nil}, vals[v].precommit[r] = b,
         Bound(vals[v], r, b), z.decided = None
  PROVE  Bound(z, r, b) \/ Rival(r, b)
<1>0. vals[v] \in Vals /\ vals[v].locked_round \in Int /\ z.locked_round \in Int /\ Rounds \subseteq Int
  BY RoundsAreIntegers DEF TypeOK
<1>1. CASE z.locked_block = vals[v].locked_block /\ z.locked_round >= vals[v].locked_round
  <2>1. ASSUME NEW p \in Rounds, p < vals[v].locked_round PROVE p < z.locked_round
    BY <1>0, <1>1, <2>1
  <2>2. vals[v].locked_round >= r => z.locked_round >= r
    BY <1>0, <1>1
  <2> QED BY <1>1, <2>1, <2>2 DEF Bound
<1>2. CASE Superseded(vals[v], Polkas)
  BY <1>0, <1>2, SupersededIsRival
<1>3. ASSUME NEW q \in Rounds, NEW d \in BlockIds, <<q, d>> \in Polkas, Returned(q, Commits),
             d # vals[v].locked_block \/ (z.locked_block = d /\ z.locked_round = q)
      PROVE  Bound(z, r, b) \/ Rival(r, b)
  <2>1. PICK p \in Rounds, c \in BlockIds \ {Nil} : p < q /\ <<p, c>> \in Commits
    BY <1>3 DEF Returned
  <2>2. d = c
    BY <1>0, <1>3, <2>1, NoRival DEF CommitIsFinal
  <2>3. CASE d = b
    BY <1>3, <2>1, <2>2, <2>3 DEF Bound
  <2>4. CASE d # b
    <3>0. b \in BlockIds
      OBVIOUS
    <3>1. CASE <<r, b>> \in Polkas
      <4>1. ASSUME r > p PROVE b = c
        BY <2>1, <3>0, <3>1, <4>1, NoRival DEF CommitIsFinal
      <4>2. q > r
        BY <1>0, <2>1, <2>2, <2>4, <4>1
      <4> QED BY <1>3, <2>4, <4>2 DEF Rival
    <3>2. CASE Grounded(b)
      BY <1>0, <1>3, <2>1, <2>2, <2>4, <3>2, GroundedIsIt
    <3> QED BY <3>1, <3>2 DEF PrecommitInv
  <2> QED BY <2>3, <2>4
<1> QED BY <1>1, <1>2, <1>3, RulesAssumption DEF Promise, LockRule, Bound

LEMMA PrecommitInvStep ==
  ASSUME TypeOK, PrecommitInv, ChoosableInv, NEW v \in Correct, NEW z \in Vals,
         Promise(vals[v], z, Polkas, Commits), vals' = [vals EXCEPT ![v] = z]
  PROVE  PrecommitInv'
<1> SUFFICES ASSUME NEW w \in Correct, NEW r \in Rounds, NEW b \in BlockIds \ {Nil},
                    vals'[w].precommit[r] = b
             PROVE  /\ <<r, b>> \in Polkas' \/ Grounded(b)'
                    /\ \/ vals'[w].decided # None
                       \/ Bound(vals[w], r, b)'
                       \/ Rival(r, b)'
                    /\ \A q \in Rounds : q > r /\ vals'[w].prevote[q] \notin {None, b} => Rival(r, b)'
  BY DEF PrecommitInv
<1>1. Polkas \subseteq Polkas' /\ Commits \subseteq Commits'
  BY MajoritiesGrow
<1>2. (Rival(r, b) => Rival(r, b)') /\ (Grounded(b) => Grounded(b)')
  BY <1>1 DEF Rival, Grounded
<1>3. \A q \in Rounds : q > r /\ vals'[w].prevote[q] \notin {None, b} => Rival(r, b)'
  BY <1>2, PrevoteNeedsRival
<1>4. CASE w = v
  <2>1. vals'[w] = z
    BY <1>4 DEF TypeOK
  <2>2. /\ <<r, b>> \in Polkas \/ Grounded(b)
        /\ z.decided # None \/ Bound(z, r, b) \/ Rival(r, b)
    <3>1. CASE vals[v].precommit[r] # b
      BY <2>1, <3>1, NewPrecommit
    <3>2. CASE vals[v].precommit[r] = b
      <4>1. /\ <<r, b>> \in Polkas \/ Grounded(b)
            /\ vals[v].decided # None \/ Bound(vals[v], r, b) \/ Rival(r, b)
        BY <3>2 DEF PrecommitInv
      <4>2. vals[v].decided # None => z.decided # None
        BY DEF Promise, DecideRule
      <4> QED BY <3>2, <4>1, <4>2, LockKept
    <3> QED BY <3>1, <3>2
  <2>3. Bound(z, r, b) => Bound(vals[w], r, b)'
    BY <1>1, <2>1 DEF Bound
  <2> QED BY <1>1, <1>2, <1>3, <2>1, <2>2, <2>3
<1>5. CASE w # v
  <2>1. vals'[w] = vals[w]
    BY <1>5 DEF TypeOK
  <2>2. Bound(vals[w], r, b) => Bound(vals[w], r, b)'
    BY <1>1, <2>1 DEF Bound
  <2> QED BY <1>1, <1>2, <1>3, <2>1, <2>2 DEF PrecommitInv
<1> QED BY <1>4, <1>5

(* A quorum that may precommit b and one that prevoted c later share a     *)
(* correct validator, which has precommitted b.                            *)
LEMMA ChoosableInvStep ==
  ASSUME TypeOK, PrecommitInv, ChoosableInv, NEW v \in Correct, NEW z \in Vals,
         Promise(vals[v], z, Polkas, Commits), vals' = [vals EXCEPT ![v] = z]
  PROVE  ChoosableInv'
<1> SUFFICES ASSUME NEW r \in Rounds, NEW b \in BlockIds \ {Nil},
                    Choosable(r, b)', Rival(r, b)'
             PROVE  FALSE
  BY DEF ChoosableInv
<1>1. PICK q \in Rounds, c \in BlockIds : <<q, c>> \in Polkas' /\ q > r /\ c # b
  BY DEF Rival
<1> DEFINE May == {w \in Correct : MayPrecommit(w, r, b)'}
           Prevoted == {w \in Correct : vals'[w].prevote[q] = c}
<1>2. HasQuorum(May \cup Faulty) /\ HasQuorum(Prevoted \cup Faulty)
  <2>1. HasQuorum(Prevoters(q, c)')
    BY <1>1 DEF Polkas, HasQuorum
  <2> QED BY <2>1 DEF Choosable, Prevoters, HasQuorum
<1>3. PICK w \in Correct : w \in May /\ w \in Prevoted
  BY <1>2, QuorumsShareCorrect
<1>4. vals'[w].precommit[r] = b
  BY <1>1, <1>3, RulesAssumption DEF MayPrecommit, NoVoteAfter
<1>5. Rival(r, b)
  BY <1>1, <1>3, <1>4, PrevoteNeedsRival, RulesAssumption
<1>6. Choosable(r, b)
  BY ChoosableShrinks
<1> QED BY <1>5, <1>6 DEF ChoosableInv

LEMMA DecidedInvStep ==
  ASSUME TypeOK, DecidedInv, NEW v \in Correct, NEW z \in Vals,
         Promise(vals[v], z, Polkas, Commits), vals' = [vals EXCEPT ![v] = z]
  PROVE  DecidedInv'
<1>1. Commits \subseteq Commits'
  BY MajoritiesGrow
<1> SUFFICES ASSUME NEW w \in Correct, vals'[w].decided # None
             PROVE  /\ vals'[w].decided # Nil
                    /\ \E r \in Rounds : <<r, vals'[w].decided>> \in Commits
  BY <1>1 DEF DecidedInv
<1>2. CASE vals'[w].decided = vals[w].decided
  BY <1>2 DEF DecidedInv
<1>3. CASE vals'[w].decided # vals[w].decided
  BY <1>3 DEF TypeOK, Promise, DecideRule
<1> QED BY <1>2, <1>3

(* Every reachable state satisfies the invariant behind Agreement.         *)
THEOREM Safety == Spec => []SafetyInv
<1>1. Init => SafetyInv
  <2> SUFFICES ASSUME Init PROVE SafetyInv
    OBVIOUS
  <2>1. \A v \in Correct, r \in Rounds :
           vals[v].prevote[r] = None /\ vals[v].precommit[r] = None /\ vals[v].decided = None
    BY DEF Init, NewVal
  <2>2. Polkas = {}
    <3> SUFFICES ASSUME NEW r \in Rounds, NEW b \in BlockIds, <<r, b>> \in Polkas
                 PROVE  FALSE
      BY DEF Polkas
    <3>1. {v \in Correct : vals[v].prevote[r] = b} = {}
      BY <2>1, RulesAssumption
    <3>2. HasQuorum(Prevoters(r, b))
      BY PolkaDef
    <3>3. PICK v \in Correct : v \in {x \in Correct : vals[x].prevote[r] = b}
      BY <3>2, QuorumsShareCorrect DEF Prevoters
    <3> QED BY <3>1, <3>3
  <2>3. PrecommitInv /\ DecidedInv
    BY <2>1, RulesAssumption DEF Init, NewVal, PrecommitInv, DecidedInv
  <2> QED BY <2>2, <2>3 DEF SafetyInv, ChoosableInv, Rival
<1>2. TypeOK /\ SafetyInv /\ [Next]_vals => SafetyInv'
  <2> SUFFICES ASSUME TypeOK, SafetyInv, [Next]_vals PROVE SafetyInv'
    OBVIOUS
  <2>1. CASE Next
    <3>1. PICK v \in Correct, z \in Vals :
            Promise(vals[v], z, Polkas, Commits) /\ vals' = [vals EXCEPT ![v] = z]
      BY <2>1 DEF Next, Step, Promise
    <3> QED BY <3>1, PrecommitInvStep, ChoosableInvStep, DecidedInvStep DEF SafetyInv
  <2>2. CASE UNCHANGED vals
    <3>1. Polkas' = Polkas /\ Commits' = Commits
      BY <2>2 DEF Polkas, Commits, Prevoters, Precommitters
    <3>2. \A r \in Rounds, b \in BlockIds : Choosable(r, b)' <=> Choosable(r, b)
      BY <2>2 DEF Choosable, MayPrecommit
    <3>3. \A r \in Rounds, b \in BlockIds : Rival(r, b)' <=> Rival(r, b)
      BY <3>1 DEF Rival
    <3>4. PrecommitInv'
      BY <2>2, <3>1, <3>3 DEF SafetyInv, PrecommitInv, Grounded, Bound
    <3>5. ChoosableInv'
      BY <3>2, <3>3 DEF SafetyInv, ChoosableInv
    <3>6. DecidedInv'
      BY <2>2, <3>1 DEF SafetyInv, DecidedInv
    <3> QED BY <3>4, <3>5, <3>6 DEF SafetyInv
  <2> QED BY <2>1, <2>2
<1> QED BY <1>1, <1>2, TypeCorrect, PTL DEF Spec

(* Once a block has two thirds of the precommits of a round, no later      *)
(* round has a polka for another one or for nil.                           *)
THEOREM CommitFinal == Spec => []CommitIsFinal
BY Safety, TypeCorrect, NoRival, PTL DEF SafetyInv

(* Two commits are for one block: the later of the two rounds has a polka  *)
(* for its block, and within a round two quorums share a correct validator.*)
LEMMA AgreementFromInv == ASSUME TypeOK, SafetyInv PROVE Agreement
<1> SUFFICES ASSUME NEW v \in Correct, NEW w \in Correct,
                    vals[v].decided # None, vals[w].decided # None
             PROVE  vals[v].decided = vals[w].decided
  BY DEF Agreement
<1> DEFINE b == vals[v].decided
           c == vals[w].decided
<1>1. b \in BlockIds \ {Nil} /\ c \in BlockIds \ {Nil}
  <2>1. vals[v] \in Vals /\ vals[w] \in Vals
    BY DEF TypeOK
  <2> QED BY <2>1 DEF SafetyInv, DecidedInv, Vals, Ids
<1>2. PICK r \in Rounds : <<r, b>> \in Polkas /\ <<r, b>> \in Commits
  BY <1>1, CommitFacts DEF SafetyInv, DecidedInv, Grounded
<1>3. PICK q \in Rounds : <<q, c>> \in Polkas /\ <<q, c>> \in Commits
  BY <1>1, CommitFacts DEF SafetyInv, DecidedInv, Grounded
<1>5. CASE r = q
  <2> DEFINE S == {x \in Correct : vals[x].precommit[r] = b}
             T == {x \in Correct : vals[x].precommit[r] = c}
  <2>1. HasQuorum(S \cup Faulty) /\ HasQuorum(T \cup Faulty)
    BY <1>1, <1>2, <1>3, <1>5, PolkaDef DEF Precommitters
  <2>2. PICK x \in Correct : x \in S /\ x \in T
    BY <2>1, QuorumsShareCorrect
  <2> QED BY <2>2
<1>6. CASE r < q \/ q < r
  BY <1>1, <1>2, <1>3, <1>6, NoRival DEF SafetyInv, CommitIsFinal
<1> QED BY <1>5, <1>6, RulesAssumption

(* No two correct validators decide different blocks, for any validators,  *)
(* powers, rounds and blocks, with less than a third of the power faulty.  *)
THEOREM AgreementHolds == Spec => []Agreement
BY Safety, TypeCorrect, AgreementFromInv, PTL
===============================================================================
