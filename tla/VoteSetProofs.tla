---------------------------- MODULE VoteSetProofs ----------------------------
(* The properties of VoteSetSpec and of CommitVerification, for every set  *)
(* of validators, every distribution of power, every set of block ids,     *)
(* peers and faulty validators.                                            *)
EXTENDS VoteSetSpec, CommitVerification

(* Type correctness of the vote set under every sequence of calls.         *)
THEOREM TypeCorrect == Spec => []TypeOK
<1>1. Init => TypeOK
  BY DEF Init, TypeOK, NewVoteSet, VoteSets
<1>2. TypeOK /\ [Next]_vars => TypeOK'
  <2> SUFFICES ASSUME TypeOK, [Next]_vars PROVE TypeOK'
    OBVIOUS
  <2>1. ASSUME NEW v \in Validators, NEW b \in BlockIds, DeliverVote(v, b) PROVE TypeOK'
    <3>1. PutVote(vs, v, b) \in VoteSets
      BY PutVoteType DEF TypeOK
    <3>2. CountVote(PutVote(vs, v, b), v, b) \in VoteSets
      BY <3>1, CountVoteType
    <3>3. AddVote(vs, v, b).vs \in VoteSets
      BY <3>1, <3>2 DEF AddVote, TypeOK
    <3> QED BY <2>1, <3>3 DEF DeliverVote, TypeOK
  <2>2. ASSUME NEW p \in Peers, NEW b \in BlockIds, ClaimMaj23(p, b) PROVE TypeOK'
    BY <2>2, SetPeerMaj23Type DEF ClaimMaj23, TypeOK
  <2>3. CASE UNCHANGED vars
    BY <2>3 DEF vars, TypeOK
  <2> QED BY <2>1, <2>2, <2>3 DEF Next
<1> QED BY <1>1, <1>2, PTL DEF Spec

(* Delivering a vote that is neither a duplicate nor refused keeps the     *)
(* bookkeeping.                                                            *)
LEMMA CountedVoteKeepsInv ==
  ASSUME TypeOK, BookkeepingInv,
         NEW v \in Validators, NEW b \in BlockIds, DeliverVote(v, b),
         vs.votes[v] # b, ~Refused(vs, v, b)
  PROVE  BookkeepingInv'
<1> DEFINE p == PutVote(vs, v, b)
           n == AddVerifiedVote(p, v, b)
<1>1. vs \in VoteSets /\ p \in VoteSets /\ n \in VoteSets
  BY PutVoteType, AddVerifiedVoteType DEF TypeOK
<1>2. vs' = CountVote(p, v, b) /\ cast' = cast \cup {<<v, b>>}
  BY BlockIdAssumption DEF DeliverVote, AddVote, GetVote
<1>3. /\ p.block_votes = vs.block_votes /\ p.block_sum = vs.block_sum /\ p.maj23 = vs.maj23
      /\ Conflicting(vs, v, b) => p.sum = vs.sum
      /\ Conflicting(vs, v, b) /\ vs.maj23 # b => p.votes = vs.votes
      /\ Conflicting(vs, v, b) /\ vs.maj23 = b => p.votes = [vs.votes EXCEPT ![v] = b]
      /\ ~Conflicting(vs, v, b) => /\ p.votes = [vs.votes EXCEPT ![v] = b]
                                   /\ p.sum = vs.sum + PowerOf(v)
  BY <1>1, PutVoteFields
<1>4. /\ n.votes = p.votes /\ n.sum = p.sum /\ n.maj23 = p.maj23
      /\ n.block_votes = [p.block_votes EXCEPT ![b] = @ \cup {v}]
      /\ \A c \in BlockIds \ {b} : n.block_sum[c] = p.block_sum[c]
      /\ n.block_sum[b] = Power[n.block_votes[b]]
  <2>1. p.block_sum[b] = Power[p.block_votes[b]]
    BY <1>3 DEF BookkeepingInv, CountedInv
  <2> QED BY <1>1, <2>1, AddVerifiedVoteFields
<1> DEFINE crosses == p.block_sum[b] < QuorumPower /\ QuorumPower <= n.block_sum[b]
           copied == [w \in Validators |-> IF w \in n.block_votes[b] THEN b ELSE None]
<1>5. /\ crosses /\ p.maj23 = None => vs' = [n EXCEPT !.maj23 = b, !.votes = copied]
      /\ ~(crosses /\ p.maj23 = None) => vs' = n
  BY <1>2, Zenon DEF CountVote
<1>6. vs'.block_votes = n.block_votes /\ vs'.block_sum = n.block_sum /\ vs'.sum = n.sum
  BY <1>1, <1>5 DEF VoteSets
<1> HIDE DEF p, n
<1>7. CountedInv'
  <2> SUFFICES ASSUME NEW c \in BlockIds
               PROVE  /\ n.block_sum[c] = Power[n.block_votes[c]]
                      /\ n.block_votes[c] \subseteq Voters(c)'
                      /\ Voters(c)' \ Faulty \subseteq n.block_votes[c]
    BY <1>6 DEF CountedInv
  <2>1. CASE c = b
    <3>1. n.block_votes[b] = vs.block_votes[b] \cup {v}
      BY <1>1, <1>3, <1>4 DEF VoteSets
    <3>2. Voters(b)' = Voters(b) \cup {v}
      BY <1>2 DEF Voters
    <3> QED BY <1>4, <2>1, <3>1, <3>2 DEF BookkeepingInv, CountedInv
  <2>2. CASE c # b
    <3>1. n.block_votes[c] = vs.block_votes[c] /\ n.block_sum[c] = vs.block_sum[c]
      BY <1>1, <1>3, <1>4, <2>2 DEF VoteSets
    <3>2. Voters(c)' = Voters(c)
      BY <1>2, <2>2 DEF Voters
    <3> QED BY <3>1, <3>2 DEF BookkeepingInv, CountedInv
  <2> QED BY <2>1, <2>2
<1>8. DeliveredInv'
  <2>1. \A w \in Validators : p.votes[w] # None => <<w, p.votes[w]>> \in cast'
    BY <1>1, <1>2, <1>3 DEF BookkeepingInv, DeliveredInv, VoteSets
  <2>2. n.block_votes[b] \subseteq Voters(b)'
    BY <1>6, <1>7 DEF CountedInv
  <2>3. \A w \in Validators : copied[w] # None => <<w, copied[w]>> \in cast'
    BY <2>2 DEF Voters
  <2>4. vs'.votes = copied \/ vs'.votes = p.votes
    BY <1>1, <1>4, <1>5 DEF VoteSets
  <2>5. \A w \in Validators : vs'.votes[w] # None => <<w, vs'.votes[w]>> \in cast'
    BY <2>1, <2>3, <2>4
  <2>6. \A w \in Validators \ Faulty : \A c, d \in BlockIds :
           <<w, c>> \in cast' /\ <<w, d>> \in cast' => c = d
    BY <1>2 DEF BookkeepingInv, DeliveredInv, DeliverVote
  <2> QED BY <2>5, <2>6 DEF DeliveredInv
<1>9. BeforeMajority'
  <2> SUFFICES ASSUME vs'.maj23 = None
               PROVE  /\ vs'.sum = Power[{w \in Validators : vs'.votes[w] # None}]
                      /\ \A c \in BlockIds : vs'.block_sum[c] < QuorumPower
    BY DEF BeforeMajority
  <2>1. b # None
    BY BlockIdAssumption
  <2>2. ~crosses /\ vs' = n /\ vs.maj23 = None
    BY <1>1, <1>3, <1>4, <1>5, <2>1 DEF VoteSets
  <2>3. \A c \in BlockIds : vs'.block_sum[c] < QuorumPower
    <3>1. \A c \in BlockIds : vs.block_sum[c] < QuorumPower
      BY <2>2 DEF BookkeepingInv, BeforeMajority
    <3>2. n.block_sum[b] \in Int /\ QuorumPower \in Int
      BY <1>1, QuorumIsTwoThirds DEF VoteSets
    <3>3. n.block_sum[b] < QuorumPower
      BY <1>3, <2>2, <3>1, <3>2
    <3> QED BY <1>3, <1>4, <2>2, <3>1, <3>3
  <2> DEFINE Have == {w \in Validators : vs.votes[w] # None}
  <2>4. vs.sum = Power[Have]
    BY <2>2 DEF BookkeepingInv, BeforeMajority
  <2>5. CASE Conflicting(vs, v, b)
    BY <1>3, <1>4, <2>1, <2>2, <2>3, <2>4, <2>5
  <2>6. CASE ~Conflicting(vs, v, b)
    <3>1. vs.votes[v] = None
      BY <2>6 DEF Conflicting
    <3>2. {w \in Validators : p.votes[w] # None} = Have \cup {v}
      BY <1>1, <1>3, <2>1, <2>6 DEF VoteSets
    <3>3. v \notin Have /\ Have \in SUBSET Validators
      BY <3>1
    <3> HIDE DEF Have
    <3>4. Power[Have \cup {v}] = Power[Have] + PowerOf(v)
      BY <3>3, PowerAdd
    <3>5. vs'.sum = Power[Have \cup {v}]
      BY <1>3, <1>4, <2>2, <2>4, <2>6, <3>4
    <3>6. {w \in Validators : vs'.votes[w] # None} = Have \cup {v}
      BY <1>4, <2>2, <3>2
    <3>7. vs'.sum = Power[{w \in Validators : vs'.votes[w] # None}]
      BY <3>5, <3>6, Zenon
    <3> QED BY <2>3, <3>7
  <2> QED BY <2>5, <2>6
<1>10. AtMajority'
  <2> SUFFICES ASSUME vs'.maj23 # None
               PROVE  /\ HasQuorum(vs'.block_votes[vs'.maj23])
                      /\ HasQuorum({w \in Validators : vs'.votes[w] = vs'.maj23})
    BY DEF AtMajority
  <2>1. CASE crosses /\ p.maj23 = None
    <3>1. vs'.maj23 = b /\ vs'.votes = copied
      BY <1>1, <1>5, <2>1 DEF VoteSets
    <3>2. HasQuorum(n.block_votes[b])
      <4>1. n.block_sum[b] \in Int /\ QuorumPower \in Int
        BY <1>1, QuorumIsTwoThirds DEF VoteSets
      <4> QED BY <1>4, <2>1, <4>1 DEF HasQuorum
    <3>3. {w \in Validators : copied[w] = b} = n.block_votes[b]
      BY <1>1, BlockIdAssumption DEF VoteSets
    <3>4. HasQuorum({w \in Validators : copied[w] = b})
      BY <3>2, <3>3, Zenon
    <3> QED BY <1>6, <3>1, <3>2, <3>4
  <2>2. CASE ~(crosses /\ p.maj23 = None)
    <3>1. vs' = n /\ vs'.maj23 = vs.maj23 /\ vs'.votes = p.votes
      BY <1>3, <1>4, <1>5, <2>2
    <3> DEFINE m == vs.maj23
    <3>2. m \in BlockIds
      BY <1>1, <3>1 DEF VoteSets
    <3>3. HasQuorum(vs.block_votes[m]) /\ HasQuorum({w \in Validators : vs.votes[w] = m})
      BY <3>1 DEF BookkeepingInv, AtMajority
    <3>4. /\ vs.block_votes[m] \subseteq n.block_votes[m]
          /\ vs.block_votes[m] \in SUBSET Validators
          /\ n.block_votes[m] \in SUBSET Validators
      BY <1>1, <1>3, <1>4, <3>2 DEF VoteSets
    <3>5. {w \in Validators : vs.votes[w] = m} \subseteq {w \in Validators : p.votes[w] = m}
      BY <1>1, <1>3, <3>2, BlockIdAssumption DEF VoteSets, Conflicting
    <3> HIDE DEF m
    <3>6. HasQuorum(n.block_votes[m])
      BY <3>3, <3>4, QuorumMonotone
    <3>7. HasQuorum({w \in Validators : p.votes[w] = m})
      BY <3>3, <3>5, QuorumMonotone
    <3> QED BY <3>1, <3>6, <3>7 DEF m
  <2> QED BY <2>1, <2>2
<1> QED BY <1>7, <1>8, <1>9, <1>10 DEF BookkeepingInv

(* A refused vote comes from a faulty validator, and at most puts it back  *)
(* among the votes for the majority block.                                 *)
LEMMA RefusedVoteKeepsInv ==
  ASSUME TypeOK, BookkeepingInv,
         NEW v \in Validators, NEW b \in BlockIds, DeliverVote(v, b),
         vs.votes[v] # b, Refused(vs, v, b)
  PROVE  BookkeepingInv'
<1>1. vs \in VoteSets /\ b # None
  BY BlockIdAssumption DEF TypeOK
<1>2. vs' = PutVote(vs, v, b) /\ cast' = cast \cup {<<v, b>>}
  BY <1>1 DEF DeliverVote, AddVote, GetVote
<1>3. Conflicting(vs, v, b)
  BY DEF Refused
<1>4. /\ vs'.block_votes = vs.block_votes /\ vs'.block_sum = vs.block_sum
      /\ vs'.maj23 = vs.maj23 /\ vs'.sum = vs.sum
      /\ vs.maj23 # b => vs'.votes = vs.votes
      /\ vs.maj23 = b => vs'.votes = [vs.votes EXCEPT ![v] = b]
  BY <1>1, <1>2, <1>3, PutVoteFields
<1>5. v \in Faulty
  <2>1. vs.votes[v] \in BlockIds \ {b}
    BY <1>1, <1>3 DEF Conflicting, VoteSets
  <2>2. <<v, vs.votes[v]>> \in cast
    BY <1>1, <2>1, BlockIdAssumption DEF BookkeepingInv, DeliveredInv
  <2> QED BY <2>1, <2>2 DEF DeliverVote
<1>6. CountedInv'
  <2>1. \A c \in BlockIds : Voters(c) \subseteq Voters(c)' /\ Voters(c)' \ Faulty = Voters(c) \ Faulty
    BY <1>2, <1>5 DEF Voters
  <2> QED BY <1>4, <2>1 DEF BookkeepingInv, CountedInv
<1>7. DeliveredInv'
  BY <1>1, <1>2, <1>4, <1>5 DEF BookkeepingInv, DeliveredInv, VoteSets
<1>8. BeforeMajority'
  BY <1>1, <1>4 DEF BookkeepingInv, BeforeMajority
<1>9. AtMajority'
  <2> SUFFICES ASSUME vs.maj23 # None
               PROVE  HasQuorum({w \in Validators : vs'.votes[w] = vs.maj23})
    BY <1>4 DEF BookkeepingInv, AtMajority
  <2>1. HasQuorum({w \in Validators : vs.votes[w] = vs.maj23})
    BY DEF BookkeepingInv, AtMajority
  <2>2. {w \in Validators : vs.votes[w] = vs.maj23} \subseteq {w \in Validators : vs'.votes[w] = vs.maj23}
    BY <1>1, <1>4 DEF VoteSets
  <2> QED BY <2>1, <2>2, QuorumMonotone
<1> QED BY <1>6, <1>7, <1>8, <1>9 DEF BookkeepingInv

(* The bookkeeping of add_vote holds after any sequence of votes and       *)
(* claims.                                                                 *)
THEOREM Bookkeeping == Spec => []BookkeepingInv
<1>1. Init => BookkeepingInv
  <2> SUFFICES ASSUME Init PROVE BookkeepingInv
    OBVIOUS
  <2>1. Power[{}] = 0 /\ QuorumPower > 0
    BY PowerAssumption, QuorumIsTwoThirds
  <2>2. \A b \in BlockIds : Voters(b) = {}
    BY DEF Init, Voters
  <2>3. {v \in Validators : vs.votes[v] # None} = {}
    BY DEF Init, NewVoteSet
  <2>4. CountedInv
    BY <2>1, <2>2 DEF Init, NewVoteSet, CountedInv
  <2>5. Power[{v \in Validators : vs.votes[v] # None}] = 0
    BY <2>1, <2>3, Zenon
  <2>6. BeforeMajority
    BY <2>1, <2>5 DEF Init, NewVoteSet, BeforeMajority
  <2>7. DeliveredInv /\ AtMajority
    BY DEF Init, NewVoteSet, DeliveredInv, AtMajority
  <2> QED BY <2>4, <2>6, <2>7 DEF BookkeepingInv
<1>2. TypeOK /\ BookkeepingInv /\ [Next]_vars => BookkeepingInv'
  <2> SUFFICES ASSUME TypeOK, BookkeepingInv, [Next]_vars PROVE BookkeepingInv'
    OBVIOUS
  <2>1. ASSUME NEW v \in Validators, NEW b \in BlockIds, DeliverVote(v, b) PROVE BookkeepingInv'
    <3>1. CASE vs.votes[v] = b
      <4>1. vs' = vs
        BY <2>1, <3>1 DEF DeliverVote, AddVote, GetVote
      <4>2. cast' = cast
        BY <2>1, <3>1, BlockIdAssumption DEF DeliverVote, BookkeepingInv, DeliveredInv
      <4> QED BY <4>1, <4>2 DEF BookkeepingInv, CountedInv, Voters, DeliveredInv, BeforeMajority, AtMajority
    <3> QED BY <2>1, <3>1, CountedVoteKeepsInv, RefusedVoteKeepsInv
  <2>2. ASSUME NEW q \in Peers, NEW b \in BlockIds, ClaimMaj23(q, b) PROVE BookkeepingInv'
    <3>1. /\ vs'.block_votes = vs.block_votes /\ vs'.block_sum = vs.block_sum
          /\ vs'.maj23 = vs.maj23 /\ vs'.sum = vs.sum /\ vs'.votes = vs.votes
          /\ cast' = cast
      BY <2>2 DEF ClaimMaj23, SetPeerMaj23, TypeOK, VoteSets
    <3> QED BY <3>1 DEF BookkeepingInv, CountedInv, Voters, DeliveredInv, BeforeMajority, AtMajority
  <2>3. CASE UNCHANGED vars
    BY <2>3 DEF vars, BookkeepingInv, CountedInv, Voters, DeliveredInv, BeforeMajority, AtMajority
  <2> QED BY <2>1, <2>2, <2>3 DEF Next
<1> QED BY <1>1, <1>2, TypeCorrect, PTL DEF Spec

(* The voters for a block are validators.                                  *)
LEMMA VotersType == ASSUME NEW b PROVE Voters(b) \in SUBSET Validators
BY DEF Voters

(* maj23 is set only where validators with a quorum of the power voted.    *)
THEOREM MajorityReal == Spec => []MajorityIsReal
<1>1. TypeOK /\ BookkeepingInv => MajorityIsReal
  <2> SUFFICES ASSUME TypeOK, BookkeepingInv, vs.maj23 # None PROVE HasQuorum(Voters(vs.maj23))
    BY DEF MajorityIsReal
  <2>1. vs.maj23 \in BlockIds
    BY DEF TypeOK, VoteSets
  <2>2. vs.block_votes[vs.maj23] \subseteq Voters(vs.maj23) /\ HasQuorum(vs.block_votes[vs.maj23])
    BY <2>1 DEF BookkeepingInv, CountedInv, AtMajority
  <2>3. vs.block_votes[vs.maj23] \in SUBSET Validators
    BY <2>1 DEF TypeOK, VoteSets
  <2> QED BY <2>2, <2>3, VotersType, QuorumMonotone
<1> QED BY <1>1, TypeCorrect, Bookkeeping, PTL

(* A commit made from the majority is signed by a quorum for its block.    *)
THEOREM CommitIsBacked == Spec => []CommitBacked
<1>1. TypeOK /\ BookkeepingInv => CommitBacked
  <2> SUFFICES ASSUME TypeOK, BookkeepingInv, vs.maj23 \notin {None, Nil}
               PROVE  HasQuorum(CommitSigners(vs))
    BY DEF CommitBacked
  <2>1. CommitSigners(vs) = {v \in Validators : vs.votes[v] = vs.maj23}
    BY DEF CommitSigners, MakeCommit
  <2>2. HasQuorum({v \in Validators : vs.votes[v] = vs.maj23})
    BY DEF BookkeepingInv, AtMajority
  <2> QED BY <2>1, <2>2, Zenon
<1> QED BY <1>1, TypeCorrect, Bookkeeping, PTL

(* A majority of correct votes is always found, and is the one answered.   *)
THEOREM MajorityFound == Spec => []MajorityNotMissed
<1>1. TypeOK /\ BookkeepingInv /\ MajorityIsReal => MajorityNotMissed
  <2> SUFFICES ASSUME TypeOK, BookkeepingInv, MajorityIsReal,
                      NEW b \in BlockIds, HasQuorum(Voters(b) \ Faulty)
               PROVE  vs.maj23 = b
    BY DEF MajorityNotMissed
  <2>1. /\ Voters(b) \ Faulty \subseteq vs.block_votes[b]
        /\ vs.block_sum[b] = Power[vs.block_votes[b]]
    BY DEF BookkeepingInv, CountedInv
  <2>2. vs.block_votes[b] \in SUBSET Validators /\ Voters(b) \ Faulty \in SUBSET Validators
    BY VotersType DEF TypeOK, VoteSets
  <2>3. HasQuorum(vs.block_votes[b])
    BY <2>1, <2>2, QuorumMonotone
  <2>4. vs.maj23 # None
    <3>1. Power[vs.block_votes[b]] \in Nat /\ QuorumPower \in Nat
      BY <2>2, PowerType, QuorumIsTwoThirds
    <3> QED BY <2>1, <2>3, <3>1 DEF HasQuorum, BookkeepingInv, BeforeMajority
  <2>5. vs.maj23 \in BlockIds /\ HasQuorum(Voters(vs.maj23))
    BY <2>4 DEF TypeOK, VoteSets, MajorityIsReal
  <2>6. PICK w : w \in (Voters(b) \ Faulty) \cap Voters(vs.maj23)
    BY <2>2, <2>5, VotersType, QuorumsMeet
  <2> QED BY <2>5, <2>6 DEF BookkeepingInv, DeliveredInv, Voters
<1> QED BY <1>1, TypeCorrect, Bookkeeping, MajorityReal, PTL

(* has_two_thirds_any() never answers true before two thirds have voted.   *)
THEOREM TwoThirdsAnyReal == Spec => []TwoThirdsAnyIsReal
<1>1. TypeOK /\ BookkeepingInv /\ MajorityIsReal => TwoThirdsAnyIsReal
  <2> DEFINE All == {v \in Validators : \E b \in BlockIds : v \in Voters(b)}
  <2> SUFFICES ASSUME TypeOK, BookkeepingInv, MajorityIsReal, HasTwoThirdsAny(vs)
               PROVE  HasQuorum(All)
    BY DEF TwoThirdsAnyIsReal
  <2>1. All \in SUBSET Validators
    OBVIOUS
  <2>2. CASE vs.maj23 # None
    <3>1. vs.maj23 \in BlockIds /\ HasQuorum(Voters(vs.maj23))
      BY <2>2 DEF TypeOK, VoteSets, MajorityIsReal
    <3>2. Voters(vs.maj23) \subseteq All
      BY <3>1 DEF Voters
    <3> QED BY <2>1, <3>1, <3>2, VotersType, QuorumMonotone
  <2>3. CASE vs.maj23 = None
    <3> DEFINE Have == {v \in Validators : vs.votes[v] # None}
    <3>1. vs.sum = Power[Have]
      BY <2>3 DEF BookkeepingInv, BeforeMajority
    <3>2. Have \subseteq All
      BY DEF TypeOK, VoteSets, BookkeepingInv, DeliveredInv, Voters
    <3>3. Have \in SUBSET Validators
      OBVIOUS
    <3> HIDE DEF Have, All
    <3>4. Power[Have] \in Nat
      BY <3>3, PowerType
    <3>5. HasQuorum(Have)
      BY <3>1, <3>4, QuorumIsTwoThirds DEF HasTwoThirdsAny, HasQuorum
    <3> QED BY <2>1, <3>2, <3>3, <3>5, QuorumMonotone
  <2> QED BY <2>2, <2>3
<1> QED BY <1>1, TypeCorrect, Bookkeeping, MajorityReal, PTL

(* Once found, the majority is never changed.                              *)
THEOREM Maj23IsStable == Spec => Maj23Stable
<1>1. TypeOK /\ [Next]_vars => [vs.maj23 # None => vs'.maj23 = vs.maj23]_vars
  <2> SUFFICES ASSUME TypeOK, Next, vs.maj23 # None PROVE vs'.maj23 = vs.maj23
    OBVIOUS
  <2>1. ASSUME NEW v \in Validators, NEW b \in BlockIds, DeliverVote(v, b) PROVE vs'.maj23 = vs.maj23
    <3> DEFINE p == PutVote(vs, v, b)
    <3>1. p \in VoteSets /\ p.maj23 = vs.maj23
      BY PutVoteType, PutVoteFields DEF TypeOK
    <3> HIDE DEF p
    <3>2. CountVote(p, v, b).maj23 = vs.maj23
      BY <3>1 DEF CountVote, AddVerifiedVote, VoteSets
    <3> QED BY <2>1, <3>1, <3>2 DEF DeliverVote, AddVote, p
  <2>2. ASSUME NEW q \in Peers, NEW b \in BlockIds, ClaimMaj23(q, b) PROVE vs'.maj23 = vs.maj23
    BY <2>2 DEF ClaimMaj23, SetPeerMaj23, TypeOK, VoteSets
  <2> QED BY <2>1, <2>2 DEF Next
<1> QED BY <1>1, TypeCorrect, PTL DEF Spec, Maj23Stable

-----------------------------------------------------------------------------
(* The threshold of the verification is the one of the vote set.           *)
LEMMA EnoughIsQuorum ==
  ASSUME NEW S \in SUBSET Validators
  PROVE  Enough(Power[S]) <=> HasQuorum(S)
<1>1. Power[S] \in Int
  BY PowerAssumption
<1> QED BY <1>1, QuorumIsTwoThirds DEF Enough, VotingPowerNeeded, HasQuorum

(* What is tallied when the loop has passed one more signature.            *)
LEMMA TalliedNext ==
  ASSUME TallyInv, i <= N, i' = i + 1, flags' = flags
  PROVE  /\ ValidatorAt[i] \in Validators
         /\ ValidatorAt[i] \notin Tallied
         /\ Tallied' = IF flags[ValidatorAt[i]] = "commit" THEN Tallied \cup {ValidatorAt[i]}
                       ELSE Tallied
<1>1. i \in 1..N /\ ValidatorAt[i] \in Validators
  BY ValidatorSetAssumption DEF TallyInv
<1>2. ValidatorAt[i] \notin Tallied
  <2> SUFFICES ASSUME NEW j \in 1..N, j < i, ValidatorAt[j] = ValidatorAt[i] PROVE FALSE
    BY DEF Tallied
  <2> QED BY <1>1, ValidatorSetAssumption
<1>3. \A v \in Validators :
        (\E j \in 1..N : j < i + 1 /\ ValidatorAt[j] = v)
          <=> ((\E j \in 1..N : j < i /\ ValidatorAt[j] = v) \/ v = ValidatorAt[i])
  <2> TAKE v \in Validators
  <2>1. \A j \in 1..N : j < i + 1 <=> (j < i \/ j = i)
    BY <1>1
  <2> QED BY <1>1, <2>1
<1>4. ForBlock' = ForBlock /\ Tallied' = {v \in ForBlock : \E j \in 1..N : j < i + 1 /\ ValidatorAt[j] = v}
  BY DEF ForBlock, Tallied
<1> QED BY <1>1, <1>2, <1>3, <1>4 DEF ForBlock, Tallied

(* The loop of verify_commit_single keeps its invariant.                   *)
THEOREM TallyCorrect == VerifySpec => []TallyInv
<1>1. VerifyInit => TallyInv
  <2> SUFFICES ASSUME VerifyInit PROVE TallyInv
    OBVIOUS
  <2>1. i = 1 /\ 1 \in 1..(N + 1)
    BY ValidatorSetAssumption DEF VerifyInit
  <2>2. Tallied = {}
    BY <2>1 DEF Tallied
  <2>3. tallied_voting_power = Power[Tallied]
    BY <2>2, PowerAssumption DEF VerifyInit
  <2> QED BY <2>1, <2>2, <2>3 DEF VerifyInit, TallyInv
<1>2. TallyInv /\ [VerifyNext]_verifyVars => TallyInv'
  <2> SUFFICES ASSUME TallyInv, [VerifyNext]_verifyVars PROVE TallyInv'
    OBVIOUS
  <2> USE DEF TallyInv
  <2>1. CASE VerifyBasicValsAndCommit
    BY <2>1 DEF VerifyBasicValsAndCommit, Tallied, ForBlock
  <2>2. CASE VerifySignature
    <3>1. /\ i \in 1..N /\ flags' = flags /\ signers' = signers /\ basic' = basic
          /\ basic /\ verdict = "none" /\ ForBlock' = ForBlock
      BY <2>2, ValidatorSetAssumption DEF VerifySignature, ForBlock
    <3>2. CASE SkipSignature
      <4>1. i' = i + 1 /\ flags[ValidatorAt[i]] # "commit"
        BY <3>2 DEF SkipSignature
      <4>2. Tallied' = Tallied
        BY <3>1, <4>1, TalliedNext
      <4>3. i' \in 1..(N + 1)
        BY <3>1, <4>1, ValidatorSetAssumption
      <4> QED BY <3>1, <3>2, <4>2, <4>3 DEF SkipSignature
    <3>3. CASE WrongSignature
      <4>1. ~(ForBlock \subseteq signers)
        BY <3>1, <3>3, ValidatorSetAssumption DEF WrongSignature, ForBlock
      <4>2. i' = i /\ tallied_voting_power' = tallied_voting_power /\ verdict' = "refused"
        BY <3>3 DEF WrongSignature
      <4>3. Tallied' = Tallied
        BY <3>1, <4>2 DEF Tallied
      <4> QED BY <3>1, <4>1, <4>2, <4>3
    <3>4. CASE TallySignature
      <4>1. /\ i' = i + 1 /\ flags[ValidatorAt[i]] = "commit" /\ ValidatorAt[i] \in signers
            /\ tallied_voting_power' = tallied_voting_power + PowerOf(ValidatorAt[i])
        BY <3>4 DEF TallySignature
      <4>2. /\ ValidatorAt[i] \in Validators /\ ValidatorAt[i] \notin Tallied
            /\ Tallied' = Tallied \cup {ValidatorAt[i]}
        BY <3>1, <4>1, TalliedNext
      <4>3. Tallied \in SUBSET Validators
        BY DEF Tallied, ForBlock
      <4>4. tallied_voting_power' = Power[Tallied']
        BY <4>1, <4>2, <4>3, PowerAdd
      <4>5. i' \in 1..(N + 1)
        BY <3>1, <4>1, ValidatorSetAssumption
      <4>6. verdict' # "refused" /\ (verdict' = "accepted" => Enough(tallied_voting_power'))
        BY <3>4 DEF TallySignature
      <4> QED BY <3>1, <4>1, <4>2, <4>4, <4>5, <4>6 DEF Enough
    <3> QED BY <2>2, <3>2, <3>3, <3>4 DEF VerifySignature
  <2>3. CASE NotEnoughVotes
    <3>1. /\ i > N /\ basic /\ UNCHANGED <<flags, signers, basic, i, tallied_voting_power>>
          /\ verdict' = IF Enough(tallied_voting_power) THEN "accepted" ELSE "refused"
      BY <2>3 DEF NotEnoughVotes
    <3>2. \A j \in 1..N : j < i
      BY <3>1, ValidatorSetAssumption
    <3>3. Tallied = ForBlock
      BY <3>2, ValidatorSetAssumption DEF Tallied, ForBlock
    <3>4. Tallied' = Tallied /\ ForBlock' = ForBlock
      BY <3>1 DEF Tallied, ForBlock
    <3> QED BY <3>1, <3>3, <3>4 DEF Enough
  <2>4. CASE UNCHANGED verifyVars
    BY <2>4 DEF verifyVars, Tallied, ForBlock, Enough
  <2> QED BY <2>1, <2>2, <2>3, <2>4 DEF VerifyNext
<1> QED BY <1>1, <1>2, PTL DEF VerifySpec

(* A commit that is accepted was signed by a quorum for its block.         *)
THEOREM AcceptedSigned == VerifySpec => []AcceptedIsSigned
<1>1. TallyInv => AcceptedIsSigned
  <2> SUFFICES ASSUME TallyInv, verdict = "accepted" PROVE basic /\ HasQuorum(ForBlock \cap signers)
    BY DEF AcceptedIsSigned
  <2>1. /\ Tallied \in SUBSET Validators /\ ForBlock \cap signers \in SUBSET Validators
        /\ Tallied \subseteq ForBlock \cap signers
    BY DEF Tallied, ForBlock, TallyInv
  <2>2. basic /\ Enough(Power[Tallied])
    BY DEF TallyInv
  <2>3. HasQuorum(Tallied)
    BY <2>1, <2>2, EnoughIsQuorum
  <2> QED BY <2>1, <2>2, <2>3, QuorumMonotone
<1> QED BY <1>1, TallyCorrect, PTL

(* A commit that a quorum signed is not refused.                           *)
THEOREM SignedAccepted == VerifySpec => []SignedIsAccepted
<1>1. TallyInv => SignedIsAccepted
  <2>1. ForBlock \in SUBSET Validators
    BY DEF ForBlock
  <2>2. Enough(Power[ForBlock]) <=> HasQuorum(ForBlock)
    BY <2>1, EnoughIsQuorum
  <2> QED BY <2>2 DEF TallyInv, SignedIsAccepted
<1> QED BY <1>1, TallyCorrect, PTL
==============================================================================
