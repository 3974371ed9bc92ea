----------------------------- MODULE NodeProofs ------------------------------
(***************************************************************************)
(* What is proved of one node, for every set of validators, voting powers, *)
(* rounds, blocks and parts: that NodeInv is an invariant of whatever      *)
(* messages and timeouts come, what it gives, and that the node implements *)
(* Validator.                                                              *)
(***************************************************************************)
EXTENDS NodeHandlers, FiniteSetTheorems

(* add_vote of a precommit of the last height                              *)
LEMMA AddLastPrecommitKeeps ==
  ASSUME NodeConstants, NEW m, NodeInv(m), NEW msg \in Votes
  PROVE  LET z == AddLastPrecommit(m, msg) IN NodeInv(z) /\ Handles(m, z)
<1> DEFINE res == AddVote(m.last_commit.votes, msg.val, msg.block)
           c == [round |-> m.last_commit.round, votes |-> res.vs]
           w == [m EXCEPT !.last_commit.votes = res.vs]
           z == AddLastPrecommit(m, msg)
<1>1. m \in NodeStates /\ m.last_commit \in [round: Rounds \cup {-1}, votes: VoteSets]
  BY FieldTypes DEF NodeInv
<1>2. res.vs \in VoteSets
  <2>1. m.last_commit.votes \in VoteSets /\ msg.val \in Validators /\ msg.block \in BlockIds
    BY ZenonT(60), <1>1 DEF Votes
  <2> QED BY ZenonT(60), <2>1, AddVoteKeeps
<1>3. c \in [round: Rounds \cup {-1}, votes: VoteSets]
  BY <1>1, <1>2
<1>4. w = [m EXCEPT !.last_commit = c]
  <2> DEFINE o == m.last_commit
  <2>1. c = [o EXCEPT !.votes = res.vs]
    BY <1>1
  <2>2. w = [m EXCEPT !.last_commit = [o EXCEPT !.votes = res.vs]]
    BY <1>1 DEF NodeStates
  <2> HIDE DEF c, w
  <2> QED BY ZenonT(60), <2>1, <2>2
<1>5. z \in {m, w, EnterNewRound(w, w.height, 0)}
  BY DEF AddLastPrecommit
<1> HIDE DEF c, w, z
<1>6. w \in NodeStates
  BY ZenonT(60), <1>1, <1>3, <1>4, LastCommitType
<1>7. /\ w.height = m.height /\ w.round = m.round /\ w.step = m.step
      /\ w.votes = m.votes /\ w.commit_round = m.commit_round
      /\ w.locked_round = m.locked_round /\ w.locked_block = m.locked_block
      /\ w.valid_round = m.valid_round /\ w.valid_block = m.valid_block
      /\ w.signed = m.signed /\ w.last_sign = m.last_sign /\ w.store = m.store /\ w.ticks = m.ticks
      /\ w.proposal_block = m.proposal_block /\ w.proposal_block_parts = m.proposal_block_parts
  BY ZenonT(60), <1>1, <1>4 DEF NodeStates
<1>8. NodeInv(w)
  <2>1. PartsInv(w) /\ SignedInv(w) /\ StoreInv(w) /\ RoundsInv(w) /\ PolkaInv(w)
    BY ZenonT(60), <1>7 DEF NodeInv, PartsInv, SignedInv, StoreInv, Committed, RoundsInv, PolkaInv
  <2>2. BackInv(w)
    BY ZenonT(60), <1>7 DEF NodeInv, BackInv, Back, Committed
  <2> QED BY ZenonT(60), <1>6, <2>1, <2>2 DEF NodeInv
<1>9. MayUnlock(m, w) /\ w.signed = m.signed
  BY <1>7 DEF MayUnlock, Grows
<1>10. 0 \in Rounds
  BY DEF Rounds, NodeConstants
<1>11. LET e == EnterNewRound(w, w.height, 0) IN NodeInv(e) /\ MayUnlock(m, e)
  BY ZenonT(60), <1>8, <1>9, <1>10, EnterNewRoundKeeps, MayUnlockThenPrevote
<1> QED BY ZenonT(60), <1>5, <1>8, <1>9, <1>11, PhasesReflexive, HandlesUnlock DEF z

(* try_add_vote                                                            *)
LEMMA TryAddVoteKeeps ==
  ASSUME NodeConstants, NEW m, NodeInv(m), Running(m), NEW msg \in Votes
  PROVE  LET z == TryAddVote(m, msg) IN NodeInv(z) /\ Handles(m, z)
<1> DEFINE r == msg.round
           res == HvsAddVote(m.votes, AnyPeer, r, msg.type, msg.val, msg.block)
           g == res.hvs
           w == [m EXCEPT !.votes = g]
           z == TryAddVote(m, msg)
<1>1. /\ m \in NodeStates /\ m.votes \in HeightVoteSets /\ r \in Rounds /\ r \in Int /\ msg.type \in VoteTypes
      /\ msg.val \in Validators /\ msg.block \in BlockIds /\ AnyPeer \in NodeIds
      /\ msg.height \in Nat /\ m.height \in Nat
  BY ZenonT(60), NumberTypes, FieldTypes, RoundTypes DEF NodeInv, Votes, NodeConstants, ConsensusConstants
<1>2. /\ g \in HeightVoteSets /\ g.round = m.votes.round /\ Grows(m.votes, g)
      /\ res.added => r \in DOMAIN g.sets
      /\ OnlyNew(m.votes, g, r, msg.type)
  BY <1>1, HvsAddVoteKeeps
<1> DEFINE added == res.added
<1>3. \/ z \in {m, w, AddLastPrecommit(m, msg)}
      \/ msg.type = "prevotes" /\ added /\ z = PrevoteAdded(w, r)
      \/ msg.type = "precommits" /\ added /\ z = PrecommitAdded(w, r)
  <2>1. CASE msg.height + 1 = m.height /\ msg.type = "precommits"
    <3>1. msg.height # m.height
      BY <1>1, <2>1
    <3> QED BY <2>1, <3>1 DEF TryAddVote
  <2>2. CASE msg.height # m.height /\ ~(msg.height + 1 = m.height /\ msg.type = "precommits")
    BY <2>2 DEF TryAddVote
  <2>3. CASE msg.height = m.height
    <3>1. msg.height + 1 # m.height
      BY <1>1, <2>3
    <3> QED BY ZenonT(60), <1>1, <2>3, <3>1 DEF TryAddVote, VoteTypes
  <2> QED BY ZenonT(60), <2>1, <2>2, <2>3
<1> HIDE DEF res, g, z
<1>4. 0..g.round \subseteq DOMAIN g.sets
  BY <1>2 DEF NodeInv, RoundsInv, Grows
<1>5. NodeInv(w) /\ Learns(m, w)
  BY ZenonT(60), <1>2, <1>4, VotesGrow
<1>6. w.votes = g /\ Running(w)
  BY <1>1 DEF NodeStates, Running
<1> HIDE DEF w
<1>7. CASE z = m
  BY ZenonT(60), <1>7, PhasesReflexive, HandlesQuiet DEF z
<1>8. CASE z = w
  BY ZenonT(60), <1>5, <1>8, LearnsIsMayUnlock, HandlesUnlock DEF z
<1>9. CASE z = AddLastPrecommit(m, msg)
  BY ZenonT(60), <1>9, AddLastPrecommitKeeps DEF z
<1>10. CASE msg.type = "prevotes" /\ added /\ z = PrevoteAdded(w, r)
  <2>1. NodeInv(z) /\ Handles(w, z) /\ z.height = w.height
    BY ZenonT(60), <1>1, <1>2, <1>5, <1>6, <1>10, PrevoteAddedKeeps
  <2> QED BY ZenonT(60), <1>5, <2>1, LearnsThenHandles DEF z
<1>11. CASE msg.type = "precommits" /\ added /\ z = PrecommitAdded(w, r)
  BY ZenonT(60), <1>1, <1>2, <1>5, <1>6, <1>11, PrecommitAddedKeeps DEF z
<1> QED BY ZenonT(60), <1>3, <1>7, <1>8, <1>9, <1>10, <1>11

(* handle_timeout                                                          *)
LEMMA HandleTimeoutKeeps ==
  ASSUME NodeConstants, NEW m, NodeInv(m), NEW ti \in Ticks,
         ti.height = m.height => ti.round \in DOMAIN m.votes.sets /\ (ti.round > m.round => Back(m)),
         ti.step = PrecommitWait => ti.round < MaxRound
  PROVE  LET z == HandleTimeout(m, ti) IN NodeInv(z) /\ Handles(m, z)
<1> DEFINE h == ti.height
           r == ti.round
           p == EnterPrecommit(m, h, r)
           z == HandleTimeout(m, ti)
<1>1. 0 \in Rounds /\ r \in Rounds /\ r \in Nat
  BY DEF Ticks, Rounds, NodeConstants
<1>2. \/ z = m
      \/ z = EnterNewRound(m, h, 0)
      \/ z = EnterPrevote(m, h, r)
      \/ z = p
      \/ ti.step = PrecommitWait /\ z = EnterNewRound(p, h, r + 1)
  <2>1. ti.step \in {NewHeight, Propose, PrevoteWait, PrecommitWait}
    BY ZenonT(60) DEF Ticks
  <2> QED BY <2>1 DEF HandleTimeout, NewHeight, NewRound, Propose, PrevoteWait, PrecommitWait
<1> HIDE DEF z
<1>3. CASE z = m
  BY ZenonT(60), <1>3, PhasesReflexive, HandlesQuiet DEF z
<1>4. CASE z = EnterNewRound(m, h, 0)
  BY ZenonT(60), <1>1, <1>4, EnterNewRoundKeeps, MayPrevoteIsMayUnlock, HandlesUnlock DEF z
<1>5. CASE z = EnterPrevote(m, h, r)
  BY ZenonT(60), <1>1, <1>5, EnterPrevoteKeeps, MayPrevoteIsMayUnlock, HandlesUnlock DEF z
<1>6. NodeInv(p) /\ MayPrecommit(m, p)
  BY ZenonT(60), <1>1, EnterPrecommitKeeps
<1> HIDE DEF p
<1>7. CASE z = p
  BY ZenonT(60), <1>6, <1>7, PhasesReflexive, HandlesPrecommit DEF z
<1>8. CASE ti.step = PrecommitWait /\ z = EnterNewRound(p, h, r + 1)
  <2>1. r + 1 \in Rounds /\ r + 1 # 0
    BY <1>1, <1>8 DEF Rounds, NodeConstants
  <2>2. NodeInv(z) /\ Quiet(p, z)
    BY ZenonT(60), <1>6, <1>8, <2>1, EnterNewRoundKeeps
  <2> QED BY ZenonT(60), <1>6, <2>2, PhasesReflexive, HandlesThenQuiet DEF z
<1> QED BY ZenonT(60), <1>2, <1>3, <1>4, <1>5, <1>7, <1>8

(* message_handler                                                         *)
LEMMA HandleKeeps ==
  ASSUME NodeConstants, CountsParts, NEW m, NodeInv(m), Running(m), NEW msg \in Votes \cup Proposals \cup Parts
  PROVE  LET z == Handle(m, msg) IN NodeInv(z) /\ Handles(m, z)
<1>1. CASE msg \in Votes
  <2>1. Handle(m, msg) = TryAddVote(m, msg)
    BY <1>1 DEF Handle, Votes
  <2> QED BY ZenonT(60), <1>1, <2>1, TryAddVoteKeeps
<1>2. CASE msg \in Proposals
  <2>1. Handle(m, msg) = SetProposal(m, msg)
    BY <1>2 DEF Handle, Proposals
  <2> QED BY ZenonT(60), <1>2, <2>1, SetProposalKeeps, HandlesQuiet
<1>3. CASE msg \in Parts
  <2>1. Handle(m, msg) = AddProposalBlockPart(m, msg)
    BY <1>3 DEF Handle, Parts
  <2> QED BY ZenonT(60), <1>3, <2>1, AddProposalBlockPartKeeps
<1> QED BY ZenonT(60), <1>1, <1>2, <1>3

(* A state that takes its next message or timeout is a state.              *)
LEMMA StartType ==
  ASSUME NEW y \in NodeStates, NEW t \in SUBSET Ticks, NEW q \in Seq(Votes \cup Proposals \cup Parts)
  PROVE  [y EXCEPT !.outcome = "ok", !.ticks = t, !.mq = q] \in NodeStates
BY ZenonT(60) DEF NodeStates

(* The state in which a handler starts.                                    *)
LEMMA StartKeeps ==
  ASSUME NodeConstants, NEW m, NodeInv(m), NEW t \in SUBSET m.ticks,
         NEW q \in Seq(Votes \cup Proposals \cup Parts)
  PROVE  LET z == [m EXCEPT !.outcome = "ok", !.ticks = t, !.mq = q] IN
         NodeInv(z) /\ Quiet(m, z) /\ Running(z)
<1> DEFINE z == [m EXCEPT !.outcome = "ok", !.ticks = t, !.mq = q]
<1>1. m \in NodeStates
  BY DEF NodeInv
<1>2. t \in SUBSET Ticks
  BY <1>1, FieldTypes
<1>3. z \in NodeStates
  BY ZenonT(60), <1>1, <1>2, StartType
<1>4. /\ SameCore(m, z) /\ z.ticks = t /\ z.outcome = "ok"
      /\ z.proposal_block = m.proposal_block /\ z.proposal_block_parts = m.proposal_block_parts
  BY ZenonT(60), <1>1 DEF NodeStates, SameCore
<1> HIDE DEF z
<1>5. PartsInv(z)
  BY <1>4 DEF NodeInv, PartsInv
<1> QED BY ZenonT(60), <1>3, <1>4, <1>5, SameCoreKeeps DEF Running, z

(* Every round has a proposer among the validators.                        *)
LEMMA ProposerType ==
  ASSUME NodeConstants, NEW k \in Nat
  PROVE  Proposer(k) \in Validators
<1>1. Proposers \in Seq(Validators) /\ Len(Proposers) \in Nat /\ Len(Proposers) > 0
  BY DEF NodeConstants, ConsensusConstants
<1>2. (k % Len(Proposers)) + 1 \in 1..Len(Proposers)
  BY <1>1
<1> QED BY <1>1, <1>2 DEF Proposer

(* The invariant holds for a node that starts (consensus_state::on_start). *)
LEMMA InitKeeps ==
  ASSUME NodeConstants, Init
  PROVE  NodeInv(n) /\ \E b \in Builds : Quiet(NewState(b), n)
<1> PICK b \in Builds : n = EnterNewRound(NewState(b), 1, 0)
  BY DEF Init
<1> DEFINE m == NewState(b)
<1>1. /\ NewHeightVoteSet \in HeightVoteSets /\ NewHeightVoteSet.round = 0
      /\ DOMAIN NewHeightVoteSet.sets = {0}
  BY NewHeightVoteSetType
<1>2. m \in NodeStates
  BY ZenonT(60), NewStateType
<1>3. /\ m.height = 1 /\ m.round = 0 /\ m.step = NewHeight /\ m.proposal = None /\ m.proposal_block = None
      /\ m.locked_block = None /\ m.valid_block = None /\ m.votes = NewHeightVoteSet
      /\ m.ticks = {} /\ m.store = <<>> /\ m.signed = {}
  BY DEF NewState
<1> HIDE DEF m
<1>4. NodeInv(m)
  <2>1. RoundsInv(m)
    BY <1>1, <1>3 DEF RoundsInv, NewHeight, Commit
  <2>2. PolkaInv(m) /\ PartsInv(m) /\ SignedInv(m) /\ BackInv(m)
    BY ZenonT(60), <1>3 DEF PolkaInv, PartsInv, SignedInv, BackInv
  <2>3. StoreInv(m)
    BY <1>3 DEF StoreInv
  <2> QED BY ZenonT(60), <1>2, <2>1, <2>2, <2>3 DEF NodeInv
<1>5. 0 \in Rounds
  BY DEF Rounds, NodeConstants
<1>6. NodeInv(n) /\ Quiet(m, n)
  BY ZenonT(60), <1>3, <1>4, <1>5, EnterNewRoundKeeps DEF m
<1> QED BY <1>6 DEF m

(* Every message, claim of a peer and timeout keeps the invariant, and     *)
(* does what a handler may.                                                *)
LEMMA NextKeeps ==
  ASSUME NodeConstants, CountsParts, NodeInv(n), Next
  PROVE  NodeInv(n') /\ Handles(n, n')
<1>1. /\ n \in NodeStates /\ n.mq \in Seq(Votes \cup Proposals \cup Parts) /\ n.ticks \in SUBSET n.ticks
      /\ n.ticks \subseteq Ticks
  BY FieldTypes DEF NodeInv
<1>2. NodeInv(Ready) /\ Quiet(n, Ready) /\ Running(Ready)
  <2>1. Ready = [n EXCEPT !.outcome = "ok", !.ticks = n.ticks, !.mq = n.mq]
    BY ZenonT(60), <1>1 DEF Ready, NodeStates
  <2> QED BY ZenonT(60), <1>1, <2>1, StartKeeps
<1>3. ASSUME NEW msg \in Votes \cup Proposals \cup Parts, n' = Handle(Ready, msg)
      PROVE  NodeInv(n') /\ Handles(n, n')
  BY ZenonT(60), <1>2, <1>3, HandleKeeps, QuietThenHandles
<1>4. Rounds \subseteq Nat /\ Heights \subseteq Nat
  BY DEF Rounds, Heights, NodeConstants
<1>5. ASSUME NEW h \in Heights, NEW r \in Rounds, NEW pol \in -1..MaxRound, NEW b \in Blocks,
             ReceiveProposal(h, r, pol, b)
      PROVE  NodeInv(n') /\ Handles(n, n')
  <2> DEFINE msg == [kind |-> "proposal", height |-> h, round |-> r, pol_round |-> pol,
                     block |-> b, val |-> Proposer(r)]
  <2>1. msg \in Proposals
    <3>1. pol \in Int /\ h \in Nat /\ Proposer(r) \in Validators
      BY <1>4, ProposerType DEF NodeConstants
    <3> QED BY <3>1 DEF Proposals
  <2>2. n' = Handle(Ready, msg)
    BY ZenonT(60), <1>5 DEF ReceiveProposal, Becomes
  <2> QED BY ZenonT(60), <1>3, <2>1, <2>2
<1>6. ASSUME NEW h \in Heights, NEW b \in Blocks, NEW i \in 1..NumParts, ReceiveBlockPart(h, b, i)
      PROVE  NodeInv(n') /\ Handles(n, n')
  <2> DEFINE msg == [kind |-> "part", height |-> h, block |-> b, index |-> i]
  <2>1. msg \in Parts
    BY <1>4 DEF Parts
  <2>2. n' = Handle(Ready, msg)
    BY ZenonT(60), <1>6 DEF ReceiveBlockPart, Becomes
  <2> QED BY ZenonT(60), <1>3, <2>1, <2>2
<1>7. ASSUME NEW h \in Heights, NEW r \in Rounds, NEW type \in VoteTypes, NEW v \in Validators,
             NEW b \in Ballots[v][r], ReceiveVote(h, r, type, v, b)
      PROVE  NodeInv(n') /\ Handles(n, n')
  <2> DEFINE msg == [kind |-> "vote", height |-> h, round |-> r, type |-> type, val |-> v, block |-> b]
  <2>1. msg \in Votes
    <3>1. b \in BlockIds
      BY ZenonT(60) DEF NodeConstants, Rounds
    <3> QED BY ZenonT(60), <1>4, <3>1 DEF Votes
  <2>2. n' = Handle(Ready, msg)
    BY <1>7 DEF ReceiveVote, Becomes
  <2> QED BY ZenonT(60), <1>3, <2>1, <2>2
<1>8. ASSUME NEW p \in Peers, NEW r \in Rounds, NEW type \in VoteTypes, NEW b \in BlockIds,
             PeerMaj23(p, r, type, b)
      PROVE  NodeInv(n') /\ Handles(n, n')
  <2> DEFINE g == HvsSetPeerMaj23(n.votes, p, r, type, b)
  <2>1. g \in HeightVoteSets /\ g.round = n.votes.round /\ Opens(n.votes, g)
    BY <1>1, <1>4, HvsSetPeerMaj23Keeps, FieldTypes
  <2>2. n' = [n EXCEPT !.votes = g]
    BY ZenonT(60), <1>1, <1>8 DEF PeerMaj23, Becomes, NodeStates
  <2> HIDE DEF g
  <2>3. 0..g.round \subseteq DOMAIN g.sets /\ Grows(n.votes, g)
    BY ZenonT(60), <2>1 DEF NodeInv, RoundsInv, Opens, Grows
  <2>4. NodeInv(n') /\ Quiet(n, n')
    BY ZenonT(60), <2>1, <2>2, <2>3, VotesGrow
  <2> QED BY ZenonT(60), <2>4, HandlesQuiet
<1>9. ASSUME HandleInternal
      PROVE  NodeInv(n') /\ Handles(n, n')
  <2> DEFINE y == [Ready EXCEPT !.mq = Tail(@)]
  <2>1. n.mq # <<>> /\ n' = Handle(y, Head(n.mq))
    BY <1>9 DEF HandleInternal, Becomes
  <2>2. Head(n.mq) \in Votes \cup Proposals \cup Parts /\ Tail(n.mq) \in Seq(Votes \cup Proposals \cup Parts)
    BY <1>1, <2>1
  <2>3. y = [n EXCEPT !.outcome = "ok", !.ticks = n.ticks, !.mq = Tail(n.mq)]
    BY ZenonT(60), <1>1 DEF Ready, NodeStates
  <2> HIDE DEF y
  <2>4. NodeInv(y) /\ Quiet(n, y) /\ Running(y)
    BY ZenonT(60), <1>1, <2>2, <2>3, StartKeeps
  <2> QED BY ZenonT(60), <2>1, <2>2, <2>4, HandleKeeps, QuietThenHandles
<1>10. ASSUME NEW ti \in n.ticks, Tock(ti)
       PROVE  NodeInv(n') /\ Handles(n, n')
  <2> DEFINE y == [Ready EXCEPT !.ticks = @ \ {ti}]
  <2>1. n' = HandleTimeout(y, ti) /\ (ti.step = PrecommitWait => ti.round < MaxRound)
    BY <1>10 DEF Tock
  <2>2. y = [n EXCEPT !.outcome = "ok", !.ticks = n.ticks \ {ti}, !.mq = n.mq]
    BY ZenonT(60), <1>1 DEF Ready, NodeStates
  <2>3. y.height = n.height /\ y.round = n.round /\ y.step = n.step /\ y.votes = n.votes
    BY <1>1 DEF Ready, NodeStates
  <2> HIDE DEF y
  <2>4. NodeInv(y) /\ Quiet(n, y)
    BY ZenonT(60), <1>1, <2>2, StartKeeps
  <2>5. ti \in Ticks /\ (ti.height = n.height =>
                           ti.round \in DOMAIN n.votes.sets /\ (ti.round > n.round => Back(n)))
    BY ZenonT(60), <1>1 DEF NodeInv, RoundsInv, BackInv
  <2>6. Back(n) => Back(y)
    BY ZenonT(60), <2>3 DEF Back, Committed
  <2>7. NodeInv(n') /\ Handles(y, n')
    BY ZenonT(60), <2>1, <2>3, <2>4, <2>5, <2>6, HandleTimeoutKeeps
  <2> QED BY ZenonT(60), <2>4, <2>7, QuietThenHandles
<1> QED BY ZenonT(60), <1>5, <1>6, <1>7, <1>8, <1>9, <1>10 DEF Next

(* The initial state.                                                      *)
LEMMA StartsNew ==
  ASSUME NodeConstants, Init
  PROVE  /\ ValOf(n) = V!NewVal
         /\ MajoritiesOf(n, "prevotes") = {} /\ CommitsOf(n) = {}
<1>1. PICK b \in Builds : Quiet(NewState(b), n)
  BY InitKeeps
<1>2. /\ n.height = 1 /\ n.signed = {} /\ n.locked_round = -1 /\ n.locked_block = None
      /\ Opens(NewHeightVoteSet, n.votes)
  BY ZenonT(60), <1>1 DEF Quiet, NewState
<1>3. \A t, r : Ballot(n.signed, t, r) = None
  <2>1. \A t, r : SignedFor(n.signed, t, r) = {}
    BY ZenonT(60), <1>2 DEF SignedFor
  <2> QED BY ZenonT(60), <2>1 DEF Ballot, BlockOf
<1>4. ValOf(n) = V!NewVal
  BY ZenonT(60), <1>2, <1>3 DEF ValOf, V!NewVal
<1>5. ASSUME NEW t \in VoteTypes PROVE MajoritiesOf(n, t) = {}
  <2>1. \A r \in DOMAIN NewHeightVoteSet.sets : NewHeightVoteSet.sets[r][t].maj23 = None
    BY ZenonT(60) DEF NewHeightVoteSet, NewRoundVoteSet, NewVoteSet
  <2>2. \A r \in DOMAIN n.votes.sets : n.votes.sets[r][t].maj23 = None
    BY <1>2, <2>1 DEF Opens
  <2> QED BY ZenonT(60), <2>2, BlockIdAssumption DEF MajoritiesOf
<1> QED BY <1>2, <1>4, <1>5 DEF CommitsOf, VoteTypes

-----------------------------------------------------------------------------
(* The theorems                                                            *)

(* Counting the parts a part_set has (is_complete) tells when they are all *)
(* there.                                                                  *)
LEMMA PartsCounted ==
  ASSUME NodeConstants
  PROVE  CountsParts
<1>1. IsFiniteSet(1..NumParts) /\ Cardinality(1..NumParts) = NumParts
  <2>1. 1 \in Int /\ NumParts \in Int /\ NumParts >= 1
    BY DEF NodeConstants, ConsensusConstants
  <2> QED BY <2>1, FS_Interval
<1> SUFFICES ASSUME NEW S \in SUBSET (1..NumParts), Cardinality(S) = NumParts PROVE S = 1..NumParts
  BY <1>1 DEF CountsParts
<1> QED BY <1>1, FS_Subset

(* NodeInv is an invariant of every node, whatever messages and timeouts   *)
(* come (handle_msg, handle_timeout), and in whatever order.               *)
THEOREM NodeInvariant ==
  ASSUME NodeConstants
  PROVE  Spec => []NodeInv(n)
<1>1. Init => NodeInv(n)
  BY InitKeeps
<1>2. NodeInv(n) /\ [Next]_n => NodeInv(n)'
  <2>1. ASSUME NodeInv(n), Next PROVE NodeInv(n)'
    BY <2>1, NextKeeps, PartsCounted
  <2>2. ASSUME NodeInv(n), UNCHANGED n PROVE NodeInv(n)'
    BY <2>2
  <2> QED BY <2>1, <2>2
<1> QED BY <1>1, <1>2, PTL DEF Spec

(* A node that is locked holds the majority of prevotes it locked on       *)
(* (enter_precommit, and the unlocking in add_vote), across rounds,        *)
(* commits that set its round back, and heights.                           *)
THEOREM LocksHavePolka ==
  ASSUME NodeConstants
  PROVE  Spec => []LockHasPolka
<1>1. NodeInv(n) => LockHasPolka
  BY DEF NodeInv, PolkaInv, LockHasPolka
<1> QED BY <1>1, NodeInvariant, PTL

(* The valid block, which decide_proposal proposes again, has a majority   *)
(* of prevotes in the valid round (add_vote, add_proposal_block_part).     *)
THEOREM ValidBlocksHavePolka ==
  ASSUME NodeConstants
  PROVE  Spec => []ValidHasPolka
<1>1. NodeInv(n) => ValidHasPolka
  BY DEF NodeInv, PolkaInv, ValidHasPolka
<1> QED BY <1>1, NodeInvariant, PTL

(* The proposal block is that of proposal_block_parts, and all of its      *)
(* parts are there, wherever one of the two is replaced (set_proposal,     *)
(* add_proposal_block_part, add_vote, enter_precommit, enter_commit).      *)
THEOREM BlocksMatchParts ==
  ASSUME NodeConstants
  PROVE  Spec => []BlockMatchesParts
<1>1. NodeInv(n) => BlockMatchesParts
  <2>1. Cardinality(1..NumParts) = NumParts
    BY PartsCounted DEF CountsParts
  <2> QED BY <2>1 DEF NodeInv, PartsInv, BlockMatchesParts, IsComplete
<1> QED BY <1>1, NodeInvariant, PTL

(* The node implements Validator: at the first height every handler votes, *)
(* locks and decides by the rules of ValidatorRules, from which            *)
(* TendermintProofs proves agreement.                                      *)
THEOREM NodeKeepsPromise ==
  ASSUME NodeConstants
  PROVE  Spec => KeepsPromise
<1>1. /\ AbstractVal = ValOf(n) /\ Majorities("prevotes") = MajoritiesOf(n, "prevotes")
      /\ AbstractCommits = CommitsOf(n)
  BY DEF AbstractVal, SignedAt, ValOf, Ballot, BlockOf, SignedFor, Majorities, MajoritiesOf, AbstractCommits, CommitsOf
<1>2. Init => V!Init
  BY <1>1, StartsNew DEF V!Init
<1>3. ASSUME NodeInv(n), NodeInv(n)', [Next]_n PROVE [V!Next]_(V!vars)
  <2>1. CASE UNCHANGED n
    BY <2>1 DEF V!vars, AbstractVal, SignedAt, Majorities, AbstractCommits
  <2>2. CASE Next
    <3>1. Handles(n, n') /\ NodeInv(n')
      BY <1>3, <2>2, NextKeeps, PartsCounted
    <3>2. Implements(n, n')
      BY <1>3, <3>1, StaysAtFirstHeight, LeavesFirstHeight, AfterFirstHeight
    <3>3. /\ AbstractVal' = ValOf(n') /\ Majorities("prevotes")' = MajoritiesOf(n', "prevotes")
          /\ AbstractCommits' = CommitsOf(n')
      BY DEF AbstractVal, SignedAt, ValOf, Ballot, BlockOf, SignedFor, Majorities, MajoritiesOf, AbstractCommits, CommitsOf
    <3> QED BY <1>1, <3>2, <3>3 DEF Implements, V!Next, V!See
  <2> QED BY <1>3, <2>1, <2>2
<1> QED BY <1>2, <1>3, NodeInvariant, PTL DEF Spec, KeepsPromise, V!Spec
===============================================================================
