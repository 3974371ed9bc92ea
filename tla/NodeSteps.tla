------------------------------ MODULE NodeSteps ------------------------------
(***************************************************************************)
(* One node: its inductive invariant NodeInv, what a handler may do        *)
(* (Handles), that a handler which does no more is a step of Validator,    *)
(* and that each step of a round (enter_new_round, enter_propose,          *)
(* enter_prevote, enter_precommit and the waits) keeps NodeInv.  With it   *)
(* each lemma says what the step may sign and what becomes of the lock     *)
(* (Quiet, MayPrevote, MayPrecommit), which is what the handlers in        *)
(* NodeHandlers are put together from.                                     *)
(***************************************************************************)
EXTENDS ConsensusNode

(* Messages of the queue, votes signed, timeouts and the votes of a height. *)
Votes == [kind: {"vote"}, height: Nat, round: Rounds, type: VoteTypes,
          val: Validators, block: BlockIds]
Proposals == [kind: {"proposal"}, height: Nat, round: Rounds, pol_round: Int,
              block: Blocks, val: Validators]
Parts == [kind: {"part"}, height: Nat, block: Blocks, index: 1..NumParts]
Stamps == [height: Nat, round: Nat, step: Nat]
Ticks == [height: Nat, round: Rounds, step: {NewHeight, Propose, PrevoteWait, PrecommitWait}]
RoundVoteSets == UNION {[D -> [VoteTypes -> VoteSets]] : D \in SUBSET Int}
HeightVoteSets == [round: Nat, sets: RoundVoteSets, catchup: [NodeIds -> Seq(Int)]]

NodeStates ==
  [height: Nat \ {0}, round: Rounds, step: NewHeight..Commit, rotation: Int,
   proposal: [pol_round: Int, block: Blocks] \cup {None},
   proposal_block: Blocks \cup {None},
   proposal_block_parts: [header: Blocks \cup {None}, have: SUBSET (1..NumParts)],
   locked_round: Rounds \cup {-1}, locked_block: Blocks \cup {None},
   valid_round: Rounds \cup {-1}, valid_block: Blocks \cup {None},
   votes: HeightVoteSets, commit_round: Rounds \cup {-1},
   last_commit: [round: Rounds \cup {-1}, votes: VoteSets],
   triggered_timeout_precommit: BOOLEAN,
   old_ti: Stamps, ticks: SUBSET Ticks,
   mq: Seq(Votes \cup Proposals \cup Parts), last_sign: Stamps,
   store: Seq(Blocks), signed: SUBSET Votes,
   build: {"checked", "optimised"}, outcome: {"ok", "threw", "dead"}]

(* The votes g come after h: no round is lost, no majority changes.        *)
Grows(h, g) ==
  /\ DOMAIN h.sets \subseteq DOMAIN g.sets
  /\ \A r \in DOMAIN h.sets, t \in VoteTypes :
        h.sets[r][t].maj23 # None => g.sets[r][t].maj23 = h.sets[r][t].maj23

(* ... and no new majority.                                                *)
Opens(h, g) ==
  /\ Grows(h, g)
  /\ \A r \in DOMAIN g.sets, t \in VoteTypes : g.sets[r][t].maj23 # None =>
        r \in DOMAIN h.sets /\ h.sets[r][t].maj23 = g.sets[r][t].maj23

(* Votes are added one call after the other.                               *)
LEMMA GrowsTransitive ==
  ASSUME NEW h, NEW g, NEW k, Grows(h, g), Grows(g, k)
  PROVE  Grows(h, k)
BY DEF Grows

-----------------------------------------------------------------------------
(* The inductive invariant, of a node state m between two calls.           *)

(* The round of the node, and those of its timeouts, have vote sets.       *)
RoundsInv(m) ==
  /\ 0..m.votes.round \subseteq DOMAIN m.votes.sets
  /\ m.round \in DOMAIN m.votes.sets
  /\ m.step = Commit => m.commit_round \in Rounds /\ m.commit_round \in DOMAIN m.votes.sets
  /\ \A t \in m.ticks :
        t.height <= m.height /\ (t.height = m.height => t.round \in DOMAIN m.votes.sets)

(* Locks and valid blocks have polkas.                                     *)
PolkaInv(m) ==
  /\ m.locked_block # None =>
       /\ m.locked_round \in DOMAIN m.votes.sets
       /\ Prevotes(m.votes, m.locked_round).maj23 = m.locked_block
  /\ m.valid_block # None =>
       /\ m.valid_round \in DOMAIN m.votes.sets
       /\ Prevotes(m.votes, m.valid_round).maj23 = m.valid_block

(* A proposal block is whole.                                              *)
PartsInv(m) ==
  m.proposal_block # None =>
    m.proposal_block_parts = [header |-> m.proposal_block, have |-> 1..NumParts]

(* Nothing was signed after last_sign.                                     *)
Stamp(v) == [height |-> v.height, round |-> v.round, step |-> SignStep(v.type)]
SignedInv(m) == \A v \in m.signed : ~Later(Stamp(v), m.last_sign)

(* A block was committed in a round the node has come back to, or is past. *)
Committed(m, r) == r \in DOMAIN m.votes.sets /\ Precommits(m.votes, r).maj23 \in Blocks
Back(m) ==
  \E q \in Rounds : Committed(m, q) /\ (q < m.round \/ (q = m.round /\ m.step = Commit))

(* Only then is it locked in a later round than its own, or waits for the  *)
(* timeout of one.                                                         *)
BackInv(m) ==
  /\ m.locked_block # None /\ m.locked_round > m.round => Back(m)
  /\ \A t \in m.ticks : t.height = m.height /\ t.round > m.round => Back(m)

(* A block is saved for every height before this one; one saved for this   *)
(* height has a majority of precommits.                                    *)
StoreInv(m) ==
  /\ Len(m.store) \in {m.height - 1, m.height}
  /\ Len(m.store) = m.height =>
       \E q \in Rounds : Committed(m, q) /\ Precommits(m.votes, q).maj23 = m.store[m.height]

NodeInv(m) ==
  /\ m \in NodeStates
  /\ RoundsInv(m) /\ PolkaInv(m) /\ PartsInv(m) /\ SignedInv(m) /\ BackInv(m) /\ StoreInv(m)

(* The rounds of the model are numbers, and 0 is one.                      *)
LEMMA RoundTypes ==
  ASSUME NodeConstants
  PROVE  Rounds \subseteq Nat /\ Rounds \subseteq Int /\ 0 \in Rounds
BY DEF Rounds, NodeConstants

(* Where a node is (round_state): numbers.                                 *)
LEMMA NumberTypes ==
  ASSUME NodeConstants, NEW m \in NodeStates
  PROVE  /\ m.height \in Nat /\ m.height # 0
         /\ m.round \in Rounds /\ m.round \in Nat
         /\ m.step \in NewHeight..Commit /\ m.step \in Int /\ m.rotation \in Int
         /\ m.locked_round \in Rounds \cup {-1} /\ m.locked_round \in Int
         /\ m.valid_round \in Rounds \cup {-1} /\ m.valid_round \in Int
         /\ m.commit_round \in Rounds \cup {-1}
<1>1. /\ m.height \in Nat \ {0} /\ m.round \in Rounds /\ m.step \in NewHeight..Commit /\ m.rotation \in Int
      /\ m.locked_round \in Rounds \cup {-1} /\ m.valid_round \in Rounds \cup {-1}
      /\ m.commit_round \in Rounds \cup {-1}
  BY ZenonT(60) DEF NodeStates
<1> QED BY <1>1, RoundTypes DEF NewHeight, Commit

(* What it holds: blocks, parts, votes, timeouts, messages, a store.       *)
LEMMA FieldTypes ==
  ASSUME NEW m \in NodeStates
  PROVE  /\ m.proposal_block \in Blocks \cup {None} /\ m.valid_block \in Blocks \cup {None}
         /\ m.proposal_block_parts \in [header: Blocks \cup {None}, have: SUBSET (1..NumParts)]
         /\ m.locked_block \in Blocks \cup {None}
         /\ m.votes \in HeightVoteSets
         /\ m.last_commit \in [round: Rounds \cup {-1}, votes: VoteSets]
         /\ m.ticks \in SUBSET Ticks /\ m.last_sign \in Stamps
         /\ m.mq \in Seq(Votes \cup Proposals \cup Parts)
         /\ m.store \in Seq(Blocks) /\ m.signed \in SUBSET Votes
BY ZenonT(60) DEF NodeStates

-----------------------------------------------------------------------------

(* What a handler does, as phases: it may learn of votes, unlock and sign  *)
(* a prevote; then sign a precommit; then save the block and go on to the  *)
(* next height, where it may sign further.                                 *)

Polka(m, q, b) == q \in DOMAIN m.votes.sets /\ Prevotes(m.votes, q).maj23 = b

(* A block was committed in a round before q.                              *)
ReturnedTo(m, q) == \E p \in Rounds : p < q /\ Committed(m, p)

(* A polka known to y is later than the lock of m, and for something else. *)
Outvoted(m, y) ==
  \E q \in Rounds, b \in BlockIds :
     Polka(y, q, b) /\ q > m.locked_round /\ b # m.locked_block

MayUnlock(m, y) ==
  /\ y.height = m.height /\ y.store = m.store /\ Grows(m.votes, y.votes)
  /\ \/ y.locked_round = m.locked_round /\ y.locked_block = m.locked_block
     \/ y.locked_block = None /\ Outvoted(m, y)
  /\ \/ y.signed = m.signed
     \/ \E v \in Votes :
          /\ y.signed = m.signed \cup {v}
          /\ v.height = m.height /\ v.type = "prevotes"
          /\ \A u \in m.signed : Later(Stamp(v), Stamp(u))
          /\ m.locked_block \in {None, v.block} \/ Outvoted(m, y)

(* A precommit for a block has a polka, of its round or of a later one     *)
(* that was left for a commit, and leaves a lock.                          *)
Backed(m, z, v) ==
  v.block # Nil =>
    \E q \in Rounds :
       /\ q = v.round \/ (q > v.round /\ ReturnedTo(m, q))
       /\ Polka(m, q, v.block)
       /\ z.locked_block = v.block /\ z.locked_round = q

(* The lock is kept, or yields to a polka.                                 *)
Yields(m, z) ==
  \/ m.locked_block = None
  \/ z.locked_block = m.locked_block /\ z.locked_round >= m.locked_round
  \/ \E q \in Rounds, b \in BlockIds :
        /\ Polka(m, q, b)
        /\ \/ q > m.locked_round /\ b # m.locked_block
           \/ ReturnedTo(m, q) /\ (b # m.locked_block \/ (z.locked_block = b /\ z.locked_round = q))

MayPrecommit(m, z) ==
  /\ z.height = m.height /\ z.store = m.store /\ Grows(m.votes, z.votes)
  /\ Yields(m, z)
  /\ \/ z.signed = m.signed
     \/ \E v \in Votes :
          /\ z.signed = m.signed \cup {v}
          /\ v.height = m.height /\ v.type = "precommits"
          /\ \A u \in m.signed : Later(Stamp(v), Stamp(u))
          /\ Backed(m, z, v)

(* Blocks that are saved stay.                                             *)
StoreKept(m, z) ==
  Len(m.store) <= Len(z.store) /\ \A i \in 1..Len(m.store) : z.store[i] = m.store[i]

MayEnd(x, z) ==
  /\ StoreKept(x, z)
  /\ \/ /\ z.height = x.height /\ z.signed = x.signed /\ Grows(x.votes, z.votes)
        /\ z.locked_round = x.locked_round /\ z.locked_block = x.locked_block
     \/ /\ z.height = x.height + 1
        /\ x.signed \subseteq z.signed
        /\ \A v \in z.signed \ x.signed : v.height = z.height
        /\ z.last_commit.round \in Rounds /\ z.last_commit.votes.maj23 \in Blocks
        /\ Len(x.store) = x.height \/ z.store[x.height] = z.last_commit.votes.maj23

(* Before it goes on, a handler learns of no polka, and of no other commit *)
(* than the one it goes on with.                                           *)
Known(m, y, z) ==
  /\ \A q \in Rounds, b \in BlockIds : Polka(y, q, b) => Polka(m, q, b)
  /\ \A q \in Rounds : Committed(y, q) => Committed(m, q) \/ q = z.last_commit.round

Handles(m, z) ==
  \E y, x : /\ MayUnlock(m, y) /\ MayPrecommit(y, x) /\ MayEnd(x, z)
            /\ z.height # m.height => Known(m, y, z)

-----------------------------------------------------------------------------
(* The node implements Validator.                                          *)

(* The abstract state of a node m.                                         *)
SignedFor(S, t, r) == {v \in S : v.height = 1 /\ v.round = r /\ v.type = t}
BlockOf(vs) == IF vs = {} THEN None ELSE (CHOOSE v \in vs : TRUE).block
Ballot(S, t, r) == BlockOf(SignedFor(S, t, r))

ValOf(m) ==
  [prevote |-> [r \in Rounds |-> Ballot(m.signed, "prevotes", r)],
   precommit |-> [r \in Rounds |-> Ballot(m.signed, "precommits", r)],
   locked_round |-> IF m.height = 1 THEN m.locked_round ELSE -1,
   locked_block |-> IF m.height = 1 THEN m.locked_block ELSE None,
   decided |-> IF m.height = 1 THEN None ELSE m.store[1]]

MajoritiesOf(m, t) ==
  IF m.height = 1
  THEN {p \in Rounds \X BlockIds : p[1] \in DOMAIN m.votes.sets /\ m.votes.sets[p[1]][t].maj23 = p[2]}
  ELSE {}

CommitsOf(m) ==
  IF m.height = 2 THEN {<<m.last_commit.round, m.last_commit.votes.maj23>>}
  ELSE MajoritiesOf(m, "precommits")

(* The vote of a round is a block id, or there is none.                    *)
LEMMA BallotType ==
  ASSUME NEW S \in SUBSET Votes, NEW t, NEW r
  PROVE  /\ Ballot(S, t, r) \in BlockIds \cup {None}
         /\ Ballot(S, t, r) = None <=> SignedFor(S, t, r) = {}
<1>1. CASE SignedFor(S, t, r) = {}
  BY <1>1 DEF Ballot, BlockOf
<1>2. CASE SignedFor(S, t, r) # {}
  <2>1. PICK v \in SignedFor(S, t, r) : v = CHOOSE u \in SignedFor(S, t, r) : TRUE
    BY <1>2
  <2>2. v.block \in BlockIds
    BY <2>1 DEF SignedFor, Votes
  <2> QED BY <1>2, <2>1, <2>2, BlockIdAssumption DEF Ballot, BlockOf
<1> QED BY <1>1, <1>2

(* A vote that is signed after all others changes no other vote.           *)
LEMMA AddedVote ==
  ASSUME NodeConstants, NEW S \in SUBSET Votes, NEW v \in Votes, v.height = 1,
         \A u \in S : Later(Stamp(v), Stamp(u))
  PROVE  /\ \A q \in Rounds, t \in VoteTypes : q > v.round => Ballot(S, t, q) = None
         /\ Ballot(S, v.type, v.round) = None
         /\ v.type = "prevotes" => Ballot(S, "precommits", v.round) = None
         /\ Ballot(S \cup {v}, v.type, v.round) = v.block
<1>1. v.round \in Int /\ v.type \in VoteTypes /\ Rounds \subseteq Int
  BY DEF Votes, Rounds, NodeConstants
<1>2. ASSUME NEW u \in S, u.height = 1
      PROVE  /\ u.round <= v.round
             /\ u.round = v.round => SignStep(v.type) > SignStep(u.type)
  <2>1. u.round \in Int /\ u.type \in VoteTypes
    BY DEF Votes, Rounds, NodeConstants
  <2>2. Later(Stamp(v), Stamp(u))
    OBVIOUS
  <2>3. SignStep(v.type) \in Int /\ SignStep(u.type) \in Int
    BY <1>1, <2>1 DEF SignStep, VoteTypes
  <2> QED BY <1>1, <1>2, <2>1, <2>2, <2>3 DEF Later, Stamp
<1>3. ASSUME NEW q \in Rounds, NEW t \in VoteTypes, q > v.round PROVE Ballot(S, t, q) = None
  <2>1. SignedFor(S, t, q) = {}
    BY <1>1, <1>2, <1>3 DEF SignedFor
  <2> QED BY <2>1 DEF Ballot, BlockOf
<1>4. ASSUME NEW t \in VoteTypes, ~(SignStep(v.type) > SignStep(t)) PROVE Ballot(S, t, v.round) = None
  <2>1. SignedFor(S, t, v.round) = {}
    BY <1>2, <1>4 DEF SignedFor
  <2> QED BY <2>1 DEF Ballot, BlockOf
<1>5. Ballot(S, v.type, v.round) = None /\ SignedFor(S, v.type, v.round) = {}
  <2>1. ~(SignStep(v.type) > SignStep(v.type))
    BY <1>1 DEF SignStep, VoteTypes
  <2> QED BY <1>1, <1>4, <2>1, BallotType
<1>6. v.type = "prevotes" => Ballot(S, "precommits", v.round) = None
  BY <1>4 DEF SignStep, VoteTypes
<1>7. SignedFor(S \cup {v}, v.type, v.round) = {v}
  BY <1>5 DEF SignedFor
<1>8. Ballot(S \cup {v}, v.type, v.round) = v.block
  BY <1>7 DEF Ballot, BlockOf
<1> QED BY <1>3, <1>5, <1>6, <1>8

(* Signing a vote changes no vote of another round or type.                *)
LEMMA OtherBallots ==
  ASSUME NEW S, NEW v, NEW t, NEW q, v.height # 1 \/ v.round # q \/ v.type # t
  PROVE  Ballot(S \cup {v}, t, q) = Ballot(S, t, q)
<1>1. SignedFor(S \cup {v}, t, q) = SignedFor(S, t, q)
  BY DEF SignedFor
<1> QED BY <1>1 DEF Ballot

(* A node that is at a later height than the first has decided.            *)
LEMMA ValType ==
  ASSUME NodeConstants, NEW m, NodeInv(m)
  PROVE  /\ ValOf(m) \in V!Vals
         /\ m.height # 1 => ValOf(m).decided \in Blocks
<1>1. m \in NodeStates /\ m.signed \in SUBSET Votes /\ Blocks \subseteq BlockIds
  BY FieldTypes DEF NodeInv, NodeConstants, ConsensusConstants
<1>2. m.height # 1 => m.store[1] \in Blocks
  <2>1. m.store \in Seq(Blocks) /\ m.height \in Nat \ {0} /\ Len(m.store) \in {m.height - 1, m.height}
    BY <1>1, NumberTypes, FieldTypes DEF NodeInv, StoreInv
  <2>2. Len(m.store) \in Nat
    BY <2>1
  <2>3. m.height # 1 => 1 \in 1..Len(m.store)
    BY <2>1, <2>2
  <2> QED BY <2>1, <2>3
<1>3. \A t \in VoteTypes : [r \in Rounds |-> Ballot(m.signed, t, r)] \in [Rounds -> BlockIds \cup {None}]
  BY <1>1, BallotType
<1>4. /\ [r \in Rounds |-> Ballot(m.signed, "prevotes", r)] \in [Rounds -> BlockIds \cup {None}]
      /\ [r \in Rounds |-> Ballot(m.signed, "precommits", r)] \in [Rounds -> BlockIds \cup {None}]
  BY <1>3 DEF VoteTypes
<1>5. m.locked_round \in Rounds \cup {-1} /\ m.locked_block \in BlockIds \cup {None}
  BY <1>1, NumberTypes, FieldTypes
<1> QED BY <1>1, <1>2, <1>4, <1>5 DEF ValOf, V!Vals, V!Ids

(* A prevote is the only vote of the first phase, a precommit that of the second. *)
LEMMA PhasesSign ==
  ASSUME NodeConstants, NEW m, NodeInv(m), NEW y, NEW x, MayUnlock(m, y), MayPrecommit(y, x)
  PROVE  /\ m.signed \in SUBSET Votes /\ y.signed \in SUBSET Votes /\ m.signed \subseteq y.signed
         /\ \A r : Ballot(y.signed, "precommits", r) = Ballot(m.signed, "precommits", r)
         /\ \A r : Ballot(x.signed, "prevotes", r) = Ballot(y.signed, "prevotes", r)
         /\ m.height # 1 => \A t, r : Ballot(x.signed, t, r) = Ballot(m.signed, t, r)
<1>1. m.signed \in SUBSET Votes
  BY FieldTypes DEF NodeInv
<1>2. \/ y.signed = m.signed
      \/ \E v \in Votes : y.signed = m.signed \cup {v} /\ v.type = "prevotes" /\ v.height = m.height
  BY DEF MayUnlock
<1>3. \/ x.signed = y.signed
      \/ \E v \in Votes : x.signed = y.signed \cup {v} /\ v.type = "precommits" /\ v.height = m.height
  BY DEF MayUnlock, MayPrecommit
<1>4. y.signed \in SUBSET Votes /\ m.signed \subseteq y.signed
  BY <1>1, <1>2
<1>5. /\ \A r : Ballot(y.signed, "precommits", r) = Ballot(m.signed, "precommits", r)
      /\ m.height # 1 => \A t, r : Ballot(y.signed, t, r) = Ballot(m.signed, t, r)
  BY <1>2, OtherBallots
<1>6. /\ \A r : Ballot(x.signed, "prevotes", r) = Ballot(y.signed, "prevotes", r)
      /\ m.height # 1 => \A t, r : Ballot(x.signed, t, r) = Ballot(y.signed, t, r)
  BY <1>3, OtherBallots
<1> QED BY <1>1, <1>4, <1>5, <1>6

(* The votes of z at the first height are those of x.                      *)
SameBallots(x, z) == \A r \in Rounds, t \in VoteTypes : Ballot(z.signed, t, r) = Ballot(x.signed, t, r)

(* The sets P and C have every polka of y, and a commit for its committed rounds. *)
Shows(y, P, C) ==
  /\ \A q \in Rounds, b \in BlockIds : Polka(y, q, b) => <<q, b>> \in P
  /\ \A p \in Rounds : Committed(y, p) => \E c \in Blocks : <<p, c>> \in C

(* z has decided, or has the lock of x.                                    *)
DecidedOrLocked(x, z) ==
  \/ ValOf(z).decided # None
  \/ z.height = 1 /\ z.locked_round = x.locked_round /\ z.locked_block = x.locked_block

(* The phases of a handler keep the rule for prevotes: one is signed once, *)
(* in order, and for the lock unless that was outvoted.                    *)
LEMMA KeepsPrevoteRule ==
  ASSUME NodeConstants, NEW m, NodeInv(m), m.height = 1, NEW y, NEW x, MayUnlock(m, y), MayPrecommit(y, x),
         NEW z, SameBallots(x, z), NEW P, NEW C, Shows(y, P, C)
  PROVE  V!PrevoteRule(ValOf(m), ValOf(z), P)
<1> DEFINE w == ValOf(m)
<1>1. /\ w.decided = None /\ w.locked_block = m.locked_block /\ w.locked_round = m.locked_round
      /\ \A r \in Rounds : /\ w.prevote[r] = Ballot(m.signed, "prevotes", r)
                           /\ w.precommit[r] = Ballot(m.signed, "precommits", r)
  BY DEF ValOf
<1>2. \A r \in Rounds : ValOf(z).prevote[r] = Ballot(y.signed, "prevotes", r)
  BY PhasesSign DEF ValOf, SameBallots, VoteTypes
<1>3. Outvoted(m, y) => V!Superseded(w, P)
  BY <1>1 DEF Outvoted, Shows, V!Superseded
<1> HIDE DEF w
<1> SUFFICES ASSUME NEW r \in Rounds, Ballot(y.signed, "prevotes", r) # Ballot(m.signed, "prevotes", r)
             PROVE  /\ w.prevote[r] = None /\ w.precommit[r] = None /\ V!NoVoteAfter(w, r)
                    /\ w.locked_block \in {None, ValOf(z).prevote[r]} \/ V!Superseded(w, P)
  BY ZenonT(60), <1>1, <1>2 DEF V!PrevoteRule, w
<1>4. PICK v \in Votes : /\ y.signed = m.signed \cup {v}
                         /\ v.height = 1 /\ v.type = "prevotes"
                         /\ \A u \in m.signed : Later(Stamp(v), Stamp(u))
                         /\ m.locked_block \in {None, v.block} \/ Outvoted(m, y)
  BY DEF MayUnlock
<1>5. v.round = r
  BY <1>4, OtherBallots
<1>6. m.signed \in SUBSET Votes
  BY PhasesSign
<1>7. /\ \A q \in Rounds, t \in VoteTypes : q > r => Ballot(m.signed, t, q) = None
      /\ Ballot(m.signed, "prevotes", r) = None
      /\ Ballot(m.signed, "precommits", r) = None
      /\ Ballot(y.signed, "prevotes", r) = v.block
  BY ZenonT(60), <1>4, <1>5, <1>6, AddedVote
<1>8. V!NoVoteAfter(w, r)
  BY <1>1, <1>7 DEF V!NoVoteAfter, VoteTypes
<1> QED BY ZenonT(60), <1>1, <1>2, <1>3, <1>4, <1>7, <1>8

(* They keep the rule for precommits: one for a block has a polka of its   *)
(* round, or of a later round that was left for a commit, and leaves the   *)
(* node locked or decided.                                                 *)
LEMMA KeepsPrecommitRule ==
  ASSUME NodeConstants, NEW m, NodeInv(m), m.height = 1, NEW y, NEW x, MayUnlock(m, y), MayPrecommit(y, x),
         NEW z, SameBallots(x, z), DecidedOrLocked(x, z), NEW P, NEW C, Shows(y, P, C)
  PROVE  V!PrecommitRule(ValOf(m), ValOf(z), P, C)
<1> DEFINE w == ValOf(m)
           u == ValOf(z)
<1>1. /\ w.decided = None
      /\ \A r \in Rounds : /\ w.prevote[r] = Ballot(m.signed, "prevotes", r)
                           /\ w.precommit[r] = Ballot(y.signed, "precommits", r)
  BY PhasesSign DEF ValOf
<1>2. \A r \in Rounds : /\ u.prevote[r] = Ballot(y.signed, "prevotes", r)
                        /\ u.precommit[r] = Ballot(x.signed, "precommits", r)
  BY PhasesSign DEF ValOf, SameBallots, VoteTypes
<1>3. \A q \in Rounds : ReturnedTo(y, q) => V!Returned(q, C)
  BY ZenonT(60), BlockIdAssumption DEF ReturnedTo, Shows, V!Returned, NodeConstants, ConsensusConstants
<1>4. u.decided # None \/ (u.locked_block = x.locked_block /\ u.locked_round = x.locked_round)
  BY DEF ValOf, DecidedOrLocked
<1> HIDE DEF w, u
<1> SUFFICES V!PrecommitRule(w, u, P, C)
  BY DEF w, u
<1> SUFFICES ASSUME NEW r \in Rounds, Ballot(x.signed, "precommits", r) # Ballot(y.signed, "precommits", r)
             PROVE  /\ w.precommit[r] = None /\ V!NoVoteAfter(w, r)
                    /\ \A q \in Rounds : q > r => u.prevote[q] = None
                    /\ u.precommit[r] # Nil =>
                         \E q \in Rounds :
                            /\ q = r \/ (q > r /\ V!Returned(q, C))
                            /\ <<q, u.precommit[r]>> \in P
                            /\ \/ u.locked_block = u.precommit[r] /\ u.locked_round = q
                               \/ u.decided # None
  BY ZenonT(60), <1>1, <1>2 DEF V!PrecommitRule
<1>5. PICK v \in Votes : /\ x.signed = y.signed \cup {v}
                         /\ v.height = 1 /\ v.type = "precommits"
                         /\ \A s \in y.signed : Later(Stamp(v), Stamp(s))
                         /\ Backed(y, x, v)
  BY DEF MayPrecommit, MayUnlock
<1>6. v.round = r /\ v.block \in BlockIds
  BY <1>5, OtherBallots DEF Votes
<1>7. y.signed \in SUBSET Votes /\ m.signed \in SUBSET Votes /\ m.signed \subseteq y.signed
  BY PhasesSign
<1>8. /\ \A q \in Rounds, t \in VoteTypes : q > r => Ballot(y.signed, t, q) = None
      /\ Ballot(y.signed, "precommits", r) = None
      /\ Ballot(x.signed, "precommits", r) = v.block
  BY ZenonT(60), <1>5, <1>6, <1>7, AddedVote
<1>9. \A q \in Rounds : q > r => Ballot(m.signed, "prevotes", q) = None
  <2>1. \A q : SignedFor(m.signed, "prevotes", q) \subseteq SignedFor(y.signed, "prevotes", q)
    BY <1>7 DEF SignedFor
  <2>2. \A q \in Rounds : q > r => Ballot(y.signed, "prevotes", q) = None
    BY ZenonT(60), <1>8 DEF VoteTypes
  <2>3. \A q \in Rounds : q > r => SignedFor(m.signed, "prevotes", q) = {}
    BY ZenonT(60), <1>7, <2>1, <2>2, BallotType
  <2> QED BY ZenonT(60), <1>7, <2>3, BallotType
<1>10. V!NoVoteAfter(w, r)
  BY <1>1, <1>8, <1>9 DEF V!NoVoteAfter, VoteTypes
<1>11. \A q \in Rounds : q > r => u.prevote[q] = None
  BY <1>2, <1>8 DEF VoteTypes
<1>12. ASSUME v.block # Nil
       PROVE \E q \in Rounds :
                            /\ q = r \/ (q > r /\ V!Returned(q, C))
                            /\ <<q, v.block>> \in P
                            /\ \/ u.locked_block = v.block /\ u.locked_round = q
                               \/ u.decided # None
  <2>1. PICK q \in Rounds : /\ q = r \/ (q > r /\ ReturnedTo(y, q))
                            /\ Polka(y, q, v.block)
                            /\ x.locked_block = v.block /\ x.locked_round = q
    BY <1>5, <1>6, <1>12 DEF Backed
  <2>2. <<q, v.block>> \in P
    BY <1>6, <2>1 DEF Shows
  <2> QED BY <1>3, <1>4, <2>1, <2>2
<1> QED BY ZenonT(60), <1>1, <1>2, <1>8, <1>10, <1>11, <1>12

(* They keep the rule for locks: one is given up for a later polka, or     *)
(* with a decision.                                                        *)
LEMMA KeepsLockRule ==
  ASSUME NodeConstants, NEW m, NodeInv(m), m.height = 1, NEW y, NEW x, MayUnlock(m, y), MayPrecommit(y, x),
         NEW z, DecidedOrLocked(x, z), NEW P, NEW C, Shows(y, P, C)
  PROVE  V!LockRule(ValOf(m), ValOf(z), P, C)
<1> DEFINE w == ValOf(m)
           u == ValOf(z)
<1>1. w.locked_block = m.locked_block /\ w.locked_round = m.locked_round
  BY DEF ValOf
<1>2. Outvoted(m, y) => V!Superseded(w, P)
  BY <1>1 DEF Outvoted, Shows, V!Superseded
<1>3. \A q \in Rounds : ReturnedTo(y, q) => V!Returned(q, C)
  BY ZenonT(60), BlockIdAssumption DEF ReturnedTo, Shows, V!Returned, NodeConstants, ConsensusConstants
<1>4. u.decided # None \/ (u.locked_block = x.locked_block /\ u.locked_round = x.locked_round)
  BY DEF ValOf, DecidedOrLocked
<1> HIDE DEF w, u
<1>5. CASE Outvoted(m, y) \/ u.decided # None
  BY ZenonT(60), <1>2, <1>5 DEF V!LockRule, w, u
<1>6. CASE ~Outvoted(m, y) /\ u.decided = None
  <2>1. y.locked_round = m.locked_round /\ y.locked_block = m.locked_block
    BY <1>6 DEF MayUnlock
  <2>2. Yields(y, x)
    BY DEF MayPrecommit
  <2>3. CASE \E q \in Rounds, b \in BlockIds :
               /\ Polka(y, q, b)
               /\ \/ q > m.locked_round /\ b # m.locked_block
                  \/ ReturnedTo(y, q) /\ (b # m.locked_block \/ (x.locked_block = b /\ x.locked_round = q))
    <3>1. PICK q \in Rounds, b \in BlockIds :
               /\ Polka(y, q, b)
               /\ \/ q > m.locked_round /\ b # m.locked_block
                  \/ ReturnedTo(y, q) /\ (b # m.locked_block \/ (x.locked_block = b /\ x.locked_round = q))
      BY <2>3
    <3>2. <<q, b>> \in P /\ (ReturnedTo(y, q) => V!Returned(q, C))
      BY <1>3, <3>1 DEF Shows
    <3>3. CASE q > m.locked_round /\ b # m.locked_block
      BY <1>6, <3>1, <3>3 DEF Outvoted
    <3> QED BY ZenonT(60), <1>1, <1>4, <1>6, <3>1, <3>2, <3>3 DEF V!LockRule, w, u
  <2> QED BY ZenonT(60), <1>1, <1>4, <1>6, <2>1, <2>2, <2>3 DEF Yields, V!LockRule, w, u
<1> QED BY <1>5, <1>6

(* What the votes of m show is seen.                                       *)
LEMMA ShowsPolkas ==
  ASSUME NodeConstants, NEW m, m.height = 1
  PROVE  /\ \A q \in Rounds, b \in BlockIds : Polka(m, q, b) => <<q, b>> \in MajoritiesOf(m, "prevotes")
         /\ \A p \in Rounds : Committed(m, p) => <<p, Precommits(m.votes, p).maj23>> \in CommitsOf(m)
<1>1. Blocks \subseteq BlockIds
  BY DEF NodeConstants, ConsensusConstants
<1>2. ASSUME NEW q \in Rounds, NEW b \in BlockIds, Polka(m, q, b)
      PROVE  <<q, b>> \in MajoritiesOf(m, "prevotes")
  BY <1>2 DEF Polka, Prevotes, MajoritiesOf
<1>3. ASSUME NEW p \in Rounds, Committed(m, p)
      PROVE  <<p, Precommits(m.votes, p).maj23>> \in CommitsOf(m)
  <2>1. Precommits(m.votes, p).maj23 \in BlockIds /\ p \in DOMAIN m.votes.sets
    BY ZenonT(60), <1>1, <1>3 DEF Committed
  <2>2. <<p, Precommits(m.votes, p).maj23>> \in MajoritiesOf(m, "precommits")
    BY <2>1 DEF Precommits, MajoritiesOf
  <2> QED BY <2>2 DEF CommitsOf
<1> QED BY <1>2, <1>3

(* Within the first height, what the node has seen only grows.             *)
LEMMA MajoritiesGrow ==
  ASSUME NodeConstants, NEW m, NEW z, m.height = 1, z.height = 1, Grows(m.votes, z.votes)
  PROVE  /\ MajoritiesOf(m, "prevotes") \subseteq MajoritiesOf(z, "prevotes")
         /\ CommitsOf(m) \subseteq CommitsOf(z)
<1>1. ASSUME NEW t \in VoteTypes
      PROVE  MajoritiesOf(m, t) \subseteq MajoritiesOf(z, t)
  <2> SUFFICES ASSUME NEW p \in Rounds \X BlockIds, p[1] \in DOMAIN m.votes.sets,
                      m.votes.sets[p[1]][t].maj23 = p[2]
               PROVE  p[1] \in DOMAIN z.votes.sets /\ z.votes.sets[p[1]][t].maj23 = p[2]
    BY DEF MajoritiesOf
  <2>1. p[2] # None
    BY BlockIdAssumption
  <2> QED BY <2>1 DEF Grows
<1> QED BY <1>1 DEF CommitsOf, VoteTypes

(* The step of the abstract specification from m to z.                     *)
Implements(m, z) ==
  /\ \/ ValOf(z).decided # None
     \/ MajoritiesOf(m, "prevotes") \subseteq MajoritiesOf(z, "prevotes") /\ CommitsOf(m) \subseteq CommitsOf(z)
  /\ V!Promise(ValOf(m), ValOf(z), MajoritiesOf(m, "prevotes") \cup MajoritiesOf(z, "prevotes"),
               CommitsOf(m) \cup CommitsOf(z))

(* A handler that stays at the first height keeps the promise.             *)
LEMMA StaysAtFirstHeight ==
  ASSUME NodeConstants, NEW m, NodeInv(m), NEW z, NodeInv(z), Handles(m, z), m.height = 1, z.height = 1
  PROVE  Implements(m, z)
<1> DEFINE P == MajoritiesOf(m, "prevotes") \cup MajoritiesOf(z, "prevotes")
           C == CommitsOf(m) \cup CommitsOf(z)
<1>1. PICK y, x : MayUnlock(m, y) /\ MayPrecommit(y, x) /\ MayEnd(x, z)
  BY ZenonT(60) DEF Handles
<1>2. y.height = 1 /\ x.height = 1 /\ Grows(m.votes, y.votes) /\ Grows(y.votes, x.votes)
  BY <1>1 DEF MayUnlock, MayPrecommit
<1>3. /\ z.signed = x.signed /\ Grows(x.votes, z.votes)
      /\ z.locked_round = x.locked_round /\ z.locked_block = x.locked_block
  BY <1>1, <1>2 DEF MayEnd
<1>4. Grows(y.votes, z.votes) /\ Grows(m.votes, z.votes)
  BY <1>2, <1>3, GrowsTransitive
<1>5. /\ MajoritiesOf(y, "prevotes") \subseteq P /\ CommitsOf(y) \subseteq C
      /\ MajoritiesOf(m, "prevotes") \subseteq MajoritiesOf(z, "prevotes") /\ CommitsOf(m) \subseteq CommitsOf(z)
  BY ZenonT(60), <1>2, <1>4, MajoritiesGrow
<1> HIDE DEF P, C
<1>6. Shows(y, P, C)
  BY <1>2, <1>5, ShowsPolkas DEF Shows, Committed
<1>7. SameBallots(x, z) /\ DecidedOrLocked(x, z)
  BY <1>3 DEF SameBallots, DecidedOrLocked
<1>8. V!PrevoteRule(ValOf(m), ValOf(z), P) /\ V!PrecommitRule(ValOf(m), ValOf(z), P, C)
  BY ZenonT(60), <1>1, <1>6, <1>7, KeepsPrevoteRule, KeepsPrecommitRule
<1>9. V!LockRule(ValOf(m), ValOf(z), P, C)
  BY ZenonT(60), <1>1, <1>6, <1>7, KeepsLockRule
<1>10. V!DecideRule(ValOf(m), ValOf(z), C)
  BY DEF V!DecideRule, ValOf
<1>11. ValOf(z) \in V!Vals
  BY ZenonT(60), ValType
<1> QED BY <1>5, <1>8, <1>9, <1>10, <1>11 DEF Implements, V!Promise, P, C

(* A handler that decides at the first height keeps the promise.           *)
LEMMA LeavesFirstHeight ==
  ASSUME NodeConstants, NEW m, NodeInv(m), NEW z, NodeInv(z), Handles(m, z), m.height = 1, z.height # 1
  PROVE  Implements(m, z)
<1> DEFINE P == MajoritiesOf(m, "prevotes") \cup MajoritiesOf(z, "prevotes")
           C == CommitsOf(m) \cup CommitsOf(z)
<1>1. PICK y, x : MayUnlock(m, y) /\ MayPrecommit(y, x) /\ MayEnd(x, z) /\ Known(m, y, z)
  BY ZenonT(60) DEF Handles
<1>2. x.height = 1 /\ x.store = m.store
  BY ZenonT(60), <1>1 DEF MayUnlock, MayPrecommit
<1>3. /\ StoreKept(x, z) /\ z.height = 2 /\ x.signed \subseteq z.signed
      /\ \A v \in z.signed \ x.signed : v.height = 2
      /\ z.last_commit.round \in Rounds /\ z.last_commit.votes.maj23 \in Blocks
      /\ Len(x.store) = 1 \/ z.store[1] = z.last_commit.votes.maj23
  BY <1>1, <1>2 DEF MayEnd
<1>4. <<z.last_commit.round, z.last_commit.votes.maj23>> \in C
  BY <1>3 DEF CommitsOf
<1>5. /\ \A q \in Rounds, b \in BlockIds : Polka(m, q, b) => <<q, b>> \in P
      /\ \A p \in Rounds : Committed(m, p) => <<p, Precommits(m.votes, p).maj23>> \in C
  BY ZenonT(60), ShowsPolkas
<1> HIDE DEF P, C
<1>6. Shows(y, P, C)
  BY ZenonT(60), <1>1, <1>3, <1>4, <1>5 DEF Shows, Known, Committed
<1>7. SameBallots(x, z)
  <2>1. \A t, r : SignedFor(z.signed, t, r) = SignedFor(x.signed, t, r)
    BY <1>3 DEF SignedFor
  <2> QED BY <2>1 DEF SameBallots, Ballot
<1>8. ValOf(z).decided = z.store[1] /\ z.store[1] \in Blocks /\ None \notin Blocks /\ Nil \notin Blocks
  <2>1. ValOf(z).decided = z.store[1]
    BY DEF ValOf
  <2> QED BY ZenonT(60), <2>1, ValType, BlockIdAssumption DEF NodeConstants, ConsensusConstants
<1>9. DecidedOrLocked(x, z)
  BY <1>8 DEF DecidedOrLocked
<1>10. V!PrevoteRule(ValOf(m), ValOf(z), P) /\ V!PrecommitRule(ValOf(m), ValOf(z), P, C)
  BY ZenonT(60), <1>1, <1>6, <1>7, <1>9, KeepsPrevoteRule, KeepsPrecommitRule
<1>11. V!LockRule(ValOf(m), ValOf(z), P, C)
  BY ZenonT(60), <1>1, <1>6, <1>9, KeepsLockRule
<1>12. \E r \in Rounds : <<r, z.store[1]>> \in C
  <2>1. CASE Len(x.store) = 1
    <3>1. PICK q \in Rounds : Committed(m, q) /\ Precommits(m.votes, q).maj23 = m.store[1]
      BY <1>2, <2>1 DEF NodeInv, StoreInv
    <3>2. z.store[1] = m.store[1]
      BY <1>2, <1>3, <2>1 DEF StoreKept
    <3> QED BY ZenonT(60), <1>5, <3>1, <3>2
  <2>2. CASE z.store[1] = z.last_commit.votes.maj23
    BY ZenonT(60), <1>3, <1>4, <2>2
  <2> QED BY ZenonT(60), <1>3, <2>1, <2>2
<1>13. V!DecideRule(ValOf(m), ValOf(z), C)
  <2>1. ValOf(m).decided = None
    BY DEF ValOf
  <2> QED BY <1>8, <1>12, <2>1 DEF V!DecideRule
<1>14. ValOf(z) \in V!Vals
  BY ZenonT(60), ValType
<1> QED BY ZenonT(60), <1>8, <1>10, <1>11, <1>13, <1>14 DEF Implements, V!Promise, P, C

(* After the first height nothing of the promise changes: votes are for    *)
(* later heights, and the first block saved stays.                         *)
LEMMA AfterFirstHeight ==
  ASSUME NodeConstants, NEW m, NodeInv(m), NEW z, NodeInv(z), Handles(m, z), m.height # 1
  PROVE  Implements(m, z)
<1>1. PICK y, x : MayUnlock(m, y) /\ MayPrecommit(y, x) /\ MayEnd(x, z)
  BY DEF Handles
<1>2. x.height = m.height /\ x.store = m.store /\ m.height \in Nat \ {0}
  BY ZenonT(60), <1>1, NumberTypes DEF MayUnlock, MayPrecommit, NodeInv
<1>3. z.height # 1 /\ StoreKept(m, z)
  <2>1. StoreKept(x, z) /\ (z.height = x.height \/ z.height = x.height + 1)
    BY ZenonT(60), <1>1 DEF MayEnd
  <2>2. z.height # 1
    BY <1>2, <2>1
  <2>3. StoreKept(m, z)
    BY <1>2, <2>1 DEF StoreKept
  <2> QED BY <2>2, <2>3
<1>4. z.store[1] = m.store[1]
  <2>1. m.store \in Seq(Blocks) /\ Len(m.store) \in {m.height - 1, m.height}
    BY FieldTypes DEF NodeInv, StoreInv
  <2>2. Len(m.store) \in Nat
    BY <2>1
  <2>3. 1 \in 1..Len(m.store)
    BY <1>2, <2>1, <2>2
  <2> QED BY ZenonT(60), <1>3, <2>3 DEF StoreKept
<1>5. SameBallots(x, z)
  <2>1. /\ x.signed \subseteq z.signed
        /\ \A v \in z.signed \ x.signed : v.height # 1
    BY <1>1, <1>3 DEF MayEnd
  <2>2. \A t, r : SignedFor(z.signed, t, r) = SignedFor(x.signed, t, r)
    BY ZenonT(60), <2>1 DEF SignedFor
  <2> QED BY ZenonT(60), <2>2 DEF SameBallots, Ballot
<1>6. SameBallots(m, z)
  BY <1>1, <1>5, PhasesSign DEF SameBallots
<1>7. /\ [r \in Rounds |-> Ballot(z.signed, "prevotes", r)] = [r \in Rounds |-> Ballot(m.signed, "prevotes", r)]
      /\ [r \in Rounds |-> Ballot(z.signed, "precommits", r)] = [r \in Rounds |-> Ballot(m.signed, "precommits", r)]
  BY ZenonT(60), <1>6 DEF SameBallots, VoteTypes
<1>8. ValOf(z) = ValOf(m)
  BY ZenonT(60), <1>3, <1>4, <1>7 DEF ValOf
<1>9. ValOf(m) \in V!Vals /\ ValOf(m).decided # None /\ ValOf(m).locked_block = None
  <2>1. ValOf(m).locked_block = None
    BY DEF ValOf
  <2> QED BY ZenonT(60), <2>1, ValType, BlockIdAssumption DEF NodeConstants, ConsensusConstants
<1> QED BY <1>8, <1>9
        DEF Implements, V!Promise, V!PrevoteRule, V!PrecommitRule, V!LockRule, V!DecideRule

-----------------------------------------------------------------------------
(* The votes of a height                                                   *)

(* The vote sets of a height are a function over the rounds that have      *)
(* some.                                                                   *)
LEMMA SetsType ==
  ASSUME NEW h \in HeightVoteSets
  PROVE  /\ DOMAIN h.sets \subseteq Int
         /\ h.sets \in [DOMAIN h.sets -> [VoteTypes -> VoteSets]]
BY ZenonT(60) DEF HeightVoteSets, RoundVoteSets

(* Any set of rounds may have vote sets.                                   *)
LEMMA SetsAreTyped ==
  ASSUME NEW D \in SUBSET Int, NEW f \in [D -> [VoteTypes -> VoteSets]]
  PROVE  f \in RoundVoteSets
BY DEF RoundVoteSets

(* Adding rounds (height_vote_set::add_round) leaves the votes of the      *)
(* other rounds, and brings no majority.                                   *)
LEMMA AddRoundsKeeps ==
  ASSUME NEW h \in HeightVoteSets, NEW R \in SUBSET Int
  PROVE  /\ AddRounds(h, R) \in HeightVoteSets
         /\ AddRounds(h, R).round = h.round
         /\ AddRounds(h, R).catchup = h.catchup
         /\ DOMAIN AddRounds(h, R).sets = DOMAIN h.sets \cup R
         /\ Opens(h, AddRounds(h, R))
<1> DEFINE f == [r \in DOMAIN h.sets \cup R |->
                    IF r \in DOMAIN h.sets THEN h.sets[r] ELSE NewRoundVoteSet]
<1>1. NewRoundVoteSet \in [VoteTypes -> VoteSets]
  BY NewVoteSetType DEF NewRoundVoteSet
<1>2. DOMAIN h.sets \cup R \in SUBSET Int /\ f \in [DOMAIN h.sets \cup R -> [VoteTypes -> VoteSets]]
  BY ZenonT(60), <1>1, SetsType
<1>3. f \in RoundVoteSets
  BY <1>2, SetsAreTyped
<1>4. AddRounds(h, R) = [h EXCEPT !.sets = f]
  BY DEF AddRounds
<1>5. AddRounds(h, R).sets = f
  BY <1>4 DEF HeightVoteSets
<1>6. AddRounds(h, R) \in HeightVoteSets /\ AddRounds(h, R).round = h.round /\ AddRounds(h, R).catchup = h.catchup
  BY ZenonT(60), <1>3, <1>4 DEF HeightVoteSets
<1>7. NewRoundVoteSet \in [VoteTypes -> VoteSets] /\ \A t \in VoteTypes : NewRoundVoteSet[t].maj23 = None
  BY ZenonT(60), <1>1 DEF NewRoundVoteSet, NewVoteSet
<1>8. Grows(h, AddRounds(h, R))
  BY ZenonT(60), <1>5, <1>6 DEF Grows
<1>9. Opens(h, AddRounds(h, R))
  BY ZenonT(60), <1>5, <1>7, <1>8 DEF Opens
<1> QED
  BY <1>5, <1>6, <1>9

(* Rounds without votes opened after others are rounds without votes.      *)
LEMMA OpensTransitive ==
  ASSUME NEW h, NEW g, NEW k, Opens(h, g), Opens(g, k)
  PROVE  Opens(h, k)
BY ZenonT(60), GrowsTransitive DEF Opens

(* height_vote_set::set_round has vote sets for every round up to the new  *)
(* one.                                                                    *)
LEMMA SetRoundKeeps ==
  ASSUME NEW h \in HeightVoteSets, NEW r \in Nat
  PROVE  /\ SetRound(h, r) \in HeightVoteSets
         /\ SetRound(h, r).round = r
         /\ DOMAIN SetRound(h, r).sets = DOMAIN h.sets \cup ((h.round - 1)..r)
         /\ Opens(h, SetRound(h, r))
<1> DEFINE a == AddRounds(h, (h.round - 1)..r)
<1>1. h.round \in Nat /\ (h.round - 1)..r \in SUBSET Int
  BY DEF HeightVoteSets
<1>2. a \in HeightVoteSets /\ DOMAIN a.sets = DOMAIN h.sets \cup ((h.round - 1)..r) /\ Opens(h, a)
  BY <1>1, AddRoundsKeeps
<1> HIDE DEF a
<1>3. SetRound(h, r) = [a EXCEPT !.round = r]
  BY DEF SetRound, a
<1>4. SetRound(h, r) \in HeightVoteSets /\ SetRound(h, r).round = r /\ SetRound(h, r).sets = a.sets
  BY ZenonT(60), <1>2, <1>3 DEF HeightVoteSets
<1> QED BY <1>2, <1>4 DEF Opens, Grows

(* Replacing the vote set of one round and type.                           *)
Replaced(h, g, r, t, s) ==
  \A q \in DOMAIN h.sets, u \in VoteTypes :
     g.sets[q][u] = IF q = r /\ u = t THEN s ELSE h.sets[q][u]

(* Replacing one vote set by another that keeps its majority keeps all of  *)
(* them.                                                                   *)
LEMMA ReplaceKeeps ==
  ASSUME NEW h \in HeightVoteSets, NEW r \in DOMAIN h.sets, NEW t \in VoteTypes, NEW s \in VoteSets,
         h.sets[r][t].maj23 # None => s.maj23 = h.sets[r][t].maj23
  PROVE  LET g == [h EXCEPT !.sets[r][t] = s] IN
         /\ g \in HeightVoteSets /\ g.round = h.round /\ DOMAIN g.sets = DOMAIN h.sets /\ Grows(h, g)
         /\ Replaced(h, g, r, t, s)
<1> DEFINE D == DOMAIN h.sets
           f == [h.sets EXCEPT ![r][t] = s]
           g == [h EXCEPT !.sets[r][t] = s]
<1>1. D \in SUBSET Int /\ h.sets \in [D -> [VoteTypes -> VoteSets]]
  BY SetsType
<1>2. f \in [D -> [VoteTypes -> VoteSets]]
  BY <1>1
<1>3. f \in RoundVoteSets
  BY <1>1, <1>2, SetsAreTyped
<1>4. g = [h EXCEPT !.sets = f]
  BY DEF HeightVoteSets
<1>5. g \in HeightVoteSets /\ g.round = h.round /\ g.sets = f
  BY ZenonT(60), <1>3, <1>4 DEF HeightVoteSets
<1>6. \A q \in D, u \in VoteTypes : f[q][u] = IF q = r /\ u = t THEN s ELSE h.sets[q][u]
  BY <1>1
<1>7. Grows(h, g)
  BY ZenonT(60), <1>1, <1>2, <1>5, <1>6 DEF Grows
<1>8. Replaced(h, g, r, t, s)
  BY ZenonT(60), <1>5, <1>6 DEF Replaced
<1> QED BY ZenonT(60), <1>1, <1>2, <1>5, <1>7, <1>8

(* A majority that is new is that of round r and type t.                   *)
OnlyNew(h, g, r, t) ==
  \A q \in DOMAIN g.sets, u \in VoteTypes : g.sets[q][u].maj23 # None =>
     \/ q = r /\ u = t
     \/ q \in DOMAIN h.sets /\ h.sets[q][u].maj23 = g.sets[q][u].maj23

(* height_vote_set::add_vote keeps every majority, and a majority that is  *)
(* new is of the round and the type of the vote, also when the vote opens  *)
(* a round as the catchup round of a peer.                                 *)
LEMMA HvsAddVoteKeeps ==
  ASSUME NEW h \in HeightVoteSets, NEW p \in NodeIds, NEW r \in Int, NEW t \in VoteTypes,
         NEW v \in Validators, NEW b \in BlockIds
  PROVE  LET res == HvsAddVote(h, p, r, t, v, b) IN
         /\ res.hvs \in HeightVoteSets
         /\ res.hvs.round = h.round
         /\ Grows(h, res.hvs)
         /\ res.added => r \in DOMAIN res.hvs.sets
         /\ OnlyNew(h, res.hvs, r, t)
<1> DEFINE known  == r \in DOMAIN h.sets
           a == AddRounds(h, {r})
           opened == IF known THEN h ELSE [a EXCEPT !.catchup[p] = Append(@, r)]
           res == AddVote(opened.sets[r][t], v, b)
<1>1. opened \in HeightVoteSets /\ opened.round = h.round /\ r \in DOMAIN opened.sets /\ Opens(h, opened)
  <2>1. CASE known
    BY ZenonT(60), <2>1 DEF Opens, Grows
  <2>2. CASE ~known
    <3>1. a \in HeightVoteSets /\ a.round = h.round /\ r \in DOMAIN a.sets /\ Opens(h, a)
      BY AddRoundsKeeps
    <3> HIDE DEF a
    <3>2. a.catchup \in [NodeIds -> Seq(Int)] /\ Append(a.catchup[p], r) \in Seq(Int)
      BY <3>1 DEF HeightVoteSets
    <3>3. opened = [a EXCEPT !.catchup = [a.catchup EXCEPT ![p] = Append(a.catchup[p], r)]]
      BY <2>2, <3>1 DEF HeightVoteSets
    <3>4. [a.catchup EXCEPT ![p] = Append(a.catchup[p], r)] \in [NodeIds -> Seq(Int)]
      BY <3>2
    <3> HIDE DEF opened
    <3>5. opened \in HeightVoteSets /\ opened.round = a.round /\ opened.sets = a.sets
      BY ZenonT(60), <3>1, <3>3, <3>4 DEF HeightVoteSets
    <3> QED BY <3>1, <3>5 DEF Opens, Grows
  <2> QED BY <2>1, <2>2
<1> HIDE DEF opened
<1>2. opened.sets[r][t] \in VoteSets
  BY ZenonT(60), <1>1, SetsType
<1>3. res.vs \in VoteSets /\ (opened.sets[r][t].maj23 # None => res.vs.maj23 = opened.sets[r][t].maj23)
  BY <1>2, AddVoteKeeps
<1> HIDE DEF res
<1> DEFINE g == [opened EXCEPT !.sets[r][t] = res.vs]
<1>4. /\ g \in HeightVoteSets /\ g.round = opened.round /\ DOMAIN g.sets = DOMAIN opened.sets /\ Grows(opened, g)
      /\ Replaced(opened, g, r, t, res.vs)
  BY <1>1, <1>3, ReplaceKeeps
<1>5. Grows(h, g)
  BY <1>1, <1>4, GrowsTransitive DEF Opens
<1>6. HvsAddVote(h, p, r, t, v, b) =
        IF ~known /\ Len(h.catchup[p]) >= MaxCatchupRounds
        THEN [hvs |-> h, added |-> FALSE] ELSE [hvs |-> g, added |-> res.added]
  BY DEF HvsAddVote, res, opened
<1>7. Grows(h, h) /\ OnlyNew(h, h, r, t)
  BY DEF Grows, OnlyNew
<1>8. OnlyNew(h, g, r, t)
  BY <1>1, <1>4 DEF Opens, OnlyNew, Replaced
<1> HIDE DEF g
<1> QED BY <1>1, <1>4, <1>5, <1>6, <1>7, <1>8

(* A claim of a peer (height_vote_set::set_peer_maj23) changes no          *)
(* majority.                                                               *)
LEMMA HvsSetPeerMaj23Keeps ==
  ASSUME NEW h \in HeightVoteSets, NEW p \in Peers, NEW r \in Int, NEW t \in VoteTypes, NEW b \in BlockIds
  PROVE  LET g == HvsSetPeerMaj23(h, p, r, t, b) IN
         g \in HeightVoteSets /\ g.round = h.round /\ Opens(h, g)
<1>1. CASE r \in DOMAIN h.sets
  <2> DEFINE s == SetPeerMaj23(h.sets[r][t], p, b)
  <2>1. s \in VoteSets /\ s.maj23 = h.sets[r][t].maj23
    BY <1>1, SetsType, SetPeerMaj23Keeps
  <2>2. HvsSetPeerMaj23(h, p, r, t, b) = [h EXCEPT !.sets[r][t] = s]
    BY <1>1 DEF HvsSetPeerMaj23
  <2> DEFINE g == [h EXCEPT !.sets[r][t] = s]
  <2>3. /\ g \in HeightVoteSets /\ g.round = h.round /\ DOMAIN g.sets = DOMAIN h.sets /\ Grows(h, g)
        /\ Replaced(h, g, r, t, s)
    BY ZenonT(60), <1>1, <2>1, ReplaceKeeps
  <2> HIDE DEF g, s
  <2>4. Opens(h, g)
    BY <2>1, <2>3 DEF Opens, Replaced
  <2> QED BY ZenonT(60), <2>2, <2>3, <2>4 DEF g
<1>2. CASE r \notin DOMAIN h.sets
  BY <1>2 DEF HvsSetPeerMaj23, Opens, Grows
<1> QED BY <1>1, <1>2

(* A new height has vote sets for round 0 only.                            *)
LEMMA NewHeightVoteSetType ==
  NewHeightVoteSet \in HeightVoteSets /\ NewHeightVoteSet.round = 0 /\ DOMAIN NewHeightVoteSet.sets = {0}
<1> DEFINE f == [r \in {0} |-> NewRoundVoteSet]
<1>1. f \in [{0} -> [VoteTypes -> VoteSets]]
  BY NewVoteSetType DEF NewRoundVoteSet
<1>2. f \in RoundVoteSets
  BY <1>1, SetsAreTyped
<1>3. [p \in NodeIds |-> <<>>] \in [NodeIds -> Seq(Int)]
  OBVIOUS
<1> QED BY <1>1, <1>2, <1>3 DEF NewHeightVoteSet, HeightVoteSets

(* A node that starts (consensus_state's constructor) is typed.            *)
LEMMA NewStateType ==
  ASSUME NodeConstants, NEW b \in Builds
  PROVE  NewState(b) \in NodeStates
<1>1. NewVoteSet \in VoteSets /\ NewHeightVoteSet \in HeightVoteSets
  BY NewVoteSetType, NewHeightVoteSetType
<1>2. NoParts \in [header: Blocks \cup {None}, have: SUBSET (1..NumParts)]
  BY DEF NoParts
<1>3. NoTimeout \in Stamps
  BY DEF NoTimeout, Stamps
<1>4. 0 \in Rounds /\ NewHeight \in NewHeight..Commit /\ b \in {"checked", "optimised"} /\ 1 \in Nat \ {0}
  BY DEF Rounds, NodeConstants, NewHeight, Commit
<1>5. [round |-> -1, votes |-> NewVoteSet] \in [round: Rounds \cup {-1}, votes: VoteSets]
  BY <1>1
<1>6. <<>> \in Seq(Blocks) /\ <<>> \in Seq(Votes \cup Proposals \cup Parts)
  OBVIOUS
<1>7. 0 \in Int /\ -1 \in Rounds \cup {-1} /\ None \in Blocks \cup {None} /\ FALSE \in BOOLEAN
  OBVIOUS
<1>8. {} \in SUBSET Ticks /\ {} \in SUBSET Votes /\ "ok" \in {"ok", "threw", "dead"}
      /\ None \in [pol_round: Int, block: Blocks] \cup {None}
  BY ZenonT(60)
<1> QED BY ZenonT(60), <1>1, <1>2, <1>3, <1>4, <1>5, <1>6, <1>7, <1>8 DEF NewState, NodeStates

(* When the votes grow, polkas stay polkas and committed rounds stay       *)
(* committed.                                                              *)
LEMMA MajoritiesStay ==
  ASSUME NodeConstants, NEW m, NEW z, Grows(m.votes, z.votes)
  PROVE  /\ \A r \in DOMAIN m.votes.sets : Prevotes(m.votes, r).maj23 # None =>
               Prevotes(z.votes, r).maj23 = Prevotes(m.votes, r).maj23
         /\ \A r : Committed(m, r) =>
               Committed(z, r) /\ Precommits(z.votes, r).maj23 = Precommits(m.votes, r).maj23
<1>1. None \notin Blocks
  BY BlockIdAssumption DEF NodeConstants, ConsensusConstants
<1> QED BY <1>1 DEF Grows, Committed, Prevotes, Precommits, VoteTypes

(* A later stamp covers what was signed before.                            *)
LEMMA SignedBefore ==
  ASSUME NEW m, NodeInv(m), NEW ls \in Stamps, Later(ls, m.last_sign)
  PROVE  \A u \in m.signed : Stamp(u) \in Stamps /\ Later(ls, Stamp(u)) /\ ~Later(Stamp(u), ls)
<1> SUFFICES ASSUME NEW u \in m.signed
             PROVE  Stamp(u) \in Stamps /\ Later(ls, Stamp(u)) /\ ~Later(Stamp(u), ls)
  BY ZenonT(60)
<1>1. u \in Votes /\ ~Later(Stamp(u), m.last_sign) /\ m.last_sign \in Stamps
  BY FieldTypes DEF NodeInv, SignedInv
<1>2. Stamp(u) \in Stamps
  BY <1>1 DEF Votes, Stamp, Stamps, SignStep, VoteTypes, Rounds
<1> QED BY <1>1, <1>2 DEF Later, Stamps

(* z has signed no other vote than one of type t for b, after all of m.    *)
Signs(m, z, t, b) ==
  \/ z.signed = m.signed
  \/ \E v \in Votes :
       /\ z.signed = m.signed \cup {v}
       /\ v.height = m.height /\ v.round = m.round /\ v.type = t /\ v.block = b
       /\ \A u \in m.signed : Later(Stamp(v), Stamp(u))

(* sign_add_vote                                                           *)
LEMMA SignAddVoteKeeps ==
  ASSUME NodeConstants, NEW m, NodeInv(m), NEW t \in VoteTypes, NEW b \in BlockIds
  PROVE  LET z == SignAddVote(m, t, b) IN
         /\ NodeInv(z) /\ Signs(m, z, t, b)
         /\ z = [m EXCEPT !.last_sign = z.last_sign, !.mq = z.mq, !.signed = z.signed]
<1> DEFINE v == [kind |-> "vote", height |-> m.height, round |-> m.round,
                 type |-> t, val |-> Self, block |-> b]
           ls == [height |-> m.height, round |-> m.round, step |-> SignStep(t)]
           q == Append(m.mq, v)
           z == SignAddVote(m, t, b)
<1>1. CASE CanSign(m, t)
  <2>1. v \in Votes /\ ls \in Stamps
    BY NumberTypes, RoundTypes DEF NodeInv, Votes, Stamps, SignStep, VoteTypes, NodeConstants, ConsensusConstants
  <2>2. z = [m EXCEPT !.last_sign = ls, !.mq = q, !.signed = m.signed \cup {v}]
    BY ZenonT(60), <1>1 DEF SignAddVote, Sign, NodeInv, NodeStates
  <2>3. q \in Seq(Votes \cup Proposals \cup Parts) /\ m.signed \cup {v} \in SUBSET Votes
    <3>1. m.mq \in Seq(Votes \cup Proposals \cup Parts) /\ m.signed \in SUBSET Votes
      BY ZenonT(60), FieldTypes DEF NodeInv
    <3> HIDE DEF v
    <3> QED BY <2>1, <3>1
  <2>8. v.height = m.height /\ v.round = m.round /\ v.type = t /\ v.block = b
    OBVIOUS
  <2>9. \A u \in m.signed : Later(Stamp(v), Stamp(u))
    BY ZenonT(60), <1>1, <2>1, SignedBefore DEF CanSign, Stamp
  <2> HIDE DEF v, z, q
  <2>10. Signs(m, z, t, b)
    BY <2>1, <2>2, <2>8, <2>9 DEF Signs, NodeInv, NodeStates
  <2>4. z \in NodeStates
    BY ZenonT(60), <2>1, <2>2, <2>3 DEF NodeInv, NodeStates
  <2>5. SignedInv(z)
    <3> SUFFICES ASSUME NEW u \in z.signed PROVE ~Later(Stamp(u), z.last_sign)
      BY DEF SignedInv
    <3>1. z.last_sign = ls /\ m.last_sign \in Stamps /\ Later(ls, m.last_sign)
      BY <1>1, <2>2 DEF NodeInv, NodeStates, CanSign
    <3>2. CASE u = v
      BY <3>1, <3>2, <2>1 DEF Later, Stamp, Stamps, v
    <3>3. CASE u \in m.signed
      BY ZenonT(60), <3>1, <3>3, <2>1, SignedBefore
    <3> QED BY <3>2, <3>3, <2>2 DEF NodeInv, NodeStates
  <2>6. RoundsInv(z) /\ PolkaInv(z) /\ PartsInv(z) /\ StoreInv(z) /\ BackInv(z)
    BY <2>2 DEF NodeInv, NodeStates, RoundsInv, PolkaInv, PartsInv, StoreInv, BackInv, Back, Committed
  <2>7. z = [m EXCEPT !.last_sign = z.last_sign, !.mq = z.mq, !.signed = z.signed]
    BY <2>2 DEF NodeInv, NodeStates
  <2> QED BY ZenonT(60), <2>4, <2>5, <2>6, <2>7, <2>10 DEF NodeInv, z
<1>2. CASE ~CanSign(m, t)
  <2>1. z = m
    BY <1>2 DEF SignAddVote
  <2>2. m = [m EXCEPT !.last_sign = m.last_sign, !.mq = m.mq, !.signed = m.signed]
    BY ZenonT(60) DEF NodeInv, NodeStates
  <2> QED BY <2>1, <2>2 DEF Signs
<1> QED BY <1>1, <1>2

(* schedule_timeout, for a round that has vote sets                        *)
LEMMA ScheduleTimeoutKeeps ==
  ASSUME NodeConstants, NEW m, NodeInv(m), NEW r \in Rounds, r \in DOMAIN m.votes.sets,
         r > m.round => Back(m), NEW s \in {NewHeight, Propose, PrevoteWait, PrecommitWait}
  PROVE  LET z == ScheduleTimeout(m, m.height, r, s) IN
         /\ NodeInv(z)
         /\ z = [m EXCEPT !.old_ti = z.old_ti, !.ticks = z.ticks]
<1> DEFINE ti == [height |-> m.height, round |-> r, step |-> s]
           z == ScheduleTimeout(m, m.height, r, s)
<1>1. CASE Later(ti, m.old_ti)
  <2>1. ti \in Ticks /\ ti \in Stamps
    BY NumberTypes, RoundTypes DEF NodeInv, Ticks, Stamps, NewHeight, Propose, PrevoteWait, PrecommitWait
  <2>2. z = [m EXCEPT !.old_ti = ti, !.ticks = m.ticks \cup {ti}]
    BY <1>1 DEF ScheduleTimeout, NodeInv, NodeStates
  <2> HIDE DEF z
  <2>4. z \in NodeStates
    BY ZenonT(60), <2>1, <2>2 DEF NodeInv, NodeStates
  <2>5. SignedInv(z) /\ PolkaInv(z) /\ PartsInv(z) /\ StoreInv(z)
    BY <2>2 DEF NodeInv, NodeStates, SignedInv, PolkaInv, PartsInv, StoreInv, Committed
  <2>6. RoundsInv(z) /\ BackInv(z)
    BY <2>2 DEF NodeInv, NodeStates, RoundsInv, BackInv, Back, Committed
  <2>7. z = [m EXCEPT !.old_ti = z.old_ti, !.ticks = z.ticks]
    BY <2>2 DEF NodeInv, NodeStates
  <2> QED BY ZenonT(60), <2>4, <2>5, <2>6, <2>7 DEF NodeInv, z
<1>2. CASE ~Later(ti, m.old_ti)
  <2>1. z = m
    BY <1>2 DEF ScheduleTimeout
  <2>2. m = [m EXCEPT !.old_ti = m.old_ti, !.ticks = m.ticks]
    BY ZenonT(60) DEF NodeInv, NodeStates
  <2> QED BY <2>1, <2>2
<1> QED BY <1>1, <1>2

(* What a call that signs no vote and leaves the lock alone keeps.         *)
Quiet(m, z) ==
  /\ z.height = m.height /\ z.store = m.store /\ z.signed = m.signed
  /\ z.locked_round = m.locked_round /\ z.locked_block = m.locked_block
  /\ z.last_commit = m.last_commit /\ Opens(m.votes, z.votes)

(* A call that may also sign a prevote, after all other votes and for the lock. *)
MayPrevote(m, z) ==
  /\ z.height = m.height /\ z.store = m.store
  /\ z.locked_round = m.locked_round /\ z.locked_block = m.locked_block
  /\ z.last_commit = m.last_commit /\ Opens(m.votes, z.votes)
  /\ \/ z.signed = m.signed
     \/ \E v \in Votes :
          /\ z.signed = m.signed \cup {v}
          /\ v.height = m.height /\ v.type = "prevotes"
          /\ \A u \in m.signed : Later(Stamp(v), Stamp(u))
          /\ m.locked_block \in {None, v.block}

(* A call that signs nothing is one that may sign a prevote.               *)
LEMMA QuietIsMayPrevote ==
  ASSUME NEW m, NEW z, Quiet(m, z)
  PROVE  MayPrevote(m, z)
BY DEF Quiet, MayPrevote

(* A call that signs nothing, and then one that may sign a prevote.        *)
LEMMA QuietThenMayPrevote ==
  ASSUME NEW m, NEW y, NEW z, Quiet(m, y), MayPrevote(y, z)
  PROVE  MayPrevote(m, z)
BY OpensTransitive DEF Quiet, MayPrevote

(* Two calls that sign nothing, one after the other.                       *)
LEMMA QuietTransitive ==
  ASSUME NEW m, NEW y, NEW z, Quiet(m, y), Quiet(y, z)
  PROVE  Quiet(m, z)
BY OpensTransitive DEF Quiet

(* A step forward to a later round or, before Commit, to another step.     *)
LEMMA MoveKeeps ==
  ASSUME NodeConstants, NEW m, NodeInv(m), NEW r \in Rounds, r \in DOMAIN m.votes.sets,
         r >= m.round, r = m.round => m.step # Commit, NEW s \in NewHeight..PrecommitWait
  PROVE  NodeInv([m EXCEPT !.round = r, !.step = s])
<1> DEFINE z == [m EXCEPT !.round = r, !.step = s]
<1>1. z \in NodeStates
  <2>1. s \in NewHeight..Commit
    BY DEF NewHeight, PrecommitWait, Commit
  <2> QED BY ZenonT(60), <2>1 DEF NodeInv, NodeStates
<1>2. /\ z.round = r /\ z.step = s /\ z.height = m.height /\ z.votes = m.votes /\ z.ticks = m.ticks
      /\ z.commit_round = m.commit_round /\ z.locked_block = m.locked_block /\ z.locked_round = m.locked_round
      /\ z.valid_block = m.valid_block /\ z.valid_round = m.valid_round
      /\ z.proposal_block = m.proposal_block /\ z.proposal_block_parts = m.proposal_block_parts
      /\ z.signed = m.signed /\ z.last_sign = m.last_sign /\ z.store = m.store
  BY DEF NodeInv, NodeStates
<1> HIDE DEF z
<1>3. s # Commit
  BY DEF NewHeight, PrecommitWait, Commit
<1>4. SignedInv(z) /\ PolkaInv(z) /\ PartsInv(z) /\ StoreInv(z) /\ RoundsInv(z)
  BY ZenonT(60), <1>2, <1>3 DEF NodeInv, SignedInv, PolkaInv, PartsInv, StoreInv, Committed, RoundsInv
<1>5. m.round \in Int /\ r \in Int /\ m.locked_round \in Int /\ \A t \in m.ticks : t.round \in Int
  BY ZenonT(60), NumberTypes, FieldTypes, RoundTypes DEF NodeInv, Ticks
<1>6. Back(m) => Back(z)
  <2> SUFFICES ASSUME NEW q \in Rounds, Committed(m, q), q < m.round \/ (q = m.round /\ m.step = Commit)
               PROVE  Committed(z, q) /\ q < z.round
    BY ZenonT(60) DEF Back
  <2> QED BY <1>2, <1>5 DEF Committed, Rounds
<1>7. BackInv(z)
  BY <1>2, <1>5, <1>6 DEF BackInv, NodeInv
<1> QED BY <1>1, <1>4, <1>7 DEF NodeInv, z

(* enter_prevote keeps the invariant, and prevotes for the locked block if *)
(* there is one.                                                           *)
LEMMA EnterPrevoteKeeps ==
  ASSUME NodeConstants, NEW m, NodeInv(m), NEW h, NEW r \in Rounds,
         m.height = h => r \in DOMAIN m.votes.sets
  PROVE  LET z == EnterPrevote(m, h, r) IN NodeInv(z) /\ MayPrevote(m, z)
<1> DEFINE b == CASE m.locked_block # None -> m.locked_block
                  [] m.locked_block = None /\ m.proposal_block # None -> m.proposal_block
                  [] m.locked_block = None /\ m.proposal_block = None -> Nil
           y == SignAddVote(m, "prevotes", b)
           z == EnterPrevote(m, h, r)
<1>1. CASE ~Running(m) \/ Done(m, h, r, Prevote)
  BY <1>1 DEF EnterPrevote, MayPrevote, Opens, Grows
<1>2. CASE ~(~Running(m) \/ Done(m, h, r, Prevote))
  <2>1. b \in BlockIds /\ m.locked_block \in {None, b}
    BY FieldTypes DEF NodeInv, NodeConstants, ConsensusConstants
  <2>2. z = [y EXCEPT !.round = r, !.step = Prevote]
    BY ZenonT(60), <1>2 DEF EnterPrevote, DoPrevote
  <2> HIDE DEF b, z
  <2>4. /\ NodeInv(y) /\ Signs(m, y, "prevotes", b)
        /\ y = [m EXCEPT !.last_sign = y.last_sign, !.mq = y.mq, !.signed = y.signed]
    BY ZenonT(60), <2>1, SignAddVoteKeeps DEF VoteTypes
  <2> HIDE DEF y
  <2>5. /\ y.height = m.height /\ y.round = m.round /\ y.step = m.step /\ y.votes = m.votes /\ y.store = m.store
        /\ y.locked_round = m.locked_round /\ y.locked_block = m.locked_block /\ y.last_commit = m.last_commit
    BY ZenonT(60), <2>4 DEF NodeInv, NodeStates
  <2>6. r \in DOMAIN y.votes.sets /\ r >= y.round /\ (r = y.round => y.step # Commit) /\ Prevote \in NewHeight..PrecommitWait
    BY <1>2, <2>5, NumberTypes, RoundTypes DEF Done, NodeInv, Prevote, Commit, NewHeight, PrecommitWait
  <2>7. NodeInv(z)
    BY ZenonT(60), <2>2, <2>4, <2>6, MoveKeeps
  <2>8. MayPrevote(m, z)
    <3>1. /\ z.height = y.height /\ z.votes = y.votes /\ z.store = y.store /\ z.signed = y.signed
          /\ z.locked_round = y.locked_round /\ z.locked_block = y.locked_block /\ z.last_commit = y.last_commit
      BY <2>2, <2>4 DEF NodeInv, NodeStates
    <3> QED BY <2>1, <2>4, <2>5, <3>1 DEF Signs, MayPrevote, Opens, Grows
  <2> QED BY <2>7, <2>8 DEF z
<1> QED BY ZenonT(60), <1>1, <1>2

(* decide_proposal queues a proposal and its parts, and signs after        *)
(* everything signed before.                                               *)
LEMMA DecideProposalKeeps ==
  ASSUME NodeConstants, NEW m, NodeInv(m), NEW r \in Rounds
  PROVE  LET z == DecideProposal(m, m.height, r) IN
         NodeInv(z) /\ z = [m EXCEPT !.last_sign = z.last_sign, !.mq = z.mq]
<1> DEFINE b     == IF m.valid_block # None THEN m.valid_block ELSE OwnBlock
           prop  == [kind |-> "proposal", height |-> m.height, round |-> r,
                     pol_round |-> m.valid_round, block |-> b, val |-> Self]
           parts == [i \in 1..NumParts |->
                       [kind |-> "part", height |-> m.height, block |-> b, index |-> i]]
           able  == \/ m.valid_block # None
                    \/ m.height = 1
                    \/ HasTwoThirdsMajority(m.last_commit.votes)
           ls == [height |-> m.height, round |-> m.round, step |-> 1]
           q == m.mq \o <<prop>> \o parts
           z == DecideProposal(m, m.height, r)
<1>1. CASE able /\ CanSign(m, "proposal")
  <2>0. b \in Blocks /\ m.valid_round \in Int /\ m.height \in Nat /\ m.round \in Nat /\ r \in Nat
    BY ZenonT(60), NumberTypes, FieldTypes, RoundTypes DEF NodeInv, NodeConstants, ConsensusConstants
  <2>1. prop \in Proposals /\ parts \in Seq(Parts) /\ ls \in Stamps
    <3> HIDE DEF b
    <3> QED BY <2>0 DEF Proposals, Parts, Stamps, NodeConstants, ConsensusConstants
  <2>2. z = [m EXCEPT !.last_sign = ls, !.mq = q] /\ Later(ls, m.last_sign)
    BY ZenonT(60), <1>1 DEF DecideProposal, Sign, SignStep, CanSign, NodeInv, NodeStates
  <2>3. q \in Seq(Votes \cup Proposals \cup Parts)
    BY <2>1, FieldTypes DEF NodeInv
  <2> HIDE DEF z, q
  <2>4. z \in NodeStates
    BY ZenonT(60), <2>1, <2>2, <2>3 DEF NodeInv, NodeStates
  <2>5. SignedInv(z)
    BY ZenonT(60), <2>1, <2>2, SignedBefore DEF SignedInv, NodeInv, NodeStates
  <2>6. RoundsInv(z) /\ PolkaInv(z) /\ PartsInv(z) /\ StoreInv(z) /\ BackInv(z)
    BY <2>2 DEF NodeInv, NodeStates, RoundsInv, PolkaInv, PartsInv, StoreInv, BackInv, Back, Committed
  <2>7. z = [m EXCEPT !.last_sign = z.last_sign, !.mq = z.mq]
    BY <2>2 DEF NodeInv, NodeStates
  <2> QED BY ZenonT(60), <2>4, <2>5, <2>6, <2>7 DEF NodeInv, z
<1>2. CASE ~(able /\ CanSign(m, "proposal"))
  <2>1. z = m
    BY <1>2 DEF DecideProposal
  <2>2. m = [m EXCEPT !.last_sign = m.last_sign, !.mq = m.mq]
    BY ZenonT(60) DEF NodeInv, NodeStates
  <2> QED BY <2>1, <2>2
<1> QED BY <1>1, <1>2

(* The fields the invariant is about, other than those of the proposal.    *)
SameCore(m, z) ==
  /\ z.height = m.height /\ z.round = m.round /\ z.step = m.step
  /\ z.votes = m.votes /\ z.commit_round = m.commit_round
  /\ z.locked_round = m.locked_round /\ z.locked_block = m.locked_block
  /\ z.valid_round = m.valid_round /\ z.valid_block = m.valid_block
  /\ z.signed = m.signed /\ z.last_sign = m.last_sign /\ z.store = m.store
  /\ z.last_commit = m.last_commit

(* Changing the proposal or dropping timeouts keeps the invariant.         *)
LEMMA SameCoreKeeps ==
  ASSUME NEW m, NodeInv(m), NEW z \in NodeStates, SameCore(m, z), z.ticks \subseteq m.ticks, PartsInv(z)
  PROVE  NodeInv(z) /\ Quiet(m, z)
<1>1. RoundsInv(z) /\ PolkaInv(z)
  BY ZenonT(60) DEF NodeInv, SameCore, RoundsInv, PolkaInv
<1>2. SignedInv(z) /\ StoreInv(z)
  BY ZenonT(60) DEF NodeInv, SameCore, SignedInv, StoreInv, Committed
<1>3. BackInv(z)
  BY ZenonT(60) DEF NodeInv, SameCore, BackInv, Back, Committed
<1>4. Quiet(m, z)
  BY DEF SameCore, Quiet, Opens, Grows
<1> QED BY ZenonT(60), <1>1, <1>2, <1>3, <1>4 DEF NodeInv

(* How a call ends changes nothing else.                                   *)
LEMMA EndKeeps ==
  ASSUME NEW m, NodeInv(m)
  PROVE  /\ NodeInv(Throw(m)) /\ SameCore(m, Throw(m)) /\ Quiet(m, Throw(m))
         /\ NodeInv(Crash(m)) /\ SameCore(m, Crash(m)) /\ Quiet(m, Crash(m))
<1>1. ASSUME NEW o \in {"threw", "dead"}, NEW z, z = [m EXCEPT !.outcome = o]
      PROVE  NodeInv(z) /\ SameCore(m, z) /\ Quiet(m, z)
  <2>1. z \in NodeStates
    BY ZenonT(60), <1>1 DEF NodeInv, NodeStates
  <2>2. SameCore(m, z) /\ z.ticks = m.ticks
    BY <1>1 DEF NodeInv, NodeStates, SameCore
  <2>3. PartsInv(z)
    BY <1>1 DEF NodeInv, NodeStates, PartsInv
  <2> QED BY <2>1, <2>2, <2>3, SameCoreKeeps
<1> QED BY <1>1 DEF Throw, Crash

(* What a call that adds a vote keeps.                                     *)
Learns(m, z) ==
  /\ z.height = m.height /\ z.store = m.store /\ z.signed = m.signed
  /\ z.locked_round = m.locked_round /\ z.locked_block = m.locked_block
  /\ Grows(m.votes, z.votes)

(* More votes keep the invariant: what has a majority keeps it.            *)
LEMMA VotesGrow ==
  ASSUME NodeConstants, NEW m, NodeInv(m), NEW g \in HeightVoteSets, Grows(m.votes, g),
         0..g.round \subseteq DOMAIN g.sets
  PROVE  LET z == [m EXCEPT !.votes = g] IN
         /\ NodeInv(z) /\ Learns(m, z)
         /\ Opens(m.votes, g) => Quiet(m, z)
<1> DEFINE z == [m EXCEPT !.votes = g]
<1>1. z \in NodeStates /\ z.votes = g
  <2>1. z \in NodeStates
    BY ZenonT(60) DEF NodeInv, NodeStates
  <2>2. z.votes = g
    BY DEF NodeInv, NodeStates
  <2> QED BY <2>1, <2>2
<1>2. /\ z.round = m.round /\ z.step = m.step /\ z.height = m.height /\ z.ticks = m.ticks
      /\ z.commit_round = m.commit_round /\ z.locked_block = m.locked_block /\ z.locked_round = m.locked_round
      /\ z.valid_block = m.valid_block /\ z.valid_round = m.valid_round
      /\ z.proposal_block = m.proposal_block /\ z.proposal_block_parts = m.proposal_block_parts
      /\ z.signed = m.signed /\ z.last_sign = m.last_sign /\ z.store = m.store
      /\ z.last_commit = m.last_commit
  BY DEF NodeInv, NodeStates
<1> HIDE DEF z
<1>3. /\ \A r \in DOMAIN m.votes.sets : Prevotes(m.votes, r).maj23 # None =>
            Prevotes(z.votes, r).maj23 = Prevotes(m.votes, r).maj23
      /\ \A r : Committed(m, r) =>
            Committed(z, r) /\ Precommits(z.votes, r).maj23 = Precommits(m.votes, r).maj23
  BY <1>1, MajoritiesStay
<1>4. DOMAIN m.votes.sets \subseteq DOMAIN z.votes.sets
  BY ZenonT(60), <1>1 DEF Grows
<1>5. PartsInv(z) /\ SignedInv(z) /\ RoundsInv(z)
  BY ZenonT(60), <1>1, <1>2, <1>4 DEF NodeInv, PartsInv, SignedInv, RoundsInv
<1>6. PolkaInv(z)
  BY ZenonT(60), <1>2, <1>3, <1>4 DEF NodeInv, PolkaInv
<1>7. StoreInv(z) /\ BackInv(z)
  BY ZenonT(60), <1>2, <1>3 DEF NodeInv, StoreInv, BackInv, Back
<1>8. Learns(m, z) /\ (Opens(m.votes, g) => Quiet(m, z))
  BY ZenonT(60), <1>1, <1>2 DEF Learns, Quiet
<1> QED BY <1>1, <1>5, <1>6, <1>7, <1>8 DEF NodeInv, z

(* enter_propose keeps the invariant, and prevotes only if the proposal is *)
(* there.                                                                  *)
LEMMA EnterProposeKeeps ==
  ASSUME NodeConstants, NEW m, NodeInv(m)
  PROVE  LET z == EnterPropose(m, m.height, m.round) IN
         NodeInv(z) /\ MayPrevote(m, z) /\ z.round = m.round /\ (m.proposal = None => Quiet(m, z))
<1> DEFINE h == m.height
           r == m.round
           timed    == ScheduleTimeout(m, h, r, Propose)
           proposed == IF Proposer(m.rotation) = Self THEN DecideProposal(timed, h, r) ELSE timed
           stepped  == [proposed EXCEPT !.round = r, !.step = Propose]
           z == EnterPropose(m, h, r)
<1>1. CASE ~Running(m) \/ Done(m, h, r, Propose)
  BY ZenonT(60), <1>1 DEF EnterPropose, MayPrevote, Quiet, Opens, Grows
<1>2. CASE ~(~Running(m) \/ Done(m, h, r, Propose))
  <2>1. r \in Rounds /\ r \in Int /\ r \in DOMAIN m.votes.sets /\ m.step # Commit /\ ~(r > m.round)
    BY <1>2, NumberTypes, RoundTypes DEF NodeInv, RoundsInv, Done, Propose, Commit, NewHeight
  <2>2. NodeInv(timed) /\ timed = [m EXCEPT !.old_ti = timed.old_ti, !.ticks = timed.ticks]
    BY ZenonT(60), <2>1, ScheduleTimeoutKeeps DEF Propose
  <2> HIDE DEF timed
  <2>3. SameCore(m, timed) /\ timed.proposal = m.proposal
    BY ZenonT(60), <2>2 DEF NodeInv, NodeStates, SameCore
  <2>4. NodeInv(proposed) /\ proposed = [timed EXCEPT !.last_sign = proposed.last_sign, !.mq = proposed.mq]
    <3>1. CASE Proposer(m.rotation) = Self
      <4>1. proposed = DecideProposal(timed, timed.height, r)
        BY <2>3, <3>1 DEF SameCore
      <4>2. LET d == DecideProposal(timed, timed.height, r) IN
            NodeInv(d) /\ d = [timed EXCEPT !.last_sign = d.last_sign, !.mq = d.mq]
        BY ZenonT(60), <2>1, <2>2, DecideProposalKeeps
      <4> HIDE DEF proposed
      <4> QED BY ZenonT(60), <4>1, <4>2
    <3>2. CASE Proposer(m.rotation) # Self
      <4>1. proposed = timed
        BY <3>2
      <4>2. timed = [timed EXCEPT !.last_sign = timed.last_sign, !.mq = timed.mq]
        BY ZenonT(60), <2>2 DEF NodeInv, NodeStates
      <4> QED BY ZenonT(60), <2>2, <4>1, <4>2
    <3> QED BY <3>1, <3>2
  <2> HIDE DEF proposed
  <2>5. /\ proposed.height = h /\ proposed.round = r /\ proposed.step = m.step /\ proposed.votes = m.votes
        /\ proposed.store = m.store /\ proposed.signed = m.signed /\ proposed.proposal = m.proposal
        /\ proposed.locked_round = m.locked_round /\ proposed.locked_block = m.locked_block
        /\ proposed.last_commit = m.last_commit
    <3>1. SameCore(timed, [proposed EXCEPT !.last_sign = timed.last_sign]) /\ proposed.proposal = timed.proposal
      BY ZenonT(60), <2>2, <2>4 DEF NodeInv, NodeStates, SameCore
    <3> QED BY <2>3, <2>4, <3>1 DEF NodeInv, NodeStates, SameCore
  <2>6. NodeInv(stepped)
    <3>1. Propose \in NewHeight..PrecommitWait
      BY DEF Propose, NewHeight, PrecommitWait
    <3>2. r >= proposed.round
      BY <2>1, <2>5
    <3> QED BY ZenonT(60), <2>1, <2>4, <2>5, <3>1, <3>2, MoveKeeps
  <2>7. /\ stepped.height = h /\ stepped.round = r /\ stepped.votes = m.votes
        /\ stepped.store = m.store /\ stepped.signed = m.signed /\ stepped.proposal = m.proposal
        /\ stepped.locked_round = m.locked_round /\ stepped.locked_block = m.locked_block
        /\ stepped.last_commit = m.last_commit
    BY <2>4, <2>5 DEF NodeInv, NodeStates
  <2>8. z = IF IsProposalComplete(stepped) THEN EnterPrevote(stepped, h, r) ELSE stepped
    BY <1>2 DEF EnterPropose, timed, proposed
  <2>9. m.proposal = None => ~IsProposalComplete(stepped)
    BY ZenonT(60), <2>7 DEF IsProposalComplete
  <2> HIDE DEF stepped, z, h, r
  <2>10. Quiet(m, stepped)
    BY <2>7 DEF Quiet, Opens, Grows, h
  <2>11. NodeInv(EnterPrevote(stepped, h, r)) /\ MayPrevote(stepped, EnterPrevote(stepped, h, r))
    BY ZenonT(60), <2>1, <2>6, <2>7, EnterPrevoteKeeps
  <2>12. EnterPrevote(stepped, h, r).round = r
    <3>1. CASE ~Running(stepped) \/ Done(stepped, h, r, Prevote)
      BY <3>1, <2>7 DEF EnterPrevote
    <3>2. CASE ~(~Running(stepped) \/ Done(stepped, h, r, Prevote))
      <4>1. "round" \in DOMAIN DoPrevote(stepped)
        BY <2>6 DEF DoPrevote, SignAddVote, Sign, NodeInv, NodeStates
      <4> QED BY <3>2, <4>1 DEF EnterPrevote
    <3> QED BY <3>1, <3>2
  <2>13. MayPrevote(m, z) /\ NodeInv(z) /\ z.round = r
    BY ZenonT(60), <2>6, <2>7, <2>8, <2>10, <2>11, <2>12, QuietThenMayPrevote, QuietIsMayPrevote
  <2> QED BY ZenonT(60), <2>8, <2>9, <2>10, <2>13 DEF z, h, r
<1> QED BY <1>1, <1>2

(* A state without the proposal (enter_new_round for a later round) is a   *)
(* state.                                                                  *)
LEMMA ClearedType ==
  ASSUME NEW y \in NodeStates, NEW k \in Int
  PROVE  [y EXCEPT !.rotation = k, !.proposal = None, !.proposal_block = None,
                   !.proposal_block_parts = NoParts] \in NodeStates
<1>1. PICK q \in [header: Blocks \cup {None}, have: SUBSET (1..NumParts)] : q = NoParts
  BY ZenonT(60) DEF NoParts
<1> QED BY ZenonT(60), <1>1 DEF NodeStates

(* enter_new_round keeps the invariant and, unless it is held back, enters *)
(* the round.                                                              *)
LEMMA EnterNewRoundKeeps ==
  ASSUME NodeConstants, NEW m, NodeInv(m), NEW h, NEW r \in Rounds
  PROVE  LET z == EnterNewRound(m, h, r) IN
         /\ NodeInv(z) /\ MayPrevote(m, z)
         /\ r # 0 \/ m.proposal = None => Quiet(m, z)
         /\ Running(m) /\ m.height = h /\ r >= m.round => z.round = r
<1> DEFINE entered == [m EXCEPT !.rotation = @ + (r - m.round), !.round = r, !.step = NewRound]
           cleared == IF r = 0 THEN entered
                      ELSE [entered EXCEPT !.proposal = None, !.proposal_block = None,
                                           !.proposal_block_parts = NoParts]
           opened == [cleared EXCEPT !.votes = SetRound(@, r + 1),
                                     !.triggered_timeout_precommit = FALSE]
           z == EnterNewRound(m, h, r)
           noop == ~Running(m) \/ m.height # h \/ r < m.round \/ (m.round = r /\ m.step # NewHeight)
<1>1. r \in Nat /\ m.round \in Nat /\ m.votes.round \in Nat /\ m.rotation \in Int
  BY ZenonT(60), NumberTypes, FieldTypes, RoundTypes DEF NodeInv, HeightVoteSets
<1>2. CASE noop
  <2>1. z = m
    BY ZenonT(60), <1>2 DEF EnterNewRound
  <2>2. Quiet(m, m) /\ MayPrevote(m, m)
    BY ZenonT(60) DEF Quiet, MayPrevote, Opens, Grows
  <2> HIDE DEF z
  <2> QED BY <1>1, <1>2, <2>1, <2>2 DEF z
<1>3. CASE ~noop
  <2>1. m.height = h /\ r >= m.round /\ (r = m.round => m.step # Commit) /\ NewRound \in NewHeight..PrecommitWait
    BY <1>1, <1>3 DEF NewHeight, NewRound, PrecommitWait, Commit
  <2> DEFINE k == m.rotation + (r - m.round)
             Clear(y) == IF r = 0 THEN [y EXCEPT !.rotation = k]
                         ELSE [y EXCEPT !.rotation = k, !.proposal = None, !.proposal_block = None,
                                        !.proposal_block_parts = NoParts]
  <2>2. ASSUME NEW y, NodeInv(y), y.rotation = m.rotation, y.proposal = m.proposal
        PROVE  /\ NodeInv(Clear(y)) /\ Quiet(y, Clear(y))
               /\ r # 0 \/ m.proposal = None => Clear(y).proposal = None
               /\ Clear(y).round = y.round /\ Clear(y).step = y.step
    <3>1. NoParts \in [header: Blocks \cup {None}, have: SUBSET (1..NumParts)]
      BY ZenonT(60) DEF NoParts
    <3>2. y \in NodeStates /\ PartsInv(y) /\ k \in Int
      <4>1. y \in NodeStates /\ PartsInv(y)
        BY ZenonT(60), <2>2 DEF NodeInv
      <4>2. k \in Int
        BY <1>1
      <4> QED BY ZenonT(60), <4>1, <4>2
    <3> HIDE DEF k
    <3>3. Clear(y) \in NodeStates /\ SameCore(y, Clear(y)) /\ Clear(y).ticks = y.ticks /\ PartsInv(Clear(y))
          /\ (r # 0 \/ y.proposal = None => Clear(y).proposal = None)
      <4>1. CASE r = 0
        <5>1. Clear(y) \in NodeStates
          BY ZenonT(60), <3>2, <4>1 DEF NodeStates
        <5>2. SameCore(y, Clear(y)) /\ Clear(y).ticks = y.ticks
          BY <3>2, <4>1 DEF NodeStates, SameCore
        <5>3. PartsInv(Clear(y)) /\ Clear(y).proposal = y.proposal
          BY <3>2, <4>1 DEF NodeStates, PartsInv
        <5> QED BY ZenonT(60), <4>1, <5>1, <5>2, <5>3
      <4>2. CASE r # 0
        <5>1. Clear(y) \in NodeStates
          <6>1. Clear(y) = [y EXCEPT !.rotation = k, !.proposal = None, !.proposal_block = None,
                                     !.proposal_block_parts = NoParts]
            BY <4>2
          <6> HIDE DEF Clear
          <6> QED BY ZenonT(60), <3>2, <6>1, ClearedType
        <5>2. SameCore(y, Clear(y)) /\ Clear(y).ticks = y.ticks
          BY <3>2, <4>2 DEF NodeStates, SameCore
        <5>3. PartsInv(Clear(y)) /\ Clear(y).proposal = None
          BY <3>2, <4>2 DEF NodeStates, PartsInv
        <5> QED BY <5>1, <5>2, <5>3
      <4> QED BY <4>1, <4>2
    <3> HIDE DEF Clear
    <3> QED BY ZenonT(60), <2>2, <3>3, SameCoreKeeps DEF SameCore
  <2>3. CASE SetRoundThrows(m.votes, r + 1)
    <3> DEFINE y == [m EXCEPT !.round = r, !.step = NewRound]
    <3>1. r \in DOMAIN m.votes.sets
      BY <1>1, <2>3 DEF SetRoundThrows, NodeInv, RoundsInv
    <3>2. NodeInv(y)
      BY ZenonT(60), <2>1, <3>1, MoveKeeps
    <3>3. y.rotation = m.rotation /\ y.proposal = m.proposal /\ Quiet(m, y) /\ y.round = r
      BY DEF NodeInv, NodeStates, Quiet, Opens, Grows
    <3>4. z = Throw(Clear(y))
      <4>0. m \in NodeStates
        BY DEF NodeInv
      <4>1. cleared = Clear(y)
        <5>1. CASE r = 0
          BY ZenonT(60), <4>0, <5>1 DEF NodeStates
        <5>2. CASE r # 0
          BY ZenonT(60), <4>0, <5>2 DEF NodeStates
        <5> QED BY ZenonT(60), <5>1, <5>2
      <4> HIDE DEF Clear, y
      <4> QED BY ZenonT(60), <1>3, <2>3, <4>1 DEF EnterNewRound
    <3> HIDE DEF y, z
    <3>5. NodeInv(Clear(y)) /\ Quiet(y, Clear(y)) /\ Clear(y).round = r
      BY ZenonT(60), <2>2, <3>2, <3>3
    <3> HIDE DEF Clear
    <3>7. NodeInv(z) /\ Quiet(Clear(y), z) /\ z.round = r
      BY ZenonT(60), <3>4, <3>5, EndKeeps DEF SameCore
    <3>8. Quiet(m, z)
      BY ZenonT(60), <3>3, <3>5, <3>7, QuietTransitive
    <3> QED BY ZenonT(60), <3>7, <3>8, QuietIsMayPrevote DEF z
  <2>4. CASE ~SetRoundThrows(m.votes, r + 1)
    <3> DEFINE g == SetRound(m.votes, r + 1)
               w == [m EXCEPT !.votes = g]
               y == [w EXCEPT !.round = r, !.step = NewRound]
               o == [Clear(y) EXCEPT !.triggered_timeout_precommit = FALSE]
    <3>1. /\ g \in HeightVoteSets /\ g.round = r + 1 /\ Opens(m.votes, g) /\ Grows(m.votes, g)
          /\ DOMAIN g.sets = DOMAIN m.votes.sets \cup ((m.votes.round - 1)..(r + 1))
      <4>1. m.votes \in HeightVoteSets
        BY ZenonT(60), FieldTypes DEF NodeInv
      <4>2. r + 1 \in Nat
        BY <1>1
      <4> QED BY ZenonT(60), <4>1, <4>2, SetRoundKeeps DEF Opens
    <3> HIDE DEF g
    <3>2. 0..(r + 1) \subseteq DOMAIN g.sets
      <4>1. 0..m.votes.round \subseteq DOMAIN m.votes.sets
        BY ZenonT(60) DEF NodeInv, RoundsInv
      <4>2. 0..(r + 1) \subseteq 0..m.votes.round \cup ((m.votes.round - 1)..(r + 1))
        BY <1>1
      <4> QED BY ZenonT(60), <3>1, <4>1, <4>2
    <3>3. NodeInv(w) /\ Quiet(m, w)
      BY ZenonT(60), <3>1, <3>2, VotesGrow
    <3>4. /\ w.round = m.round /\ w.step = m.step /\ w.votes = g /\ w.rotation = m.rotation /\ w.height = m.height
          /\ w.proposal = m.proposal
      BY DEF NodeInv, NodeStates
    <3> HIDE DEF w
    <3>5. r \in DOMAIN w.votes.sets
      BY <1>1, <3>2, <3>4
    <3>6. NodeInv(y)
      BY ZenonT(60), <2>1, <3>3, <3>4, <3>5, MoveKeeps
    <3>7. y.rotation = m.rotation /\ y.proposal = m.proposal /\ Quiet(w, y) /\ y.round = r
      BY <3>3, <3>4 DEF NodeInv, NodeStates, Quiet, Opens, Grows
    <3>8. z = EnterPropose(o, h, r)
      <4>1. m \in NodeStates
        BY DEF NodeInv
      <4>2. cleared.votes = m.votes
        BY <4>1 DEF NodeStates
      <4>3. opened = o
        <5>1. opened = [cleared EXCEPT !.votes = g, !.triggered_timeout_precommit = FALSE]
          BY <4>2 DEF g
        <5> HIDE DEF opened
        <5>2. CASE r = 0
          BY ZenonT(60), <4>1, <5>1, <5>2 DEF w, NodeStates
        <5>3. CASE r # 0
          BY ZenonT(60), <4>1, <5>1, <5>3 DEF w, NodeStates
        <5> QED BY ZenonT(60), <5>2, <5>3
      <4> QED BY ZenonT(60), <1>3, <2>4, <4>3 DEF EnterNewRound
    <3> HIDE DEF y, z
    <3>9. /\ NodeInv(Clear(y)) /\ Quiet(y, Clear(y)) /\ Clear(y).round = r
          /\ (r # 0 \/ m.proposal = None => Clear(y).proposal = None)
      BY ZenonT(60), <2>2, <3>6, <3>7
    <3> HIDE DEF Clear
    <3>10. /\ o \in NodeStates /\ SameCore(Clear(y), o) /\ PartsInv(o) /\ o.ticks = Clear(y).ticks
           /\ o.proposal = Clear(y).proposal
      <4>0. Clear(y) \in NodeStates
        BY <3>9 DEF NodeInv
      <4>1. o \in NodeStates
        BY ZenonT(60), <4>0 DEF NodeStates
      <4>2. SameCore(Clear(y), o) /\ o.ticks = Clear(y).ticks /\ o.proposal = Clear(y).proposal
        BY <3>9 DEF NodeInv, NodeStates, SameCore
      <4>3. PartsInv(o)
        BY <3>9 DEF NodeInv, NodeStates, PartsInv
      <4> QED BY ZenonT(60), <4>1, <4>2, <4>3
    <3> HIDE DEF o
    <3>11. NodeInv(o) /\ Quiet(Clear(y), o) /\ o.round = r
      BY ZenonT(60), <3>9, <3>10, SameCoreKeeps DEF SameCore
    <3>12. Quiet(m, o) /\ o.height = h
      <4>1. Quiet(m, o)
        BY ZenonT(60), <3>3, <3>7, <3>9, <3>11, QuietTransitive
      <4> QED BY <2>1, <4>1 DEF Quiet
    <3>13. NodeInv(z) /\ MayPrevote(o, z) /\ z.round = r /\ (o.proposal = None => Quiet(o, z))
      BY ZenonT(60), <3>8, <3>11, <3>12, EnterProposeKeeps
    <3> QED BY ZenonT(60), <3>9, <3>10, <3>12, <3>13, QuietTransitive, QuietThenMayPrevote DEF z
  <2> QED BY ZenonT(60), <2>3, <2>4
<1> QED BY <1>2, <1>3

(* A lock on a block with a polka, or none, keeps the invariant.           *)
LEMMA RelockKeeps ==
  ASSUME NodeConstants, NEW m, NodeInv(m),
         NEW q \in Rounds \cup {-1}, NEW b \in Blocks \cup {None},
         b # None => q \in Rounds /\ Polka(m, q, b) /\ (q > m.round => Back(m))
  PROVE  NodeInv([m EXCEPT !.locked_round = q, !.locked_block = b])
<1> DEFINE z == [m EXCEPT !.locked_round = q, !.locked_block = b]
<1>1. m \in NodeStates
  BY DEF NodeInv
<1>2. z \in NodeStates
  BY ZenonT(60), <1>1 DEF NodeStates
<1>3. /\ z.locked_round = q /\ z.locked_block = b
      /\ z.height = m.height /\ z.round = m.round /\ z.step = m.step
      /\ z.votes = m.votes /\ z.commit_round = m.commit_round
      /\ z.valid_round = m.valid_round /\ z.valid_block = m.valid_block
      /\ z.signed = m.signed /\ z.last_sign = m.last_sign /\ z.store = m.store /\ z.ticks = m.ticks
      /\ z.proposal_block = m.proposal_block /\ z.proposal_block_parts = m.proposal_block_parts
  BY <1>1 DEF NodeStates
<1> HIDE DEF z
<1>4. PartsInv(z) /\ SignedInv(z) /\ StoreInv(z) /\ RoundsInv(z)
  BY ZenonT(60), <1>3 DEF NodeInv, PartsInv, SignedInv, StoreInv, Committed, RoundsInv
<1>5. PolkaInv(z)
  BY ZenonT(60), <1>3 DEF NodeInv, PolkaInv, Polka
<1>6. BackInv(z)
  BY ZenonT(60), <1>3 DEF NodeInv, BackInv, Back, Committed
<1> QED BY ZenonT(60), <1>2, <1>3, <1>4, <1>5, <1>6 DEF NodeInv, z

(* Before precommitting in a round that is not its own, or before its      *)
(* lock, the node has seen a commit of an earlier round.                   *)
LEMMA WhenReturned ==
  ASSUME NodeConstants, NEW m, NodeInv(m), NEW r \in Rounds, ~Done(m, m.height, r, Precommit),
         r > m.round => Back(m)
  PROVE  /\ r > m.round => ReturnedTo(m, r)
         /\ m.locked_block # None /\ m.locked_round > r => ReturnedTo(m, r)
<1>1. m.round \in Int /\ r \in Int /\ m.locked_round \in Int /\ Rounds \subseteq Int
  BY ZenonT(60), NumberTypes, RoundTypes DEF NodeInv
<1>2. r >= m.round /\ (r = m.round => m.step # Commit)
  BY <1>1, NumberTypes, RoundTypes DEF Done, Precommit, Commit, NodeInv
<1>3. Back(m) => ReturnedTo(m, r)
  BY <1>1, <1>2 DEF Back, ReturnedTo
<1>4. m.locked_block # None /\ m.locked_round > r => Back(m)
  BY <1>1, <1>2 DEF NodeInv, BackInv
<1> QED BY ZenonT(60), <1>3, <1>4

(* y is m with another lock or another proposal.                           *)
Relocked(m, y) ==
  /\ NodeInv(y) /\ Yields(m, y)
  /\ y.height = m.height /\ y.round = m.round /\ y.step = m.step
  /\ y.votes = m.votes /\ y.store = m.store /\ y.signed = m.signed

(* A precommit is signed on the polka the node is then locked on, and      *)
(* after everything signed before.                                         *)
LEMMA SignPrecommitKeeps ==
  ASSUME NodeConstants, NEW m, NodeInv(m), NEW y, Relocked(m, y), NEW b \in BlockIds,
         b # Nil => \E q \in Rounds :
                      /\ q = m.round \/ (q > m.round /\ ReturnedTo(m, q))
                      /\ Polka(m, q, b)
                      /\ y.locked_block = b /\ y.locked_round = q
  PROVE  LET z == SignAddVote(y, "precommits", b) IN
         /\ NodeInv(z) /\ MayPrecommit(m, z)
         /\ z.round = m.round /\ z.step = m.step /\ z.votes = m.votes
<1> DEFINE z == SignAddVote(y, "precommits", b)
<1>1. /\ NodeInv(z) /\ Signs(y, z, "precommits", b)
      /\ z = [y EXCEPT !.last_sign = z.last_sign, !.mq = z.mq, !.signed = z.signed]
  BY ZenonT(60), SignAddVoteKeeps DEF VoteTypes, Relocked
<1> HIDE DEF z
<1>2. /\ z.height = y.height /\ z.round = y.round /\ z.step = y.step /\ z.votes = y.votes /\ z.store = y.store
      /\ z.locked_round = y.locked_round /\ z.locked_block = y.locked_block
  BY ZenonT(60), <1>1 DEF Relocked, NodeInv, NodeStates
<1>3. Grows(m.votes, z.votes) /\ Yields(m, z)
  BY ZenonT(60), <1>2 DEF Relocked, Grows, Yields
<1>4. ASSUME NEW v \in Votes, v.round = y.round, v.block = b
      PROVE  Backed(m, z, v)
  BY <1>2, <1>4 DEF Backed, Relocked
<1>5. MayPrecommit(m, z)
  BY ZenonT(60), <1>1, <1>2, <1>3, <1>4 DEF MayPrecommit, Signs, Relocked
<1> QED BY <1>1, <1>2, <1>5 DEF z, Relocked

(* What follows the signing of a precommit in enter_precommit changes no   *)
(* vote and no lock.                                                       *)
LEMMA SameVotesTransitive ==
  ASSUME NEW m, NEW y, NEW z, MayPrecommit(m, y), SameCore(y, z)
  PROVE  MayPrecommit(m, z)
<1>1. Yields(m, z)
  BY ZenonT(60) DEF MayPrecommit, SameCore, Yields
<1>2. \A v : Backed(m, y, v) => Backed(m, z, v)
  BY ZenonT(60) DEF SameCore, Backed
<1> QED BY ZenonT(60), <1>1, <1>2 DEF MayPrecommit, SameCore

(* The part of enter_precommit for a polka for a block: the lock is kept,  *)
(* moved to the proposal block or given up.                                *)
LEMMA PrecommitPolkaKeeps ==
  ASSUME NodeConstants, NEW m, NodeInv(m), NEW r \in Rounds, ~Done(m, m.height, r, Precommit),
         r > m.round => Back(m), NEW b \in Blocks, Polka(m, r, b)
  PROVE  LET z == PrecommitPolka(m, r, b) IN
         /\ NodeInv(z) /\ MayPrecommit(m, z)
         /\ z.round = m.round /\ z.step = m.step /\ z.votes = m.votes
<1> DEFINE y == [m EXCEPT !.locked_round = r, !.locked_block = b]
           u == Unlock(m)
           f == [u EXCEPT !.proposal_block = None, !.proposal_block_parts = NewPartSet(b)]
<1>1. /\ m \in NodeStates /\ b # None /\ b \in BlockIds /\ Nil \in BlockIds /\ b # Nil
      /\ r \in Int /\ m.round \in Int /\ m.locked_round \in Int /\ r >= m.round
  <2>1. m \in NodeStates
    BY DEF NodeInv
  <2>2. b # None /\ b \in BlockIds /\ Nil \in BlockIds /\ b # Nil
    BY BlockIdAssumption DEF NodeConstants, ConsensusConstants
  <2>3. r \in Int /\ m.round \in Int /\ m.locked_round \in Int
    BY ZenonT(60), <2>1, NumberTypes, RoundTypes
  <2> QED BY <2>1, <2>2, <2>3 DEF Done
<1>2. /\ r > m.round => ReturnedTo(m, r)
      /\ m.locked_block # None /\ m.locked_round > r => ReturnedTo(m, r)
  BY ZenonT(60), WhenReturned
<1>3. m.locked_block # None /\ m.locked_round = r => m.locked_block = b
  BY ZenonT(60) DEF NodeInv, PolkaInv, Polka
<1>4. ASSUME NEW w, w.locked_block = b, w.locked_round = r
      PROVE  Yields(m, w)
  BY <1>1, <1>2, <1>3, <1>4 DEF Yields
<1>5. ASSUME NEW w, m.locked_block # b
      PROVE  Yields(m, w)
  BY <1>1, <1>2, <1>3, <1>5 DEF Yields
<1>6. Relocked(m, y) /\ y.locked_block = b /\ y.locked_round = r
  <2>1. r \in Rounds \cup {-1} /\ b \in Blocks \cup {None}
    OBVIOUS
  <2>2. /\ NodeInv(y) /\ y.locked_round = r /\ y.locked_block = b /\ y.signed = m.signed
        /\ y.height = m.height /\ y.round = m.round /\ y.step = m.step /\ y.votes = m.votes /\ y.store = m.store
    <3>1. NodeInv(y)
      BY ZenonT(60), <1>1, <2>1, RelockKeeps
    <3>2. /\ y.locked_round = r /\ y.locked_block = b /\ y.signed = m.signed
          /\ y.height = m.height /\ y.round = m.round /\ y.step = m.step /\ y.votes = m.votes /\ y.store = m.store
      BY <1>1 DEF NodeStates
    <3> QED BY <3>1, <3>2
  <2> HIDE DEF y
  <2> QED BY <1>4, <2>2 DEF Relocked
<1>7. m.locked_block = b => [m EXCEPT !.locked_round = r] = y
  <2> SUFFICES ASSUME m.locked_block = b PROVE [m EXCEPT !.locked_round = r] = y
    OBVIOUS
  <2>1. m = [m EXCEPT !.locked_block = m.locked_block]
    BY <1>1 DEF NodeStates
  <2>2. m = [m EXCEPT !.locked_block = b]
    BY <2>1
  <2> QED BY ZenonT(60), <1>1, <2>2 DEF NodeStates
<1>8. LET z == SignAddVote(y, "precommits", b) IN
      NodeInv(z) /\ MayPrecommit(m, z) /\ z.round = m.round /\ z.step = m.step /\ z.votes = m.votes
  <2> HIDE DEF y
  <2>1. r = m.round \/ (r > m.round /\ ReturnedTo(m, r))
    BY <1>1, <1>2
  <2> QED BY ZenonT(60), <1>1, <1>6, <2>1, SignPrecommitKeeps
<1>9. Relocked(m, m)
  <2>1. m.locked_round >= m.locked_round
    BY <1>1
  <2> QED BY <2>1 DEF Relocked, Yields
<1>10. NodeInv(Crash(m)) /\ MayPrecommit(m, Crash(m)) /\ SameCore(m, Crash(m))
  <2>1. MayPrecommit(m, m)
    BY ZenonT(60), <1>9 DEF Relocked, MayPrecommit, Grows
  <2> QED BY ZenonT(60), <2>1, EndKeeps, SameVotesTransitive
<1>11. /\ NodeInv(u) /\ u.proposal_block_parts = m.proposal_block_parts
       /\ u.height = m.height /\ u.round = m.round /\ u.step = m.step
       /\ u.votes = m.votes /\ u.store = m.store /\ u.signed = m.signed
  <2>1. u = [m EXCEPT !.locked_round = -1, !.locked_block = None]
    BY DEF Unlock
  <2>2. -1 \in Rounds \cup {-1} /\ None \in Blocks \cup {None}
    OBVIOUS
  <2> HIDE DEF u
  <2>3. NodeInv(u)
    BY ZenonT(60), <2>1, <2>2, RelockKeeps
  <2>4. /\ u.proposal_block_parts = m.proposal_block_parts
        /\ u.height = m.height /\ u.round = m.round /\ u.step = m.step
        /\ u.votes = m.votes /\ u.store = m.store /\ u.signed = m.signed
    BY <1>1, <2>1 DEF NodeStates
  <2> QED BY ZenonT(60), <2>3, <2>4
<1> HIDE DEF u
<1>12. NodeInv(f) /\ SameCore(u, f)
  <2>1. u \in NodeStates
    BY <1>11 DEF NodeInv
  <2>2. PICK q \in [header: Blocks \cup {None}, have: SUBSET (1..NumParts)] : q = NewPartSet(b)
    BY ZenonT(60) DEF NewPartSet
  <2>3. f \in NodeStates
    BY ZenonT(60), <2>1, <2>2 DEF NodeStates
  <2>4. SameCore(u, f) /\ f.ticks = u.ticks /\ f.proposal_block = None
    BY <2>1 DEF NodeStates, SameCore
  <2> HIDE DEF f
  <2> QED BY ZenonT(60), <1>11, <2>3, <2>4, SameCoreKeeps DEF PartsInv
<1> HIDE DEF f
<1>13. CASE m.locked_block = b
  BY <1>7, <1>8, <1>13 DEF PrecommitPolka
<1>14. CASE m.locked_block # b
  <2>1. Relocked(m, u) /\ Relocked(m, f)
    BY ZenonT(60), <1>5, <1>11, <1>12, <1>14 DEF Relocked, SameCore
  <2>2. ASSUME NEW w, Relocked(m, w)
        PROVE  LET z == PrecommitNil(w) IN
               NodeInv(z) /\ MayPrecommit(m, z) /\ z.round = m.round /\ z.step = m.step /\ z.votes = m.votes
    BY <1>1, <2>2, SignPrecommitKeeps DEF PrecommitNil
  <2> HIDE DEF y
  <2>3. \/ PrecommitPolka(m, r, b) = Crash(m)
        \/ PrecommitPolka(m, r, b) = SignAddVote(y, "precommits", b)
        \/ PrecommitPolka(m, r, b) = PrecommitNil(u)
        \/ PrecommitPolka(m, r, b) = PrecommitNil(f)
    BY ZenonT(60), <1>14 DEF PrecommitPolka, y, u, f
  <2> QED BY ZenonT(60), <1>8, <1>10, <2>1, <2>2, <2>3 DEF SameCore
<1> QED BY <1>13, <1>14

(* Giving up the lock keeps the invariant and all votes.                   *)
LEMMA UnlockKeeps ==
  ASSUME NodeConstants, NEW m, NodeInv(m)
  PROVE  LET u == Unlock(m) IN
         /\ NodeInv(u) /\ u.proposal_block_parts = m.proposal_block_parts
         /\ u.height = m.height /\ u.round = m.round /\ u.step = m.step /\ u.outcome = m.outcome
         /\ u.votes = m.votes /\ u.store = m.store /\ u.signed = m.signed
         /\ u.locked_block = None /\ u.locked_round = -1
<1> DEFINE u == Unlock(m)
<1>1. u = [m EXCEPT !.locked_round = -1, !.locked_block = None]
  BY DEF Unlock
<1>2. -1 \in Rounds \cup {-1} /\ None \in Blocks \cup {None} /\ m \in NodeStates
  BY DEF NodeInv
<1> HIDE DEF u
<1>3. NodeInv(u)
  BY ZenonT(60), <1>1, <1>2, RelockKeeps
<1>4. /\ u.proposal_block_parts = m.proposal_block_parts
      /\ u.height = m.height /\ u.round = m.round /\ u.step = m.step /\ u.outcome = m.outcome
      /\ u.votes = m.votes /\ u.store = m.store /\ u.signed = m.signed
      /\ u.locked_block = None /\ u.locked_round = -1
  BY ZenonT(60), <1>1, <1>2 DEF NodeStates
<1> QED BY <1>3, <1>4 DEF u

(* enter_precommit keeps the invariant, signs at most one precommit and,   *)
(* unless it is held back, is in the round.                                *)
LEMMA EnterPrecommitKeeps ==
  ASSUME NodeConstants, NEW m, NodeInv(m), NEW h, NEW r \in Rounds,
         m.height = h => r \in DOMAIN m.votes.sets /\ (r > m.round => Back(m))
  PROVE  LET z == EnterPrecommit(m, h, r) IN
         /\ NodeInv(z) /\ MayPrecommit(m, z) /\ z.votes = m.votes
         /\ Running(m) /\ m.height = h /\ r >= m.round => z.round = r
<1> DEFINE polka == Prevotes(m.votes, r).maj23
           voted == IF polka = None THEN PrecommitNil(m)
                    ELSE IF PolInfo(m.votes) < r THEN Throw(m)
                    ELSE IF polka = Nil THEN PrecommitNil(Unlock(m))
                    ELSE PrecommitPolka(m, r, polka)
           z == EnterPrecommit(m, h, r)
<1>1. m \in NodeStates /\ r \in Int /\ m.round \in Int /\ m.locked_round \in Int /\ m.step \in Int
  BY ZenonT(60), NumberTypes, RoundTypes DEF NodeInv
<1>2. Relocked(m, m) /\ MayPrecommit(m, m)
  <2>1. m.locked_round >= m.locked_round
    BY <1>1
  <2> QED BY ZenonT(60), <2>1 DEF Relocked, Yields, MayPrecommit, Grows
<1>3. CASE ~Running(m) \/ Done(m, h, r, Precommit)
  <2>1. z = m
    BY ZenonT(60), <1>3 DEF EnterPrecommit
  <2>2. Running(m) /\ m.height = h /\ r >= m.round => m.round = r
    BY <1>1, <1>3 DEF Done
  <2> HIDE DEF z
  <2> QED BY <1>2, <2>1, <2>2 DEF z
<1>4. CASE ~(~Running(m) \/ Done(m, h, r, Precommit))
  <2>1. /\ m.height = h /\ ~Done(m, m.height, r, Precommit) /\ r \in DOMAIN m.votes.sets
        /\ r > m.round => Back(m)
    BY ZenonT(60), <1>4 DEF Done
  <2>2. r >= m.round /\ (r = m.round => m.step # Commit)
    BY <1>1, <2>1 DEF Done, Precommit, Commit
  <2>3. polka \in BlockIds \cup {None} /\ Nil \in BlockIds /\ BlockIds = Blocks \cup {Nil} /\ Nil \notin Blocks
    <3>1. m.votes.sets[r]["prevotes"] \in VoteSets
      BY <1>1, <2>1, SetsType, FieldTypes DEF VoteTypes
    <3> QED BY ZenonT(60), <3>1, BlockIdAssumption DEF Prevotes, VoteSets, NodeConstants, ConsensusConstants
  <2>4. ASSUME NEW w, Relocked(m, w)
        PROVE  LET v == PrecommitNil(w) IN
               NodeInv(v) /\ MayPrecommit(m, v) /\ v.round = m.round /\ v.step = m.step /\ v.votes = m.votes
    BY ZenonT(60), <2>3, <2>4, SignPrecommitKeeps DEF PrecommitNil
  <2>5. polka = Nil => Relocked(m, Unlock(m))
    <3> SUFFICES ASSUME polka = Nil PROVE Relocked(m, Unlock(m))
      BY ZenonT(60)
    <3>1. m.locked_block # Nil /\ (m.locked_block # None /\ m.locked_round > r => ReturnedTo(m, r))
      BY ZenonT(60), <1>1, <2>1, <2>3, WhenReturned, BlockIdAssumption, FieldTypes
    <3>2. m.locked_block # None => m.locked_round # r
      BY ZenonT(60), <3>1 DEF NodeInv, PolkaInv
    <3>3. Polka(m, r, Nil)
      BY ZenonT(60), <2>1 DEF Polka
    <3>4. Yields(m, Unlock(m))
      BY <1>1, <2>3, <3>1, <3>2, <3>3 DEF Yields
    <3> QED BY ZenonT(60), <3>4, UnlockKeeps DEF Relocked
  <2>6. polka \in Blocks =>
          LET v == PrecommitPolka(m, r, polka) IN
          NodeInv(v) /\ MayPrecommit(m, v) /\ v.round = m.round /\ v.step = m.step /\ v.votes = m.votes
    BY ZenonT(60), <2>1, PrecommitPolkaKeeps DEF Polka
  <2>7. LET v == Throw(m) IN
        NodeInv(v) /\ MayPrecommit(m, v) /\ v.round = m.round /\ v.step = m.step /\ v.votes = m.votes
    BY ZenonT(60), <1>2, EndKeeps, SameVotesTransitive DEF SameCore
  <2> HIDE DEF polka
  <2>8. NodeInv(voted) /\ MayPrecommit(m, voted) /\ voted.round = m.round /\ voted.step = m.step /\ voted.votes = m.votes
    <3>1. CASE polka = None
      BY ZenonT(60), <1>2, <2>4, <3>1
    <3>2. CASE polka # None /\ PolInfo(m.votes) < r
      BY ZenonT(60), <2>7, <3>2
    <3>3. CASE polka # None /\ ~(PolInfo(m.votes) < r) /\ polka = Nil
      BY ZenonT(60), <2>4, <2>5, <3>3
    <3>4. CASE polka # None /\ ~(PolInfo(m.votes) < r) /\ polka # Nil
      BY ZenonT(60), <2>3, <2>6, <3>4
    <3> QED BY ZenonT(60), <3>1, <3>2, <3>3, <3>4
  <2>9. z = [voted EXCEPT !.round = r, !.step = Precommit]
    BY <1>4 DEF EnterPrecommit, polka
  <2> HIDE DEF voted, z
  <2>10. NodeInv(z)
    <3>1. Precommit \in NewHeight..PrecommitWait
      BY DEF Precommit, NewHeight, PrecommitWait
    <3> QED BY ZenonT(60), <2>1, <2>2, <2>8, <2>9, <3>1, MoveKeeps
  <2>11. /\ z.round = r /\ z.votes = voted.votes /\ z.height = voted.height /\ z.store = voted.store
         /\ z.signed = voted.signed /\ z.locked_block = voted.locked_block /\ z.locked_round = voted.locked_round
    BY <2>8, <2>9 DEF NodeInv, NodeStates
  <2>12. MayPrecommit(m, z)
    BY ZenonT(60), <2>8, <2>11 DEF MayPrecommit, Yields, Backed
  <2> QED BY ZenonT(60), <2>8, <2>10, <2>11, <2>12 DEF z
<1> QED BY ZenonT(60), <1>3, <1>4

(* triggered_timeout_precommit may be set in any state.                    *)
LEMMA FlagType ==
  ASSUME NEW y \in NodeStates, NEW x \in BOOLEAN
  PROVE  [y EXCEPT !.triggered_timeout_precommit = x] \in NodeStates
BY ZenonT(60) DEF NodeStates

(* enter_precommit_wait, called for the round of the node, sets a timeout  *)
(* and signs nothing.                                                      *)
LEMMA EnterPrecommitWaitKeeps ==
  ASSUME NodeConstants, NEW m, NodeInv(m), NEW h, NEW r \in Rounds,
         Running(m) /\ m.height = h /\ r >= m.round => r = m.round
  PROVE  LET z == EnterPrecommitWait(m, h, r) IN NodeInv(z) /\ Quiet(m, z)
<1> DEFINE y == ScheduleTimeout(m, h, r, PrecommitWait)
           z == EnterPrecommitWait(m, h, r)
<1>1. m \in NodeStates /\ r \in Int /\ m.round \in Int /\ Quiet(m, m)
  <2>1. m \in NodeStates /\ r \in Int /\ m.round \in Int
    BY ZenonT(60), NumberTypes, RoundTypes DEF NodeInv
  <2>2. Quiet(m, m)
    BY DEF Quiet, Opens, Grows
  <2> QED BY ZenonT(60), <2>1, <2>2
<1>2. CASE z = m \/ z = Throw(m)
  BY ZenonT(60), <1>1, <1>2, EndKeeps
<1>3. CASE ~(z = m \/ z = Throw(m))
  <2>1. /\ Running(m) /\ m.height = h /\ r >= m.round
        /\ z = [y EXCEPT !.triggered_timeout_precommit = TRUE]
    BY <1>1, <1>3 DEF EnterPrecommitWait
  <2>2. r \in DOMAIN m.votes.sets /\ ~(r > m.round) /\ y = ScheduleTimeout(m, m.height, r, PrecommitWait)
    BY <1>1, <2>1 DEF NodeInv, RoundsInv
  <2> HIDE DEF y, z
  <2>3. NodeInv(y) /\ y = [m EXCEPT !.old_ti = y.old_ti, !.ticks = y.ticks]
    BY ZenonT(60), <2>2, ScheduleTimeoutKeeps
  <2>4. y \in NodeStates /\ PartsInv(y)
    BY <2>3 DEF NodeInv
  <2>5. Quiet(m, y)
    BY ZenonT(60), <1>1, <2>3, <2>4 DEF NodeStates, Quiet, Opens, Grows
  <2>6. z \in NodeStates
    BY ZenonT(60), <2>1, <2>4, FlagType
  <2>7. SameCore(y, z) /\ z.ticks = y.ticks
    BY <2>1, <2>4 DEF NodeStates, SameCore
  <2>8. PartsInv(z)
    BY <2>1, <2>4 DEF NodeStates, PartsInv
  <2>9. NodeInv(z) /\ Quiet(y, z)
    BY ZenonT(60), <2>3, <2>6, <2>7, <2>8, SameCoreKeeps
  <2> QED BY ZenonT(60), <2>5, <2>9, QuietTransitive DEF z
<1> QED BY <1>2, <1>3

(* enter_prevote_wait, called for the round of the node, signs nothing.    *)
LEMMA EnterPrevoteWaitKeeps ==
  ASSUME NodeConstants, NEW m, NodeInv(m)
  PROVE  LET z == EnterPrevoteWait(m, m.height, m.round) IN NodeInv(z) /\ Quiet(m, z)
<1> DEFINE r == m.round
           y == ScheduleTimeout(m, m.height, r, PrevoteWait)
           z == EnterPrevoteWait(m, m.height, r)
<1>1. /\ m \in NodeStates /\ r \in Int /\ r \in Rounds /\ r \in DOMAIN m.votes.sets /\ m.step \in Int /\ Quiet(m, m)
  BY ZenonT(60), NumberTypes, FieldTypes, RoundTypes DEF NodeInv, RoundsInv, Quiet, Opens, Grows
<1>2. CASE z = m \/ z = Throw(m)
  BY ZenonT(60), <1>1, <1>2, EndKeeps
<1>3. CASE ~(z = m \/ z = Throw(m))
  <2>1. /\ m.step # Commit
        /\ z = [y EXCEPT !.round = r, !.step = PrevoteWait]
    BY <1>1, <1>3 DEF EnterPrevoteWait, Done, PrevoteWait, Commit
  <2>2. ~(r > m.round) /\ r >= m.round
    BY <1>1
  <2>3. NodeInv(y) /\ y = [m EXCEPT !.old_ti = y.old_ti, !.ticks = y.ticks]
    BY ZenonT(60), <1>1, <2>2, ScheduleTimeoutKeeps
  <2> HIDE DEF y, z
  <2>4. y \in NodeStates
    BY <2>3 DEF NodeInv
  <2>5. Quiet(m, y) /\ y.round = r /\ y.step = m.step /\ y.votes = m.votes
    BY ZenonT(60), <1>1, <2>3, <2>4 DEF NodeStates, Quiet, Opens, Grows
  <2> HIDE DEF r
  <2>6. NodeInv(z)
    <3>1. PrevoteWait \in NewHeight..PrecommitWait /\ r >= y.round
      BY <1>1, <2>5 DEF PrevoteWait, NewHeight, PrecommitWait
    <3> QED BY ZenonT(60), <1>1, <2>1, <2>3, <2>5, <3>1, MoveKeeps
  <2>7. Quiet(y, z)
    BY <2>1, <2>4 DEF NodeStates, Quiet, Opens, Grows
  <2> QED BY ZenonT(60), <2>5, <2>6, <2>7, QuietTransitive DEF z, r
<1> QED BY <1>2, <1>3
===============================================================================
