---------------------------- MODULE NodeHandlers -----------------------------
(***************************************************************************)
(* One node: committing (enter_commit, try_finalize_commit,                *)
(* update_to_state) and adding a proposal, a block part and a vote keep    *)
(* the invariant NodeInv, and sign, unlock and decide in the order of      *)
(* Handles.                                                                *)
(***************************************************************************)
EXTENDS NodeSteps

(* A call that may save the block of this height, and go on to the next.   *)
MayDecide(m, z) ==
  /\ z.signed = m.signed /\ StoreKept(m, z)
  /\ \/ /\ z.height = m.height /\ Grows(m.votes, z.votes)
        /\ z.locked_round = m.locked_round /\ z.locked_block = m.locked_block
     \/ /\ z.height = m.height + 1
        /\ z.last_commit.round \in Rounds /\ z.last_commit.votes.maj23 \in Blocks
        /\ Len(m.store) = m.height \/ z.store[m.height] = z.last_commit.votes.maj23

(* The height of a state may be any.                                       *)
LEMMA HeightType ==
  ASSUME NEW y \in NodeStates, NEW k \in Nat \ {0}
  PROVE  [y EXCEPT !.height = k] \in NodeStates
BY ZenonT(60) DEF NodeStates

(* The last commit of a state may be any round and votes.                  *)
LEMMA LastCommitType ==
  ASSUME NEW y \in NodeStates, NEW c \in [round: Rounds \cup {-1}, votes: VoteSets]
  PROVE  [y EXCEPT !.last_commit = c] \in NodeStates
BY ZenonT(60) DEF NodeStates

(* The round and step of a state may be any.                               *)
LEMMA PlaceType ==
  ASSUME NEW y \in NodeStates, NEW r \in Rounds, NEW s \in NewHeight..Commit
  PROVE  [y EXCEPT !.round = r, !.step = s] \in NodeStates
BY ZenonT(60) DEF NodeStates

(* A state with the votes, lock and valid block of a new height is a       *)
(* state.                                                                  *)
LEMMA FreshType ==
  ASSUME NEW y \in NodeStates, NEW g \in HeightVoteSets
  PROVE  [y EXCEPT !.locked_round = -1, !.locked_block = None, !.valid_round = -1,
                   !.valid_block = None, !.votes = g, !.commit_round = -1,
                   !.triggered_timeout_precommit = FALSE] \in NodeStates
BY ZenonT(60) DEF NodeStates

(* update_to_state, called once the block is saved, starts the next height *)
(* with the invariant, and with the precommits of the commit as its last   *)
(* commit.                                                                 *)
LEMMA UpdateToStateKeeps ==
  ASSUME NodeConstants, NEW m, NodeInv(m), m.step = Commit, Len(m.store) = m.height
  PROVE  LET z == UpdateToState(m) IN
         /\ NodeInv(z) /\ z.height = m.height + 1 /\ z.signed = m.signed /\ z.store = m.store
         /\ z.last_commit = [round |-> m.commit_round, votes |-> Precommits(m.votes, m.commit_round)]
<1> DEFINE lc == [round |-> m.commit_round, votes |-> Precommits(m.votes, m.commit_round)]
           y == [m EXCEPT !.last_commit = lc,
              !.height = @ + 1, !.round = 0, !.step = NewHeight, !.rotation = 0,
              !.proposal = None, !.proposal_block = None, !.proposal_block_parts = NoParts,
              !.locked_round = -1, !.locked_block = None,
              !.valid_round = -1, !.valid_block = None,
              !.votes = NewHeightVoteSet, !.commit_round = -1,
              !.triggered_timeout_precommit = FALSE]
           z == UpdateToState(m)
<1>1. m \in NodeStates /\ m.height \in Nat /\ m.height # 0 /\ 0 \in Rounds /\ 0 \in Int
  BY ZenonT(60), NumberTypes, RoundTypes DEF NodeInv
<1>2. lc \in [round: Rounds \cup {-1}, votes: VoteSets] /\ lc.round \in Rounds
  <2>1. m.commit_round \in Rounds /\ m.commit_round \in DOMAIN m.votes.sets
    BY DEF NodeInv, RoundsInv
  <2>2. Precommits(m.votes, m.commit_round) \in VoteSets
    BY <1>1, <2>1, SetsType, FieldTypes DEF Precommits, VoteTypes
  <2> QED BY ZenonT(60), <2>1, <2>2
<1>3. /\ NewHeightVoteSet \in HeightVoteSets /\ NewHeightVoteSet.round = 0
      /\ DOMAIN NewHeightVoteSet.sets = {0}
  BY NewHeightVoteSetType
<1>4. NoParts \in [header: Blocks \cup {None}, have: SUBSET (1..NumParts)]
  BY DEF NoParts
<1>5. NewHeight \in NewHeight..Commit /\ NewHeight # Commit
  BY DEF NewHeight, Commit
<1>6. m.height + 1 \in Nat \ {0}
  BY <1>1
<1>7. z = ScheduleTimeout(y, m.height + 1, 0, NewHeight)
  BY DEF UpdateToState
<1> HIDE DEF lc
<1>8. y \in NodeStates
  <2>1. PICK a : a = [m EXCEPT !.last_commit = lc]
    BY ZenonT(60)
  <2>2. PICK b : b = [a EXCEPT !.height = m.height + 1]
    BY ZenonT(60)
  <2>3. PICK c : c = [b EXCEPT !.rotation = 0, !.proposal = None, !.proposal_block = None,
                               !.proposal_block_parts = NoParts]
    OBVIOUS
  <2>4. PICK d : d = [c EXCEPT !.round = 0, !.step = NewHeight]
    OBVIOUS
  <2>5. y = [d EXCEPT !.locked_round = -1, !.locked_block = None, !.valid_round = -1,
                      !.valid_block = None, !.votes = NewHeightVoteSet, !.commit_round = -1,
                      !.triggered_timeout_precommit = FALSE]
    BY ZenonT(60), <2>1, <2>2, <2>3, <2>4
  <2> HIDE DEF y
  <2>6. a \in NodeStates
    BY <1>1, <1>2, <2>1, LastCommitType
  <2>7. b \in NodeStates
    BY <1>6, <2>2, <2>6, HeightType
  <2>8. c \in NodeStates
    BY ZenonT(60), <1>1, <2>3, <2>7, ClearedType
  <2>9. d \in NodeStates
    BY ZenonT(60), <1>1, <1>5, <2>4, <2>8, PlaceType
  <2> QED BY ZenonT(60), <1>3, <2>5, <2>9, FreshType
<1>9. /\ y.last_commit = lc /\ y.height = m.height + 1 /\ y.round = 0 /\ y.step = NewHeight
      /\ y.proposal_block = None /\ y.locked_block = None /\ y.valid_block = None
      /\ y.votes = NewHeightVoteSet /\ y.signed = m.signed /\ y.last_sign = m.last_sign
      /\ y.store = m.store /\ y.ticks = m.ticks
  BY <1>1 DEF NodeStates
<1> HIDE DEF y, z
<1>10. NodeInv(y)
  <2>1. RoundsInv(y)
    <3>1. 0..y.votes.round \subseteq DOMAIN y.votes.sets /\ y.round \in DOMAIN y.votes.sets
      BY <1>3, <1>9
    <3>2. m.ticks \subseteq Ticks /\ \A t \in m.ticks : t.height <= m.height
      BY ZenonT(60), <1>1, FieldTypes DEF NodeInv, RoundsInv
    <3>3. m.height \in Nat /\ \A t \in m.ticks : t.height \in Nat
      BY ZenonT(60), <1>1, <3>2, NumberTypes DEF Ticks
    <3>4. \A t \in m.ticks : t.height <= m.height + 1 /\ t.height # m.height + 1
      BY <3>2, <3>3
    <3>5. \A t \in y.ticks : t.height <= y.height /\ t.height # y.height
      BY ZenonT(60), <1>9, <3>4
    <3> QED BY ZenonT(60), <1>5, <1>9, <3>1, <3>5 DEF RoundsInv
  <2>2. PolkaInv(y) /\ PartsInv(y)
    BY ZenonT(60), <1>9 DEF PolkaInv, PartsInv
  <2>3. SignedInv(y)
    BY <1>9 DEF NodeInv, SignedInv
  <2>4. BackInv(y)
    <3>1. \A t \in m.ticks : t.height <= m.height /\ t.height \in Nat
      BY ZenonT(60), <1>1, NumberTypes, FieldTypes DEF NodeInv, RoundsInv, Ticks
    <3>2. \A t \in y.ticks : t.height # y.height
      BY <1>1, <1>9, <3>1
    <3> QED BY ZenonT(60), <1>9, <3>2 DEF BackInv
  <2>5. StoreInv(y)
    BY <1>1, <1>9 DEF StoreInv
  <2> QED BY ZenonT(60), <1>8, <2>1, <2>2, <2>3, <2>4, <2>5 DEF NodeInv
<1>11. NodeInv(z) /\ z = [y EXCEPT !.old_ti = z.old_ti, !.ticks = z.ticks]
  <2>1. 0 \in DOMAIN y.votes.sets /\ ~(0 > y.round)
    BY <1>3, <1>9
  <2>2. z = ScheduleTimeout(y, y.height, 0, NewHeight)
    BY <1>7, <1>9
  <2> QED BY ZenonT(60), <1>1, <1>10, <2>1, <2>2, ScheduleTimeoutKeeps
<1>12. z.height = y.height /\ z.signed = y.signed /\ z.store = y.store /\ z.last_commit = y.last_commit
  BY ZenonT(60), <1>8, <1>11 DEF NodeStates
<1> QED BY <1>9, <1>11, <1>12 DEF z, lc

(* save_block                                                              *)
LEMMA SaveKeeps ==
  ASSUME NodeConstants, NEW m, NodeInv(m), Len(m.store) < m.height,
         NEW q \in Rounds, Committed(m, q), NEW b, b = Precommits(m.votes, q).maj23
  PROVE  LET z == [m EXCEPT !.store = Append(m.store, b)] IN
         /\ NodeInv(z) /\ z.store = Append(m.store, b) /\ Len(z.store) = m.height
         /\ z.store[m.height] = b /\ StoreKept(m, z)
<1> DEFINE st == Append(m.store, b)
           z == [m EXCEPT !.store = st]
<1>1. /\ m \in NodeStates /\ m.height \in Nat /\ b \in Blocks /\ m.store \in Seq(Blocks)
      /\ Len(m.store) = m.height - 1
  BY NumberTypes, FieldTypes DEF NodeInv, StoreInv, Committed
<1>2. /\ st \in Seq(Blocks) /\ Len(st) = m.height /\ st[m.height] = b
      /\ \A i \in 1..Len(m.store) : st[i] = m.store[i]
  BY <1>1
<1> HIDE DEF st
<1>3. z \in NodeStates
  BY ZenonT(60), <1>1, <1>2 DEF NodeStates
<1>4. /\ z.store = st
      /\ z.height = m.height /\ z.round = m.round /\ z.step = m.step
      /\ z.votes = m.votes /\ z.commit_round = m.commit_round
      /\ z.locked_round = m.locked_round /\ z.locked_block = m.locked_block
      /\ z.valid_round = m.valid_round /\ z.valid_block = m.valid_block
      /\ z.signed = m.signed /\ z.last_sign = m.last_sign /\ z.ticks = m.ticks
      /\ z.proposal_block = m.proposal_block /\ z.proposal_block_parts = m.proposal_block_parts
  BY <1>1 DEF NodeStates
<1> HIDE DEF z
<1>5. PartsInv(z) /\ SignedInv(z) /\ RoundsInv(z) /\ PolkaInv(z)
  BY ZenonT(60), <1>4 DEF NodeInv, PartsInv, SignedInv, RoundsInv, PolkaInv
<1>6. BackInv(z)
  BY ZenonT(60), <1>4 DEF NodeInv, BackInv, Back, Committed
<1>7. StoreInv(z)
  BY ZenonT(60), <1>2, <1>4 DEF StoreInv, Committed
<1>8. StoreKept(m, z)
  BY <1>1, <1>2, <1>4 DEF StoreKept
<1> QED BY ZenonT(60), <1>2, <1>3, <1>4, <1>5, <1>6, <1>7, <1>8 DEF NodeInv, z, st

(* finalize_commit                                                         *)
LEMMA FinalizeCommitKeeps ==
  ASSUME NodeConstants, NEW m, NodeInv(m), m.step = Commit,
         NEW b \in Blocks, b = Precommits(m.votes, m.commit_round).maj23
  PROVE  LET z == FinalizeCommit(m, b) IN
         /\ NodeInv(z) /\ MayDecide(m, z) /\ (z.height = m.height => z.step = m.step)
         /\ z.height # m.height => z.last_commit.round = m.commit_round /\ z.last_commit.votes.maj23 = b
<1> DEFINE y == [m EXCEPT !.store = Append(m.store, b)]
           saved == [m EXCEPT !.store = IF Len(@) < m.height THEN Append(@, b) ELSE @]
           z == FinalizeCommit(m, b)
           Ok(w) == /\ NodeInv(w) /\ MayDecide(m, w) /\ (w.height = m.height => w.step = m.step)
                    /\ w.height # m.height => w.last_commit.round = m.commit_round /\ w.last_commit.votes.maj23 = b
<1>1. /\ m \in NodeStates /\ m.height \in Nat /\ m.store \in Seq(Blocks)
      /\ m.commit_round \in Rounds /\ Committed(m, m.commit_round)
      /\ Len(m.store) \in {m.height - 1, m.height}
  BY ZenonT(60), NumberTypes, FieldTypes DEF NodeInv, RoundsInv, Committed, StoreInv
<1>2. StoreKept(m, m) /\ m.height # m.height + 1
  BY <1>1 DEF StoreKept
<1>3. Ok(m) /\ Ok(Throw(m)) /\ Ok(Crash(m))
  BY ZenonT(60), <1>2, EndKeeps DEF MayDecide, Grows, SameCore, StoreKept
<1>4. saved = IF Len(m.store) < m.height THEN y ELSE m
  <2>1. m = [m EXCEPT !.store = m.store]
    BY <1>1 DEF NodeStates
  <2>2. CASE Len(m.store) < m.height
    BY <1>1, <2>2 DEF NodeStates
  <2>3. CASE ~(Len(m.store) < m.height)
    BY ZenonT(60), <1>1, <2>1, <2>3 DEF NodeStates
  <2> QED BY <2>2, <2>3
<1>5. Len(m.store) < m.height =>
        /\ NodeInv(y) /\ y.store = Append(m.store, b) /\ Len(y.store) = m.height
        /\ y.store[m.height] = b /\ StoreKept(m, y)
  BY <1>1, SaveKeeps
<1>6. /\ y.height = m.height /\ y.step = m.step /\ y.votes = m.votes /\ y.commit_round = m.commit_round
      /\ y.signed = m.signed /\ y.locked_round = m.locked_round /\ y.locked_block = m.locked_block
  BY <1>1 DEF NodeStates
<1> HIDE DEF saved, y
<1>7. /\ NodeInv(saved) /\ StoreKept(m, saved) /\ Len(saved.store) = m.height
      /\ saved.height = m.height /\ saved.step = m.step /\ saved.votes = m.votes
      /\ saved.commit_round = m.commit_round /\ saved.signed = m.signed
      /\ saved.locked_round = m.locked_round /\ saved.locked_block = m.locked_block
      /\ Len(m.store) = m.height \/ saved.store[m.height] = b
  <2>1. CASE Len(m.store) < m.height
    BY ZenonT(60), <1>4, <1>5, <1>6, <2>1
  <2>2. CASE ~(Len(m.store) < m.height)
    <3>1. Len(m.store) = m.height
      BY <1>1, <2>2
    <3> QED BY ZenonT(60), <1>2, <1>4, <2>2, <3>1
  <2> QED BY ZenonT(60), <2>1, <2>2
<1>8. Ok(saved)
  BY ZenonT(60), <1>7 DEF MayDecide, Grows
<1>9. Ok(UpdateToState(saved))
  <2> DEFINE u == UpdateToState(saved)
  <2>1. /\ NodeInv(u) /\ u.height = saved.height + 1 /\ u.signed = saved.signed /\ u.store = saved.store
        /\ u.last_commit = [round |-> saved.commit_round, votes |-> Precommits(saved.votes, saved.commit_round)]
    BY ZenonT(60), <1>7, UpdateToStateKeeps
  <2> HIDE DEF u
  <2>2. /\ u.height = m.height + 1 /\ u.last_commit.round \in Rounds
        /\ u.last_commit.round = m.commit_round /\ u.last_commit.votes.maj23 = b
    BY <1>1, <1>7, <2>1
  <2>3. MayDecide(m, u)
    BY ZenonT(60), <1>7, <2>1, <2>2 DEF MayDecide, StoreKept
  <2> QED BY ZenonT(60), <1>2, <2>1, <2>2, <2>3 DEF u
<1>10. z \in {m, Throw(m), Crash(m), saved, UpdateToState(saved)}
  BY DEF FinalizeCommit, saved
<1> HIDE DEF z
<1> QED BY ZenonT(60), <1>3, <1>8, <1>9, <1>10 DEF z

(* try_finalize_commit goes to the next height only with the block that    *)
(* has the majority of precommits, saved.                                  *)
LEMMA TryFinalizeCommitKeeps ==
  ASSUME NodeConstants, NEW m, NodeInv(m), m.step = Commit, NEW h
  PROVE  LET z == TryFinalizeCommit(m, h) IN
         /\ NodeInv(z) /\ MayDecide(m, z) /\ (z.height = m.height => z.step = m.step)
         /\ z.height # m.height =>
              /\ z.last_commit.round = m.commit_round
              /\ z.last_commit.votes.maj23 = Precommits(m.votes, m.commit_round).maj23
<1> DEFINE b == Precommits(m.votes, m.commit_round).maj23
           z == TryFinalizeCommit(m, h)
           Ok(w) == /\ NodeInv(w) /\ MayDecide(m, w) /\ (w.height = m.height => w.step = m.step)
                    /\ w.height # m.height => w.last_commit.round = m.commit_round /\ w.last_commit.votes.maj23 = b
<1>1. b \notin {None, Nil} => b \in Blocks
  <2>1. Precommits(m.votes, m.commit_round) \in VoteSets
    BY SetsType, FieldTypes DEF NodeInv, RoundsInv, Precommits, VoteTypes
  <2> QED BY ZenonT(60), <2>1 DEF VoteSets, NodeConstants, ConsensusConstants
<1>2. StoreKept(m, m)
  BY FieldTypes DEF NodeInv, StoreKept
<1>3. Ok(m) /\ Ok(Crash(m))
  BY ZenonT(60), <1>2, EndKeeps DEF MayDecide, Grows, SameCore, StoreKept
<1>4. b \in Blocks => Ok(FinalizeCommit(m, b))
  BY ZenonT(60), FinalizeCommitKeeps
<1>5. z \in {m, Crash(m)} \/ (b \in Blocks /\ z = FinalizeCommit(m, b))
  BY <1>1 DEF TryFinalizeCommit
<1> HIDE DEF z
<1> QED BY ZenonT(60), <1>3, <1>4, <1>5 DEF z

(* The proposal block and its parts may be any.                            *)
LEMMA ProposalType ==
  ASSUME NEW y \in NodeStates, NEW b \in Blocks \cup {None},
         NEW p \in [header: Blocks \cup {None}, have: SUBSET (1..NumParts)]
  PROVE  [y EXCEPT !.proposal_block = b, !.proposal_block_parts = p] \in NodeStates
BY ZenonT(60) DEF NodeStates

(* Another proposal block, none or a whole one.                            *)
LEMMA ProposalKeeps ==
  ASSUME NEW m, NodeInv(m), NEW b \in Blocks \cup {None},
         NEW p \in [header: Blocks \cup {None}, have: SUBSET (1..NumParts)],
         b # None => p = [header |-> b, have |-> 1..NumParts]
  PROVE  LET z == [m EXCEPT !.proposal_block = b, !.proposal_block_parts = p] IN
         /\ NodeInv(z) /\ SameCore(m, z) /\ Quiet(m, z) /\ z.outcome = m.outcome /\ z.build = m.build
         /\ z.proposal = m.proposal /\ z.proposal_block = b /\ z.proposal_block_parts = p
<1> DEFINE z == [m EXCEPT !.proposal_block = b, !.proposal_block_parts = p]
<1>1. m \in NodeStates
  BY DEF NodeInv
<1>2. z \in NodeStates
  BY ZenonT(60), <1>1, ProposalType
<1>3. /\ SameCore(m, z) /\ z.ticks = m.ticks /\ z.outcome = m.outcome /\ z.build = m.build
      /\ z.proposal = m.proposal /\ z.proposal_block = b /\ z.proposal_block_parts = p
  BY <1>1 DEF NodeStates, SameCore
<1> HIDE DEF z
<1>4. PartsInv(z)
  BY ZenonT(60), <1>3 DEF PartsInv
<1> QED BY ZenonT(60), <1>2, <1>3, <1>4, SameCoreKeeps DEF z

(* The step to Commit, in the round of the commit.                         *)
LEMMA CommitMoveKeeps ==
  ASSUME NodeConstants, NEW m, NodeInv(m), NEW r \in Rounds, Committed(m, r)
  PROVE  LET z == [m EXCEPT !.round = r, !.step = Commit, !.commit_round = r] IN
         NodeInv(z) /\ Quiet(m, z) /\ z.step = Commit
<1> DEFINE z == [m EXCEPT !.round = r, !.step = Commit, !.commit_round = r]
<1>1. m \in NodeStates /\ Commit \in NewHeight..Commit
  BY DEF NodeInv, NewHeight, Commit
<1>2. z \in NodeStates
  BY ZenonT(60), <1>1 DEF NodeStates
<1>3. /\ z.round = r /\ z.step = Commit /\ z.commit_round = r /\ z.outcome = m.outcome
      /\ z.height = m.height /\ z.votes = m.votes /\ z.ticks = m.ticks
      /\ z.locked_round = m.locked_round /\ z.locked_block = m.locked_block
      /\ z.valid_round = m.valid_round /\ z.valid_block = m.valid_block
      /\ z.signed = m.signed /\ z.last_sign = m.last_sign /\ z.store = m.store
      /\ z.last_commit = m.last_commit
      /\ z.proposal_block = m.proposal_block /\ z.proposal_block_parts = m.proposal_block_parts
  BY <1>1 DEF NodeStates
<1> HIDE DEF z
<1>4. PartsInv(z) /\ SignedInv(z) /\ PolkaInv(z) /\ StoreInv(z)
  BY ZenonT(60), <1>3 DEF NodeInv, PartsInv, SignedInv, PolkaInv, StoreInv, Committed
<1>5. RoundsInv(z)
  BY ZenonT(60), <1>3 DEF NodeInv, RoundsInv, Committed
<1>6. Back(z)
  BY <1>3 DEF Back, Committed
<1>7. BackInv(z)
  BY ZenonT(60), <1>6 DEF BackInv
<1>8. Quiet(m, z)
  BY ZenonT(60), <1>3 DEF Quiet, Opens, Grows
<1> QED BY ZenonT(60), <1>2, <1>3, <1>4, <1>5, <1>7, <1>8 DEF NodeInv, z

(* A call that signs nothing, and then one that may decide.                *)
LEMMA QuietThenMayDecide ==
  ASSUME NEW m, NEW y, NEW z, Quiet(m, y), MayDecide(y, z)
  PROVE  MayDecide(m, z)
<1>1. /\ y.height = m.height /\ y.store = m.store /\ y.signed = m.signed /\ Grows(m.votes, y.votes)
      /\ y.locked_round = m.locked_round /\ y.locked_block = m.locked_block
  BY ZenonT(60) DEF Quiet, Opens
<1>2. StoreKept(m, z)
  BY <1>1 DEF MayDecide, StoreKept
<1> QED BY ZenonT(60), <1>1, <1>2, GrowsTransitive DEF MayDecide

(* enter_commit, called for a round with a majority of precommits for a    *)
(* block, keeps the invariant though it sets the round back.               *)
LEMMA EnterCommitKeeps ==
  ASSUME NodeConstants, NEW m, NodeInv(m), NEW h, NEW r \in Rounds, Committed(m, r), m.height = h
  PROVE  LET z == EnterCommit(m, h, r) IN
         /\ NodeInv(z) /\ MayDecide(m, z)
         /\ Running(z) /\ z.height = m.height => z.step = Commit
         /\ z.height # m.height =>
              z.last_commit.round = r /\ z.last_commit.votes.maj23 = Precommits(m.votes, r).maj23
<1> DEFINE b      == Precommits(m.votes, r).maj23
           whole  == [header |-> b, have |-> 1..NumParts]
           moved  == IF m.locked_block # b THEN m
                     ELSE [m EXCEPT !.proposal_block = b, !.proposal_block_parts = whole]
           fetch  == IF moved.proposal_block = b \/ moved.proposal_block_parts.header = b THEN moved
                     ELSE [moved EXCEPT !.proposal_block = None,
                                        !.proposal_block_parts = NewPartSet(b)]
           entered == [fetch EXCEPT !.round = r, !.step = Commit, !.commit_round = r]
           result == TryFinalizeCommit(entered, h)
           z == EnterCommit(m, h, r)
           Ok(w) == /\ NodeInv(w) /\ MayDecide(m, w) /\ (Running(w) /\ w.height = m.height => w.step = Commit)
                    /\ w.height # m.height => w.last_commit.round = r /\ w.last_commit.votes.maj23 = b
<1> HIDE DEF b, whole, moved, fetch, entered, result, z, Ok
<1>1. b \in Blocks /\ b # None /\ m \in NodeStates /\ m.step \in Int /\ m.step <= Commit
  <2>1. b \in Blocks /\ b # None
    BY BlockIdAssumption DEF Committed, NodeConstants, ConsensusConstants, b
  <2>2. m \in NodeStates
    BY DEF NodeInv
  <2> QED BY <2>1, <2>2, NumberTypes DEF NewHeight, Commit
<1>2. PICK p \in [header: Blocks \cup {None}, have: SUBSET (1..NumParts)] : p = whole
  BY ZenonT(60), <1>1 DEF whole
<1>3. PICK e \in [header: Blocks \cup {None}, have: SUBSET (1..NumParts)] : e = NewPartSet(b)
  BY ZenonT(60), <1>1 DEF NewPartSet
<1>4. NodeInv(moved) /\ SameCore(m, moved) /\ Quiet(m, moved)
  <2>1. CASE m.locked_block # b
    BY <2>1 DEF moved, SameCore, Quiet, Opens, Grows
  <2>2. CASE m.locked_block = b
    <3>1. moved = [m EXCEPT !.proposal_block = b, !.proposal_block_parts = p]
      BY <1>2, <2>2 DEF moved
    <3> QED BY ZenonT(60), <1>1, <1>2, <3>1, ProposalKeeps DEF whole
  <2> QED BY <2>1, <2>2
<1>5. NodeInv(fetch) /\ SameCore(moved, fetch) /\ Quiet(moved, fetch)
  <2>1. CASE fetch = moved
    BY <1>4, <2>1 DEF SameCore, Quiet, Opens, Grows
  <2>2. CASE fetch # moved
    <3>1. fetch = [moved EXCEPT !.proposal_block = None, !.proposal_block_parts = e]
      BY ZenonT(60), <1>3, <2>2 DEF fetch
    <3> QED BY ZenonT(60), <1>3, <1>4, <3>1, ProposalKeeps
  <2> QED BY ZenonT(60), <2>1, <2>2
<1>6. Quiet(m, fetch) /\ Committed(fetch, r) /\ fetch.height = m.height /\ fetch.votes = m.votes
  BY ZenonT(60), <1>4, <1>5, QuietTransitive DEF SameCore, Committed
<1>7. /\ NodeInv(entered) /\ Quiet(fetch, entered) /\ entered.step = Commit
      /\ entered.commit_round = r /\ entered.votes = fetch.votes
  <2>1. NodeInv(entered) /\ Quiet(fetch, entered) /\ entered.step = Commit
    BY ZenonT(60), <1>5, <1>6, CommitMoveKeeps DEF entered
  <2>2. entered.commit_round = r /\ entered.votes = fetch.votes
    BY <1>5 DEF entered, NodeInv, NodeStates
  <2> QED BY <2>1, <2>2
<1>8. Ok(result)
  <2>1. /\ NodeInv(result) /\ MayDecide(entered, result) /\ (result.height = entered.height => result.step = entered.step)
        /\ result.height # entered.height =>
             /\ result.last_commit.round = entered.commit_round
             /\ result.last_commit.votes.maj23 = Precommits(entered.votes, entered.commit_round).maj23
    BY ZenonT(60), <1>1, <1>6, <1>7, TryFinalizeCommitKeeps DEF result
  <2>2. Quiet(m, entered)
    BY ZenonT(60), <1>6, <1>7, QuietTransitive
  <2>3. entered.height = m.height
    BY ZenonT(60), <2>2 DEF Quiet
  <2> QED BY ZenonT(60), <1>6, <1>7, <2>1, <2>2, <2>3, QuietThenMayDecide DEF Ok, b
<1>9. Ok(Crash(result)) /\ Ok(Crash(m))
  <2>1. ASSUME NEW w, NodeInv(w), MayDecide(m, w),
               w.height # m.height => w.last_commit.round = r /\ w.last_commit.votes.maj23 = b
        PROVE  Ok(Crash(w))
    <3>1. NodeInv(Crash(w)) /\ SameCore(w, Crash(w))
      BY <2>1, EndKeeps
    <3>2. w \in NodeStates
      BY <2>1 DEF NodeInv
    <3>3. Crash(w).last_commit = w.last_commit /\ ~Running(Crash(w))
      BY ZenonT(60), <3>2 DEF Crash, Running, NodeStates
    <3> QED BY ZenonT(60), <2>1, <3>1, <3>3 DEF Ok, MayDecide, SameCore, StoreKept
  <2>2. MayDecide(m, m)
    BY <1>1, FieldTypes DEF MayDecide, StoreKept, Grows
  <2> QED BY <1>8, <2>1, <2>2 DEF Ok
<1>10. \/ z = m /\ (~Running(m) \/ Commit <= m.step)
       \/ z \in {Crash(m), result, Crash(result)}
  BY DEF EnterCommit, b, whole, moved, fetch, entered, result, z
<1>11. MayDecide(m, m) /\ (Commit <= m.step => m.step = Commit)
  <2>1. MayDecide(m, m)
    BY <1>1, FieldTypes DEF MayDecide, StoreKept, Grows
  <2>2. Commit <= m.step => m.step = Commit
    BY <1>1 DEF Commit
  <2> QED BY ZenonT(60), <2>1, <2>2
<1> QED BY ZenonT(60), <1>8, <1>9, <1>10, <1>11 DEF Ok, b, z

-----------------------------------------------------------------------------
(* The handlers                                                            *)

(* Each phase may be empty.                                                *)
LEMMA PhasesReflexive ==
  ASSUME NodeConstants, NEW m, NodeInv(m)
  PROVE  MayUnlock(m, m) /\ MayPrecommit(m, m) /\ MayEnd(m, m) /\ Quiet(m, m) /\ MayDecide(m, m)
<1>1. /\ m.locked_round \in Int /\ Len(m.store) \in Nat
  BY NumberTypes, FieldTypes, RoundTypes DEF NodeInv
<1>2. Grows(m.votes, m.votes) /\ StoreKept(m, m) /\ Quiet(m, m)
  BY <1>1 DEF Opens, Grows, StoreKept, Quiet
<1>3. MayUnlock(m, m)
  BY <1>2 DEF MayUnlock
<1>4. MayPrecommit(m, m)
  BY <1>1, <1>2 DEF MayPrecommit, Yields
<1>5. MayEnd(m, m) /\ MayDecide(m, m)
  BY <1>2 DEF MayEnd, MayDecide
<1> QED BY <1>2, <1>3, <1>4, <1>5

(* Deciding is a last phase.                                               *)
LEMMA MayDecideIsMayEnd ==
  ASSUME NEW x, NEW z, MayDecide(x, z)
  PROVE  MayEnd(x, z)
BY DEF MayDecide, MayEnd

(* So is a call that signs nothing and leaves the lock.                    *)
LEMMA QuietIsMayEnd ==
  ASSUME NodeConstants, NEW x, NodeInv(x), NEW z, Quiet(x, z)
  PROVE  MayEnd(x, z)
<1>1. StoreKept(x, x)
  BY PhasesReflexive DEF MayEnd
<1> QED BY <1>1 DEF Quiet, Opens, MayEnd, StoreKept

(* Signing a prevote for the lock is a first phase.                        *)
LEMMA MayPrevoteIsMayUnlock ==
  ASSUME NEW m, NEW z, MayPrevote(m, z)
  PROVE  MayUnlock(m, z)
BY DEF MayPrevote, MayUnlock, Opens

(* When the votes grow, a polka stays.                                     *)
LEMMA PolkasStay ==
  ASSUME NodeConstants, NEW m, NEW z, Grows(m.votes, z.votes)
  PROVE  \A q, b : b \in BlockIds /\ Polka(m, q, b) => Polka(z, q, b)
BY BlockIdAssumption DEF Grows, Polka, Prevotes, VoteTypes

(* Learning, unlocking and then prevoting.                                 *)
LEMMA MayUnlockThenPrevote ==
  ASSUME NodeConstants, NEW m, NEW y, NEW z, MayUnlock(m, y), y.signed = m.signed, MayPrevote(y, z)
  PROVE  MayUnlock(m, z)
<1>1. Grows(y.votes, z.votes) /\ Grows(m.votes, z.votes)
  BY GrowsTransitive DEF MayUnlock, MayPrevote, Opens
<1>2. Outvoted(m, y) => Outvoted(m, z)
  BY <1>1, PolkasStay DEF Outvoted
<1> QED BY <1>1, <1>2 DEF MayUnlock, MayPrevote

(* Three phases make a handler.                                            *)
LEMMA HandlesPhases ==
  ASSUME NodeConstants, NEW m, NEW y, NEW x, NEW z,
         MayUnlock(m, y), MayPrecommit(y, x), MayEnd(x, z), z.height = m.height \/ Known(m, y, z)
  PROVE  Handles(m, z)
BY DEF Handles

(* A handler may end after its first phase (a timeout of Propose).         *)
LEMMA HandlesUnlock ==
  ASSUME NodeConstants, NEW m, NEW z, MayUnlock(m, z), NodeInv(z)
  PROVE  Handles(m, z)
<1>1. z.height = m.height
  BY DEF MayUnlock
<1> QED BY <1>1, PhasesReflexive, HandlesPhases

(* A handler may end after its second phase (a polka).                     *)
LEMMA HandlesPrecommit ==
  ASSUME NodeConstants, NEW m, NEW y, NEW z, MayUnlock(m, y), MayPrecommit(y, z), NodeInv(z)
  PROVE  Handles(m, z)
<1>1. z.height = m.height
  BY DEF MayUnlock, MayPrecommit
<1> QED BY <1>1, PhasesReflexive, HandlesPhases

(* After a precommit, a handler may set a timeout (enter_precommit_wait).  *)
LEMMA HandlesThenQuiet ==
  ASSUME NodeConstants, NEW m, NEW y, NEW x, NEW z, MayUnlock(m, y), MayPrecommit(y, x),
         NodeInv(x), Quiet(x, z)
  PROVE  Handles(m, z)
<1>1. z.height = m.height
  BY DEF MayUnlock, MayPrecommit, Quiet
<1> QED BY ZenonT(60), <1>1, QuietIsMayEnd, HandlesPhases

(* A handler may decide without signing at this height (a last part).      *)
LEMMA HandlesDecide ==
  ASSUME NodeConstants, NEW m, NodeInv(m), NEW z, MayDecide(m, z)
  PROVE  Handles(m, z)
<1>1. Known(m, m, z)
  BY DEF Known
<1> QED BY ZenonT(60), <1>1, PhasesReflexive, MayDecideIsMayEnd, HandlesPhases

(* A handler may sign nothing.                                             *)
LEMMA HandlesQuiet ==
  ASSUME NodeConstants, NEW m, NodeInv(m), NEW z, Quiet(m, z)
  PROVE  Handles(m, z)
BY PhasesReflexive, HandlesThenQuiet

(* A handler may begin with what signs nothing.                            *)
LEMMA QuietThenHandles ==
  ASSUME NodeConstants, NEW m, NEW w, NEW z, Quiet(m, w), Handles(w, z)
  PROVE  Handles(m, z)
<1>1. PICK y, x : /\ MayUnlock(w, y) /\ MayPrecommit(y, x) /\ MayEnd(x, z)
                  /\ z.height # w.height => Known(w, y, z)
  BY DEF Handles
<1>2. MayUnlock(m, y)
  <2>1. Grows(m.votes, y.votes)
    BY <1>1, GrowsTransitive DEF Quiet, Opens, MayUnlock
  <2>2. Outvoted(w, y) => Outvoted(m, y)
    BY DEF Quiet, Outvoted
  <2> QED BY ZenonT(60), <1>1, <2>1, <2>2 DEF MayUnlock, Quiet
<1>3. Known(w, y, z) => Known(m, y, z)
  <2>1. \A q \in Rounds, b \in BlockIds : Polka(w, q, b) => Polka(m, q, b)
    BY ZenonT(60), BlockIdAssumption DEF Quiet, Opens, Polka, Prevotes, VoteTypes
  <2>2. \A q \in Rounds : Committed(w, q) => Committed(m, q)
    <3>1. None \notin Blocks
      BY BlockIdAssumption DEF NodeConstants, ConsensusConstants
    <3> QED BY <3>1 DEF Quiet, Opens, Committed, Precommits, VoteTypes
  <2> QED BY ZenonT(60), <2>1, <2>2 DEF Known
<1>4. w.height = m.height
  BY DEF Quiet
<1> QED BY ZenonT(60), <1>1, <1>2, <1>3, <1>4, HandlesPhases

(* The proposal and its parts may be any.                                  *)
LEMMA ProposedType ==
  ASSUME NEW y \in NodeStates, NEW a \in [pol_round: Int, block: Blocks],
         NEW p \in [header: Blocks \cup {None}, have: SUBSET (1..NumParts)]
  PROVE  [y EXCEPT !.proposal = a, !.proposal_block_parts = p] \in NodeStates
BY ZenonT(60) DEF NodeStates

(* set_proposal signs nothing, and does not touch the parts of a block it  *)
(* has.                                                                    *)
LEMMA SetProposalKeeps ==
  ASSUME NodeConstants, NEW m, NodeInv(m), NEW msg \in Proposals
  PROVE  NodeInv(SetProposal(m, msg)) /\ Quiet(m, SetProposal(m, msg))
<1> DEFINE a == [pol_round |-> msg.pol_round, block |-> msg.block]
           p == IF m.proposal_block_parts = NoParts THEN NewPartSet(msg.block) ELSE m.proposal_block_parts
           y == [m EXCEPT !.proposal = a, !.proposal_block_parts = p]
           z == SetProposal(m, msg)
<1>1. m \in NodeStates /\ msg.block \in Blocks
  BY DEF NodeInv, Proposals
<1>2. a \in [pol_round: Int, block: Blocks]
  BY DEF Proposals
<1>3. p \in [header: Blocks \cup {None}, have: SUBSET (1..NumParts)]
  <2>1. m.proposal_block_parts \in [header: Blocks \cup {None}, have: SUBSET (1..NumParts)]
    BY <1>1, FieldTypes
  <2>2. NewPartSet(msg.block) \in [header: Blocks \cup {None}, have: SUBSET (1..NumParts)]
    BY <1>1 DEF NewPartSet
  <2> QED BY <2>1, <2>2
<1>4. m.proposal_block # None => p = m.proposal_block_parts
  <2> SUFFICES ASSUME m.proposal_block # None PROVE m.proposal_block_parts # NoParts
    OBVIOUS
  <2>1. m.proposal_block_parts.header = m.proposal_block
    BY DEF NodeInv, PartsInv
  <2> QED BY <2>1 DEF NoParts
<1>5. z = m \/ z = y
  <2>1. [m EXCEPT !.proposal = a,
                  !.proposal_block_parts = IF @ = NoParts THEN NewPartSet(msg.block) ELSE @] = y
    <3>1. CASE m.proposal_block_parts = NoParts
      BY <1>1, <3>1 DEF NodeStates
    <3>2. CASE m.proposal_block_parts # NoParts
      BY <1>1, <3>2 DEF NodeStates
    <3> QED BY <3>1, <3>2
  <2> HIDE DEF y
  <2> QED BY <2>1 DEF SetProposal
<1> HIDE DEF p, a
<1>6. y \in NodeStates
  BY ZenonT(60), <1>1, <1>2, <1>3, ProposedType
<1>7. SameCore(m, y) /\ y.ticks = m.ticks /\ y.proposal_block = m.proposal_block /\ y.proposal_block_parts = p
  BY <1>1 DEF NodeStates, SameCore
<1> HIDE DEF y, z
<1>8. PartsInv(y)
  BY <1>4, <1>7 DEF NodeInv, PartsInv
<1>9. NodeInv(y) /\ Quiet(m, y)
  BY ZenonT(60), <1>6, <1>7, <1>8, SameCoreKeeps
<1> QED BY <1>5, <1>9, PhasesReflexive DEF z

(* enter_prevote for the round of the node stays in it.                    *)
LEMMA EnterPrevoteRound ==
  ASSUME NodeConstants, NEW m, NodeInv(m)
  PROVE  EnterPrevote(m, m.height, m.round).round = m.round
<1>1. "round" \in DOMAIN DoPrevote(m)
  BY DEF DoPrevote, SignAddVote, Sign, NodeInv, NodeStates
<1> QED BY <1>1 DEF EnterPrevote

(* The valid round and block may be any.                                   *)
LEMMA ValidType ==
  ASSUME NEW y \in NodeStates, NEW q \in Rounds, NEW b \in Blocks
  PROVE  [y EXCEPT !.valid_round = q, !.valid_block = b] \in NodeStates
BY ZenonT(60) DEF NodeStates

(* A block with a polka becomes the valid block.                           *)
LEMMA ValidKeeps ==
  ASSUME NodeConstants, NEW m, NodeInv(m), NEW q \in Rounds, NEW b \in Blocks, Polka(m, q, b)
  PROVE  LET z == [m EXCEPT !.valid_round = q, !.valid_block = b] IN NodeInv(z) /\ Quiet(m, z)
<1> DEFINE z == [m EXCEPT !.valid_round = q, !.valid_block = b]
<1>1. m \in NodeStates
  BY DEF NodeInv
<1>2. z \in NodeStates
  BY ZenonT(60), <1>1, ValidType
<1>3. /\ z.valid_round = q /\ z.valid_block = b
      /\ z.height = m.height /\ z.round = m.round /\ z.step = m.step
      /\ z.votes = m.votes /\ z.commit_round = m.commit_round /\ z.last_commit = m.last_commit
      /\ z.locked_round = m.locked_round /\ z.locked_block = m.locked_block
      /\ z.signed = m.signed /\ z.last_sign = m.last_sign /\ z.store = m.store /\ z.ticks = m.ticks
      /\ z.proposal_block = m.proposal_block /\ z.proposal_block_parts = m.proposal_block_parts
  BY ZenonT(60), <1>1 DEF NodeStates
<1> HIDE DEF z
<1>4. PartsInv(z) /\ SignedInv(z) /\ StoreInv(z) /\ RoundsInv(z)
  BY ZenonT(60), <1>3 DEF NodeInv, PartsInv, SignedInv, StoreInv, Committed, RoundsInv
<1>5. PolkaInv(z)
  BY ZenonT(60), <1>3 DEF NodeInv, PolkaInv, Polka
<1>6. BackInv(z)
  BY <1>3 DEF NodeInv, BackInv, Back, Committed
<1>7. Quiet(m, z)
  BY <1>3 DEF Quiet, Opens, Grows
<1> QED BY <1>2, <1>4, <1>5, <1>6, <1>7 DEF NodeInv, z

(* add_proposal_block_part, when the last part has arrived                 *)
LEMMA BlockCompletedKeeps ==
  ASSUME NodeConstants, NEW m, NodeInv(m), NEW b \in Blocks,
         m.proposal_block_parts = [header |-> b, have |-> 1..NumParts]
  PROVE  NodeInv(BlockCompleted(m)) /\ Handles(m, BlockCompleted(m))
<1> DEFINE polka == Prevotes(m.votes, m.round).maj23
           valid == [m EXCEPT !.proposal_block = b,
                              !.valid_round = IF polka = b /\ @ < m.round THEN m.round ELSE @,
                              !.valid_block = IF polka = b /\ m.valid_round < m.round THEN b ELSE @]
           voted == EnterPrevote(valid, m.height, m.round)
           y == [m EXCEPT !.proposal_block = b, !.proposal_block_parts = m.proposal_block_parts]
           x == [y EXCEPT !.valid_round = m.round, !.valid_block = b]
           z == BlockCompleted(m)
<1>1. /\ m \in NodeStates /\ m.round \in Rounds /\ m.round \in DOMAIN m.votes.sets
      /\ m.proposal_block_parts \in [header: Blocks \cup {None}, have: SUBSET (1..NumParts)]
      /\ m.step \in NewHeight..Commit /\ b # None
  BY ZenonT(60), BlockIdAssumption DEF NodeInv, NodeStates, RoundsInv, NodeConstants, ConsensusConstants
<1>2. NodeInv(y) /\ Quiet(m, y) /\ SameCore(m, y)
  BY ZenonT(60), <1>1, ProposalKeeps
<1>3. valid = y \/ (polka = b /\ valid = x)
  <2>1. m = [m EXCEPT !.proposal_block_parts = m.proposal_block_parts,
                      !.valid_round = m.valid_round, !.valid_block = m.valid_block]
    BY ZenonT(60), <1>1 DEF NodeStates
  <2>2. CASE polka = b /\ m.valid_round < m.round
    <3>1. valid = [m EXCEPT !.proposal_block = b, !.valid_round = m.round, !.valid_block = b]
      BY <1>1, <2>2 DEF NodeStates
    <3>2. y = [m EXCEPT !.proposal_block = b]
      BY ZenonT(60), <1>1 DEF NodeStates
    <3> HIDE DEF y, valid, polka
    <3> QED BY ZenonT(60), <1>1, <2>2, <3>1, <3>2 DEF NodeStates
  <2>3. CASE ~(polka = b /\ m.valid_round < m.round)
    <3>1. valid = [m EXCEPT !.proposal_block = b, !.valid_round = m.valid_round, !.valid_block = m.valid_block]
      BY ZenonT(60), <1>1, <2>3 DEF NodeStates
    <3> HIDE DEF valid
    <3> QED BY ZenonT(60), <1>1, <3>1 DEF NodeStates
  <2> QED BY <2>2, <2>3
<1> HIDE DEF y
<1>4. polka = b => NodeInv(x) /\ Quiet(y, x) /\ x.round = m.round /\ x.step = m.step
  <2> SUFFICES ASSUME polka = b PROVE NodeInv(x) /\ Quiet(y, x) /\ x.round = m.round /\ x.step = m.step
    OBVIOUS
  <2>1. Polka(y, m.round, b)
    BY <1>1, <1>2 DEF SameCore, Polka
  <2>2. NodeInv(x) /\ Quiet(y, x)
    BY ZenonT(60), <1>1, <1>2, <2>1, ValidKeeps
  <2>3. x.round = y.round /\ x.step = y.step
    BY <1>2 DEF NodeInv, NodeStates
  <2> QED BY ZenonT(60), <1>2, <2>2, <2>3 DEF SameCore
<1> HIDE DEF x, valid
<1>5. NodeInv(valid) /\ Quiet(m, valid) /\ valid.round = m.round /\ valid.step = m.step
  BY <1>2, <1>3, <1>4, QuietTransitive DEF SameCore
<1>6. valid.height = m.height /\ m.round \in DOMAIN valid.votes.sets
  BY ZenonT(60), <1>1, <1>5 DEF Quiet, NodeInv, RoundsInv
<1>7. NodeInv(voted) /\ MayPrevote(valid, voted) /\ voted.round = m.round
  BY ZenonT(60), <1>1, <1>5, <1>6, EnterPrevoteKeeps, EnterPrevoteRound
<1> HIDE DEF voted
<1>8. MayUnlock(m, voted)
  BY ZenonT(60), <1>5, <1>7, QuietThenMayPrevote, MayPrevoteIsMayUnlock
<1>9. LET p == EnterPrecommit(voted, m.height, m.round) IN NodeInv(p) /\ MayPrecommit(voted, p)
  <2>1. m.round \in DOMAIN voted.votes.sets /\ ~(m.round > voted.round)
    BY <1>1, <1>7 DEF NodeInv, RoundsInv, Rounds, NodeConstants
  <2> QED BY ZenonT(60), <1>1, <1>7, <2>1, EnterPrecommitKeeps
<1>10. m.step = Commit =>
         LET t == TryFinalizeCommit(valid, m.height) IN NodeInv(t) /\ MayDecide(valid, t)
  BY <1>5, TryFinalizeCommitKeeps
<1>11. \/ z \in {valid, voted, EnterPrecommit(voted, m.height, m.round)}
       \/ m.step = Commit /\ z = TryFinalizeCommit(valid, m.height)
  <2>1. m.step <= Propose \/ m.step = Commit \/ m.step \in Prevote..PrecommitWait
    BY <1>1 DEF NewHeight, Propose, Prevote, PrecommitWait, Commit
  <2>2. ~(m.step <= Propose /\ m.step = Commit) /\ ~(m.step = Commit /\ m.step \in Prevote..PrecommitWait)
        /\ ~(m.step <= Propose /\ m.step \in Prevote..PrecommitWait)
    BY <1>1 DEF NewHeight, Propose, Prevote, PrecommitWait, Commit
  <2> QED BY <2>1, <2>2 DEF BlockCompleted, valid, voted, polka
<1> HIDE DEF z
<1>12. CASE z = valid
  BY ZenonT(60), <1>5, <1>12, HandlesQuiet DEF z
<1>13. CASE z = voted
  BY ZenonT(60), <1>7, <1>8, <1>13, HandlesUnlock DEF z
<1>14. CASE z = EnterPrecommit(voted, m.height, m.round)
  BY ZenonT(60), <1>8, <1>9, <1>14, HandlesPrecommit DEF z
<1>15. CASE m.step = Commit /\ z = TryFinalizeCommit(valid, m.height)
  BY ZenonT(60), <1>5, <1>10, <1>15, QuietThenMayDecide, HandlesDecide DEF z
<1> QED BY ZenonT(60), <1>11, <1>12, <1>13, <1>14, <1>15

(* The parts are all there when as many are there as the header counts.    *)
CountsParts == \A S \in SUBSET (1..NumParts) : Cardinality(S) = NumParts <=> S = 1..NumParts

(* The parts may be any.                                                   *)
LEMMA HaveType ==
  ASSUME NEW y \in NodeStates, NEW p \in [header: Blocks \cup {None}, have: SUBSET (1..NumParts)]
  PROVE  [y EXCEPT !.proposal_block_parts = p] \in NodeStates
BY ZenonT(60) DEF NodeStates

(* add_proposal_block_part keeps the invariant: a block is decoded only    *)
(* from all of its parts, and then the prevote, the valid block or the     *)
(* commit that waits for it follows.                                       *)
LEMMA AddProposalBlockPartKeeps ==
  ASSUME NodeConstants, CountsParts, NEW m, NodeInv(m), NEW msg \in Parts
  PROVE  LET z == AddProposalBlockPart(m, msg) IN NodeInv(z) /\ Handles(m, z)
<1> DEFINE p == [header |-> msg.block, have |-> m.proposal_block_parts.have \cup {msg.index}]
           added == [m EXCEPT !.proposal_block_parts.have = @ \cup {msg.index}]
           z == AddProposalBlockPart(m, msg)
<1>1. /\ m \in NodeStates /\ msg.block \in Blocks /\ msg.index \in 1..NumParts
      /\ m.proposal_block_parts \in [header: Blocks \cup {None}, have: SUBSET (1..NumParts)]
      /\ NumParts \in Nat
  BY FieldTypes DEF NodeInv, Parts, NodeConstants, ConsensusConstants
<1>2. CASE z = m
  BY ZenonT(60), <1>2, PhasesReflexive, HandlesQuiet
<1>3. CASE z # m
  <2>1. /\ msg.block = m.proposal_block_parts.header
        /\ msg.index \notin m.proposal_block_parts.have
        /\ z = IF IsComplete(added.proposal_block_parts) THEN BlockCompleted(added) ELSE added
    BY <1>3 DEF AddProposalBlockPart
  <2>2. m.proposal_block = None
    BY <1>1, <2>1 DEF NodeInv, PartsInv
  <2>3. added = [m EXCEPT !.proposal_block_parts = p]
    <3> DEFINE o == m.proposal_block_parts
    <3>1. p = [o EXCEPT !.have = o.have \cup {msg.index}]
      BY <1>1, <2>1
    <3>2. added = [m EXCEPT !.proposal_block_parts = [o EXCEPT !.have = o.have \cup {msg.index}]]
      BY <1>1 DEF NodeStates
    <3> HIDE DEF p, added
    <3> QED BY <3>1, <3>2
  <2>4. p \in [header: Blocks \cup {None}, have: SUBSET (1..NumParts)]
    BY <1>1
  <2> HIDE DEF added, p, z
  <2>5. added \in NodeStates
    BY ZenonT(60), <1>1, <2>3, <2>4, HaveType
  <2>6. /\ SameCore(m, added) /\ added.ticks = m.ticks /\ added.proposal_block_parts = p
        /\ added.proposal_block = m.proposal_block
    BY <1>1, <2>3 DEF NodeStates, SameCore
  <2>7. NodeInv(added) /\ Quiet(m, added)
    BY ZenonT(60), <2>2, <2>5, <2>6, SameCoreKeeps DEF PartsInv
  <2>8. CASE ~IsComplete(added.proposal_block_parts)
    BY ZenonT(60), <2>1, <2>7, <2>8, HandlesQuiet DEF z
  <2>9. CASE IsComplete(added.proposal_block_parts)
    <3>1. p.have = 1..NumParts
      BY ZenonT(60), <2>4, <2>6, <2>9 DEF IsComplete, CountsParts
    <3>2. added.proposal_block_parts = [header |-> msg.block, have |-> 1..NumParts]
      BY ZenonT(60), <2>6, <3>1 DEF p
    <3>3. NodeInv(z) /\ Handles(added, z)
      BY ZenonT(60), <1>1, <2>1, <2>7, <2>9, <3>2, BlockCompletedKeeps
    <3> QED BY ZenonT(60), <2>7, <3>3, QuietThenHandles DEF z
  <2> QED BY <2>8, <2>9
<1> QED BY <1>2, <1>3

(* The part of add_vote that unlocks does so only for a polka after the    *)
(* lock, for something else.                                               *)
LEMMA UnlockOnPolkaKeeps ==
  ASSUME NodeConstants, NEW m, NodeInv(m), NEW r \in Rounds, r \in DOMAIN m.votes.sets
  PROVE  LET z == UnlockOnPolka(m, r) IN
         NodeInv(z) /\ MayUnlock(m, z) /\ z.signed = m.signed /\ z.votes = m.votes
<1> DEFINE polka == Prevotes(m.votes, r).maj23
           z == UnlockOnPolka(m, r)
<1>1. CASE z = m
  BY ZenonT(60), <1>1, PhasesReflexive
<1>2. CASE z # m
  <2>1. z = Unlock(m) /\ polka # None /\ polka # m.locked_block /\ m.locked_round < r
    BY ZenonT(60), <1>2 DEF UnlockOnPolka
  <2>2. polka \in BlockIds
    <3>1. m.votes.sets[r]["prevotes"] \in VoteSets
      BY SetsType, FieldTypes DEF NodeInv, VoteTypes
    <3> QED BY ZenonT(60), <2>1, <3>1 DEF Prevotes, VoteSets
  <2>3. m.locked_round \in Int /\ r \in Int
    BY ZenonT(60), NumberTypes, RoundTypes DEF NodeInv
  <2>4. Outvoted(m, m)
    BY ZenonT(60), <2>1, <2>2, <2>3 DEF Outvoted, Polka
  <2> DEFINE u == Unlock(m)
  <2>5. /\ NodeInv(u) /\ u.height = m.height /\ u.votes = m.votes /\ u.store = m.store
        /\ u.signed = m.signed /\ u.locked_block = None
    BY ZenonT(60), UnlockKeeps
  <2> HIDE DEF u
  <2>6. MayUnlock(m, u)
    BY <2>4, <2>5 DEF MayUnlock, Grows, Outvoted, Polka
  <2> QED BY ZenonT(60), <2>1, <2>5, <2>6 DEF u
<1> QED BY <1>1, <1>2

(* The part of add_vote that sets the valid block takes the proposal block *)
(* only if the polka is for it, and drops the proposal block together with *)
(* its parts.                                                              *)
LEMMA UpdateValidKeeps ==
  ASSUME NodeConstants, NEW m, NodeInv(m), NEW r \in Rounds, r \in DOMAIN m.votes.sets
  PROVE  LET z == UpdateValid(m, r) IN NodeInv(z) /\ Quiet(m, z)
<1> DEFINE polka == Prevotes(m.votes, r).maj23
           v == [m EXCEPT !.valid_round = r, !.valid_block = polka]
           w == [m EXCEPT !.proposal_block = None]
           x == [w EXCEPT !.proposal_block_parts = NewPartSet(polka)]
           z == UpdateValid(m, r)
<1>0. m \in NodeStates
  BY DEF NodeInv
<1>1. CASE z \in {m, Crash(m)}
  BY ZenonT(60), <1>1, EndKeeps, PhasesReflexive
<1>2. CASE z \notin {m, Crash(m)}
  <2>1. polka \notin {None, Nil}
    BY <1>2 DEF UpdateValid
  <2>2. polka \in Blocks
    <3>1. m.votes.sets[r]["prevotes"] \in VoteSets
      BY SetsType, FieldTypes DEF NodeInv, VoteTypes
    <3> QED BY ZenonT(60), <2>1, <3>1 DEF Prevotes, VoteSets, NodeConstants, ConsensusConstants
  <2>3. \/ m.proposal_block = polka /\ z = v
        \/ z \in {w, x}
    <3>1. CASE m.proposal_block = polka
      <4>1. v.proposal_block_parts = m.proposal_block_parts
        BY <1>0 DEF NodeStates
      <4>2. m.proposal_block_parts.header = polka
        BY <2>1, <3>1 DEF NodeInv, PartsInv
      <4> QED BY <1>2, <3>1, <4>1, <4>2 DEF UpdateValid
    <3>2. CASE m.proposal_block # polka
      BY <1>2, <3>2 DEF UpdateValid
    <3> QED BY <3>1, <3>2
  <2>4. NodeInv(v) /\ Quiet(m, v)
    <3>1. Polka(m, r, polka)
      BY DEF Polka
    <3> QED BY ZenonT(60), <2>2, <3>1, ValidKeeps
  <2>5. NodeInv(w) /\ Quiet(m, w)
    <3>1. w = [m EXCEPT !.proposal_block = None, !.proposal_block_parts = m.proposal_block_parts]
      BY ZenonT(60), <1>0 DEF NodeStates
    <3>2. m.proposal_block_parts \in [header: Blocks \cup {None}, have: SUBSET (1..NumParts)]
      BY <1>0, FieldTypes
    <3> HIDE DEF w
    <3> QED BY ZenonT(60), <3>1, <3>2, ProposalKeeps
  <2>6. NodeInv(x) /\ Quiet(m, x)
    <3>1. PICK e \in [header: Blocks \cup {None}, have: SUBSET (1..NumParts)] : e = NewPartSet(polka)
      BY ZenonT(60), <2>2 DEF NewPartSet
    <3>2. x = [m EXCEPT !.proposal_block = None, !.proposal_block_parts = e]
      BY ZenonT(60), <1>0, <3>1 DEF NodeStates
    <3> HIDE DEF x
    <3> QED BY ZenonT(60), <3>1, <3>2, ProposalKeeps
  <2> HIDE DEF v, w, x, z
  <2> QED BY ZenonT(60), <2>3, <2>4, <2>5, <2>6 DEF z
<1> QED BY <1>1, <1>2

(* add_vote of a prevote                                                   *)
LEMMA PrevoteAddedKeeps ==
  ASSUME NodeConstants, NEW n0, NodeInv(n0), NEW r \in Rounds, r \in DOMAIN n0.votes.sets
  PROVE  LET z == PrevoteAdded(n0, r) IN NodeInv(z) /\ Handles(n0, z) /\ z.height = n0.height
<1> DEFINE u == UnlockOnPolka(n0, r)
           m == UpdateValid(u, r)
           z == PrevoteAdded(n0, r)
<1>1. NodeInv(u) /\ MayUnlock(n0, u) /\ u.signed = n0.signed /\ u.votes = n0.votes
  BY UnlockOnPolkaKeeps
<1> HIDE DEF u
<1>2. NodeInv(m) /\ Quiet(u, m)
  BY <1>1, UpdateValidKeeps
<1>3. z \in {m, EnterPrevote(m, m.height, m.round)}
      \/ (m.round < r /\ z = EnterNewRound(m, m.height, r))
      \/ (m.round = r /\ z \in {EnterPrecommit(m, m.height, r), EnterPrevoteWait(m, m.height, r)})
  BY ZenonT(60) DEF PrevoteAdded, u
<1> HIDE DEF m, z
<1>4. /\ m.round \in Rounds /\ m.round \in Int /\ m.round >= 0 /\ r \in Int /\ m.round \in DOMAIN m.votes.sets
      /\ m.height = n0.height
  <2>1. m.round \in Rounds /\ m.round \in DOMAIN m.votes.sets
    BY ZenonT(60), <1>2, NumberTypes DEF NodeInv, RoundsInv
  <2>2. Rounds \subseteq Nat
    BY DEF Rounds, NodeConstants
  <2>3. m.height = n0.height
    BY <1>1, <1>2 DEF Quiet, MayUnlock
  <2> QED BY <2>1, <2>2, <2>3
<1>5. MayUnlock(n0, m) /\ m.signed = n0.signed
  BY ZenonT(60), <1>1, <1>2, QuietIsMayPrevote, MayUnlockThenPrevote DEF Quiet
<1>6. CASE z = m
  BY ZenonT(60), <1>2, <1>4, <1>5, <1>6, HandlesUnlock DEF z
<1>7. ASSUME NodeInv(z), MayPrevote(m, z)
      PROVE  NodeInv(z) /\ Handles(n0, z) /\ z.height = n0.height
  BY ZenonT(60), <1>4, <1>5, <1>7, MayUnlockThenPrevote, HandlesUnlock DEF MayPrevote
<1>8. CASE z = EnterPrevote(m, m.height, m.round)
  BY ZenonT(60), <1>2, <1>4, <1>7, <1>8, EnterPrevoteKeeps DEF z
<1>9. CASE m.round < r /\ z = EnterNewRound(m, m.height, r)
  BY ZenonT(60), <1>2, <1>7, <1>9, EnterNewRoundKeeps DEF z
<1>10. CASE m.round = r /\ z = EnterPrevoteWait(m, m.height, r)
  BY ZenonT(60), <1>2, <1>7, <1>10, EnterPrevoteWaitKeeps, QuietIsMayPrevote DEF z
<1>11. CASE m.round = r /\ z = EnterPrecommit(m, m.height, r)
  <2>1. NodeInv(z) /\ MayPrecommit(m, z)
    BY <1>2, <1>4, <1>11, EnterPrecommitKeeps
  <2> QED BY ZenonT(60), <1>4, <1>5, <2>1, HandlesPrecommit DEF z, MayPrecommit
<1> QED BY ZenonT(60), <1>3, <1>6, <1>8, <1>9, <1>10, <1>11

(* Adding a vote is a first phase.                                         *)
LEMMA LearnsIsMayUnlock ==
  ASSUME NEW m, NEW w, Learns(m, w)
  PROVE  MayUnlock(m, w) /\ w.signed = m.signed
BY ZenonT(60) DEF Learns, MayUnlock

(* Going on after the decision.                                            *)
LEMMA DecideThenPrevote ==
  ASSUME NodeConstants, NEW x, NEW c, NEW z, MayDecide(x, c), c.height # x.height, MayPrevote(c, z)
  PROVE  MayEnd(x, z)
BY DEF MayDecide, MayPrevote, MayEnd, StoreKept

(* The enter_new_round that follows enter_commit in add_vote does nothing: *)
(* the step is Commit.                                                     *)
LEMMA NoRoundAfterCommit ==
  ASSUME NodeConstants, NEW c, NodeInv(c), Running(c) => c.step = Commit
  PROVE  EnterNewRound(c, c.height, 0) = c
<1>1. c.round \in Nat
  BY NumberTypes, RoundTypes DEF NodeInv
<1>2. CASE ~Running(c)
  BY <1>2 DEF EnterNewRound
<1>3. CASE Running(c)
  <2>1. c.step # NewHeight
    BY <1>3 DEF Commit, NewHeight
  <2> QED BY <1>1, <2>1 DEF EnterNewRound
<1> QED BY <1>2, <1>3

(* A precommit that is added brings no polka, and no other commit than     *)
(* that of its round.                                                      *)
LEMMA LearnsKnown ==
  ASSUME NodeConstants, NEW m, NEW w, NEW y, NEW z, NEW r,
         OnlyNew(m.votes, w.votes, r, "precommits"), Opens(w.votes, y.votes), z.last_commit.round = r
  PROVE  Known(m, y, z)
<1>1. None \notin Blocks /\ None \notin BlockIds
  BY ZenonT(60), BlockIdAssumption DEF NodeConstants, ConsensusConstants
<1>2. ASSUME NEW q \in Rounds, NEW b \in BlockIds, Polka(y, q, b)
      PROVE  Polka(m, q, b)
  <2>1. Polka(w, q, b)
    BY ZenonT(60), <1>1, <1>2 DEF Opens, Polka, Prevotes, VoteTypes
  <2> QED BY ZenonT(60), <1>1, <2>1 DEF OnlyNew, Polka, Prevotes, VoteTypes
<1>3. ASSUME NEW q \in Rounds, Committed(y, q)
      PROVE  Committed(m, q) \/ q = r
  <2>1. Committed(w, q)
    BY ZenonT(60), <1>1, <1>3 DEF Opens, Committed, Precommits, VoteTypes
  <2> QED BY ZenonT(60), <1>1, <2>1 DEF OnlyNew, Committed, Precommits, VoteTypes
<1> QED BY <1>2, <1>3 DEF Known

(* add_vote of a precommit; w is m with the vote added                     *)
LEMMA PrecommitAddedKeeps ==
  ASSUME NodeConstants, NEW m, NEW w, NodeInv(w), Running(w), Learns(m, w),
         NEW r \in Rounds, r \in DOMAIN w.votes.sets, OnlyNew(m.votes, w.votes, r, "precommits")
  PROVE  LET z == PrecommitAdded(w, r) IN NodeInv(z) /\ Handles(m, z)
<1> DEFINE vs        == Precommits(w.votes, r)
           h         == w.height
           entered   == EnterNewRound(w, h, r)
           voted     == EnterPrecommit(entered, h, r)
           committed == EnterCommit(voted, h, r)
           again     == EnterNewRound(committed, committed.height, 0)
           z         == PrecommitAdded(w, r)
<1>1. r \in Int /\ w.round \in Int /\ w.height = m.height /\ 0 \in Rounds
  BY ZenonT(60), NumberTypes, RoundTypes DEF NodeInv, Learns
<1>2. NodeInv(entered) /\ MayPrevote(w, entered) /\ (r >= w.round => entered.round = r)
  BY EnterNewRoundKeeps
<1>3. r < w.round => entered = w
  BY DEF EnterNewRound
<1> HIDE DEF entered
<1>4. /\ entered.round \in Int /\ entered.height = h /\ Opens(w.votes, entered.votes)
      /\ r \in DOMAIN entered.votes.sets /\ r <= entered.round
  <2>1. entered.round \in Int
    BY ZenonT(60), <1>2, NumberTypes, RoundTypes DEF NodeInv
  <2>2. entered.height = h /\ Opens(w.votes, entered.votes) /\ r \in DOMAIN entered.votes.sets
    BY ZenonT(60), <1>2 DEF MayPrevote, Opens, Grows
  <2> QED BY <1>1, <1>2, <1>3, <2>1, <2>2
<1>5. MayUnlock(m, entered)
  BY ZenonT(60), <1>2, LearnsIsMayUnlock, MayUnlockThenPrevote
<1>6. /\ NodeInv(voted) /\ MayPrecommit(entered, voted) /\ voted.votes = entered.votes
      /\ Running(entered) /\ r >= entered.round => voted.round = r
  <2>1. ~(r > entered.round)
    BY <1>1, <1>4
  <2> QED BY ZenonT(60), <1>2, <1>4, <2>1, EnterPrecommitKeeps
<1>7. ~Running(entered) \/ r < entered.round => voted = entered
  BY ZenonT(60) DEF EnterPrecommit, Done
<1> HIDE DEF voted
<1>8. voted.height = h /\ (Running(voted) /\ r >= voted.round => r = voted.round)
  <2>1. voted.height = h
    BY ZenonT(60), <1>4, <1>6 DEF MayPrecommit
  <2> QED BY <1>1, <1>4, <1>6, <1>7, <2>1
<1>9. vs.maj23 \in Blocks => Committed(voted, r) /\ Precommits(voted.votes, r).maj23 = vs.maj23
  <2> SUFFICES ASSUME vs.maj23 \in Blocks
               PROVE  Committed(voted, r) /\ Precommits(voted.votes, r).maj23 = vs.maj23
    OBVIOUS
  <2>1. Committed(w, r)
    BY ZenonT(60) DEF Committed
  <2>2. Grows(w.votes, voted.votes)
    BY ZenonT(60), <1>4, <1>6 DEF Opens
  <2> QED BY ZenonT(60), <2>1, <2>2, MajoritiesStay
<1>10. vs.maj23 \in Blocks =>
         /\ NodeInv(committed) /\ MayDecide(voted, committed)
         /\ Running(committed) /\ committed.height = voted.height => committed.step = Commit
         /\ committed.height # voted.height => committed.last_commit.round = r
  BY ZenonT(60), <1>6, <1>8, <1>9, EnterCommitKeeps
<1> HIDE DEF committed
<1>11. ASSUME NEW e, MayEnd(voted, e), e.height # m.height => e.last_commit.round = r
       PROVE  Handles(m, e)
  <2>1. e.height # m.height => Known(m, entered, e)
    BY ZenonT(60), <1>4, <1>11, LearnsKnown
  <2> QED BY <1>5, <1>6, <1>11, <2>1, HandlesPhases
<1>12. vs.maj23 \in Blocks => Handles(m, committed)
  BY ZenonT(60), <1>1, <1>8, <1>10, <1>11, MayDecideIsMayEnd
<1>13. vs.maj23 \in Blocks => NodeInv(again) /\ Handles(m, again)
  <2> SUFFICES ASSUME vs.maj23 \in Blocks PROVE NodeInv(again) /\ Handles(m, again)
    BY ZenonT(60)
  <2>1. CASE committed.height = voted.height
    <3>1. again = committed
      BY ZenonT(60), <1>10, <2>1, NoRoundAfterCommit
    <3> QED BY ZenonT(60), <1>10, <1>12, <3>1
  <2>2. CASE committed.height # voted.height
    <3>1. NodeInv(again) /\ MayPrevote(committed, again)
      BY ZenonT(60), <1>1, <1>10, EnterNewRoundKeeps
    <3> HIDE DEF again
    <3>2. MayEnd(voted, again)
      BY ZenonT(60), <1>10, <2>2, <3>1, DecideThenPrevote
    <3>3. again.last_commit.round = r
      BY ZenonT(60), <1>10, <2>2, <3>1 DEF MayPrevote
    <3> QED BY ZenonT(60), <1>11, <3>1, <3>2, <3>3
  <2> QED BY ZenonT(60), <2>1, <2>2
<1> HIDE DEF again
<1> DEFINE waited == EnterPrecommitWait(voted, h, r)
           idle == EnterPrecommitWait(entered, h, r)
<1>14. NodeInv(waited) /\ Handles(m, waited)
  <2>1. NodeInv(waited) /\ Quiet(voted, waited)
    BY ZenonT(60), <1>6, <1>8, EnterPrecommitWaitKeeps
  <2> QED BY ZenonT(60), <1>5, <1>6, <2>1, HandlesThenQuiet
<1> HIDE DEF waited
<1>15. w.round <= r => NodeInv(idle) /\ Handles(m, idle)
  <2> SUFFICES ASSUME w.round <= r PROVE NodeInv(idle) /\ Handles(m, idle)
    OBVIOUS
  <2>1. r = entered.round
    BY ZenonT(60), <1>1, <1>2
  <2>2. NodeInv(idle) /\ Quiet(entered, idle)
    BY ZenonT(60), <1>2, <2>1, EnterPrecommitWaitKeeps
  <2> QED BY ZenonT(60), <1>2, <1>5, <2>2, PhasesReflexive, HandlesThenQuiet
<1> HIDE DEF idle
<1>16. Handles(m, w)
  BY ZenonT(60), LearnsIsMayUnlock, HandlesUnlock
<1>17. vs.maj23 \in Blocks \/ vs.maj23 = Nil \/ vs.maj23 = None
  <2>1. Precommits(w.votes, r) \in VoteSets
    BY SetsType, FieldTypes DEF NodeInv, Precommits, VoteTypes
  <2> QED BY ZenonT(60), <2>1 DEF VoteSets, NodeConstants, ConsensusConstants
<1>18. Nil \notin Blocks /\ None \notin Blocks /\ Nil # None
  BY ZenonT(60), BlockIdAssumption DEF NodeConstants, ConsensusConstants
<1> HIDE DEF vs
<1>19. CASE vs.maj23 \in Blocks
  <2>1. z \in {again, committed}
    BY ZenonT(60), <1>18, <1>19 DEF PrecommitAdded, again, committed, voted, entered, vs
  <2> HIDE DEF z
  <2> QED BY ZenonT(60), <1>10, <1>12, <1>13, <1>19, <2>1 DEF z
<1>20. CASE vs.maj23 = Nil
  <2>1. z = waited
    BY ZenonT(60), <1>18, <1>20 DEF PrecommitAdded, waited, voted, entered, vs
  <2> HIDE DEF z
  <2> QED BY <1>14, <2>1 DEF z
<1>21. CASE vs.maj23 = None
  <2>1. z = w \/ (w.round <= r /\ z = idle)
    BY ZenonT(60), <1>18, <1>21 DEF PrecommitAdded, idle, entered, vs
  <2> HIDE DEF z
  <2> QED BY ZenonT(60), <1>15, <1>16, <2>1 DEF z
<1> QED BY ZenonT(60), <1>17, <1>19, <1>20, <1>21

(* A handler may add a vote first.                                         *)
LEMMA LearnsThenHandles ==
  ASSUME NodeConstants, NEW m, NEW w, NEW z, Learns(m, w), Handles(w, z), z.height = w.height
  PROVE  Handles(m, z)
<1>1. PICK y, x : MayUnlock(w, y) /\ MayPrecommit(y, x) /\ MayEnd(x, z)
  BY ZenonT(60) DEF Handles
<1>2. MayUnlock(m, y)
  <2>1. Grows(m.votes, y.votes)
    BY ZenonT(60), <1>1, GrowsTransitive DEF Learns, MayUnlock
  <2>2. Outvoted(w, y) => Outvoted(m, y)
    BY DEF Learns, Outvoted
  <2> QED BY ZenonT(60), <1>1, <2>1, <2>2 DEF MayUnlock, Learns
<1>3. z.height = m.height
  BY DEF Learns
<1> QED BY ZenonT(60), <1>1, <1>2, <1>3, HandlesPhases
===============================================================================
