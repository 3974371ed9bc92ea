---------------------------- MODULE ConsensusState ----------------------------
(***************************************************************************)
(* consensus_state (consensus/consensus_state.cpp): the handlers of one    *)
(* validator, Self, as operators from a node state to a node state.  A     *)
(* handler runs under cs->mtx from its first line to its last, the enter_  *)
(* functions it calls and their deferred blocks included, so each operator *)
(* is the whole call.                                                      *)
(*                                                                         *)
(* A node state n is a record.  The fields of round_state:                 *)
(*   height, round, step, proposal, proposal_block, proposal_block_parts,  *)
(*   locked_round, locked_block, valid_round, valid_block, votes,          *)
(*   commit_round, last_commit, triggered_timeout_precommit                *)
(* rs.validators is the same set at every height; what changes in it, the  *)
(* proposer, is the number of rotations done so far:                       *)
(*   rotation                                                              *)
(* The timeout ticker: the last timeout_info taken, and those whose        *)
(* async_wait handler has not run:                                         *)
(*   old_ti, ticks                                                         *)
(* The internal message queue, the last height/round/step privval signed   *)
(* for, and the blocks saved:                                              *)
(*   mq, last_sign, store                                                  *)
(* What a call through a null pointer does, which depends on the build,    *)
(* and how the last handler ended: "ok", "threw" (the dispatcher of the    *)
(* channel drops the exception) or "dead" (the process is gone):           *)
(*   build, outcome                                                        *)
(* History, the votes of Self with a valid signature:                      *)
(*   signed                                                                *)
(*                                                                         *)
(* A block is identified with its hash and with its part set header.       *)
(***************************************************************************)
EXTENDS VoteSet, Sequences, FiniteSets

-----------------------------------------------------------------------------
(***************************************************************************)
(* height_vote_set (consensus/types/height_vote_set.h): the prevotes and   *)
(* precommits of every round of one height.  It is a record:               *)
(*   round    the last round set_round was called with                     *)
(*   sets     round_vote_sets: the rounds that have vote sets, and these   *)
(*   catchup  peer_catchup_rounds: for every peer, the rounds above that   *)
(*            were opened for one of its votes                             *)
(***************************************************************************)
CONSTANT NodeIds

VoteTypes == {"prevotes", "precommits"}

NewRoundVoteSet == [t \in VoteTypes |-> NewVoteSet]

(* A peer may open this many rounds. *)
MaxCatchupRounds == 2

(* add_round, for each of the rounds R that has no vote sets yet. *)
AddRounds(h, R) ==
  [h EXCEPT !.sets = [r \in DOMAIN @ \cup R |->
                        IF r \in DOMAIN @ THEN @[r] ELSE NewRoundVoteSet]]

(* new_height_vote_set and reset *)
NewHeightVoteSet ==
  [round |-> 0,
   sets |-> [r \in {0} |-> NewRoundVoteSet],
   catchup |-> [p \in NodeIds |-> <<>>]]

(* set_round throws for a round further back than the one before the last. *)
SetRoundThrows(h, r) == h.round # 0 /\ r < h.round - 1

(* set_round; it starts one round below the last one, so the first call    *)
(* also adds round -1.                                                     *)
SetRound(h, r) == [AddRounds(h, (h.round - 1)..r) EXCEPT !.round = r]

(* add_vote of the vote of validator v for b in round r, sent by peer p. *)
HvsAddVote(h, p, r, type, v, b) ==
  LET known  == r \in DOMAIN h.sets
      opened == IF known THEN h
                ELSE [AddRounds(h, {r}) EXCEPT !.catchup[p] = Append(@, r)]
      res    == AddVote(opened.sets[r][type], v, b)
  IN IF ~known /\ Len(h.catchup[p]) >= MaxCatchupRounds
     THEN [hvs |-> h, added |-> FALSE]
     ELSE [hvs |-> [opened EXCEPT !.sets[r][type] = res.vs], added |-> res.added]

(* set_peer_maj23: ignored for a round that has no vote sets. *)
HvsSetPeerMaj23(h, p, r, type, b) ==
  IF r \in DOMAIN h.sets
  THEN [h EXCEPT !.sets[r][type] = SetPeerMaj23(@, p, b)]
  ELSE h

Prevotes(h, r) == h.sets[r]["prevotes"]
Precommits(h, r) == h.sets[r]["precommits"]

(* pol_info: the last round with a polka, or -1. *)
PolInfo(h) ==
  LET polkas == {r \in 0..h.round : HasTwoThirdsMajority(Prevotes(h, r))}
  IN IF polkas = {} THEN -1 ELSE CHOOSE r \in polkas : \A q \in polkas : q <= r

-----------------------------------------------------------------------------
CONSTANTS
  Self,               \* the validator this node signs for
  Blocks,             \* the block ids other than Nil
  ValidBlocks,        \* those that validate_block accepts
  AppliedBlocks,      \* those that apply_block succeeds on
  OwnBlock,           \* what create_proposal_block makes
  NumParts,           \* the number of parts of a block
  Proposers,          \* the order in which validators propose, over and over
  SkipTimeoutCommit,  \* cs_config.skip_timeout_commit
  AnyPeer             \* node_id{}, the peer id every vote is added under

(* What the constants are. *)
ConsensusConstants ==
  /\ Self \in Validators
  /\ BlockIds = Blocks \cup {Nil} /\ Nil \notin Blocks
  /\ ValidBlocks \subseteq Blocks /\ OwnBlock \in ValidBlocks
  /\ AppliedBlocks \subseteq Blocks
  /\ NumParts \in Nat \ {0}
  /\ Proposers \in Seq(Validators) /\ Proposers # <<>>
  /\ SkipTimeoutCommit \in BOOLEAN
  /\ AnyPeer \in NodeIds

(* round_step_type *)
NewHeight == 1
NewRound == 2
Propose == 3
Prevote == 4
PrevoteWait == 5
Precommit == 6
PrecommitWait == 7
Commit == 8

NoParts == [header |-> None, have |-> {}]

(* get_proposer of rs.validators after k calls of increment_proposer_priority. *)
Proposer(k) == Proposers[(k % Len(Proposers)) + 1]

(* Variant: the height is not compared. *)
LaterInRound(t, u) == t.round > u.round \/ (t.round = u.round /\ t.step > u.step)

(* Is the timeout_info t later than u in height, round and step? *)
Later(t, u) ==
  \/ t.height > u.height
  \/ t.height = u.height /\ t.round > u.round
  \/ t.height = u.height /\ t.round = u.round /\ t.step > u.step

(* schedule_timeout and tick.  A timer that is cancelled here still        *)
(* publishes its timeout_info, so it stays in ticks.                       *)
ScheduleTimeout(n, h, r, s) ==
  LET ti == [height |-> h, round |-> r, step |-> s]
  IN IF Later(ti, n.old_ti)
     THEN [n EXCEPT !.old_ti = ti, !.ticks = @ \cup {ti}]
     ELSE n

(* The steps of file_pv: propose, prevote, precommit. *)
SignStep(type) == CASE type = "proposal" -> 1 [] type = "prevotes" -> 2 [] type = "precommits" -> 3

(* check_hrs lets privval make a new signature only for a later            *)
(* height/round/step.  For the same one it returns an old signature or an  *)
(* error: in neither case does a second signed message come out.           *)
CanSign(n, type) ==
  Later([height |-> n.height, round |-> n.round, step |-> SignStep(type)], n.last_sign)

Sign(n, type) ==
  [n EXCEPT !.last_sign = [height |-> n.height, round |-> n.round, step |-> SignStep(type)]]

(* sign_add_vote and sign_vote: the vote is for rs.height and rs.round.    *)
(* sign_vote ignores a refusal; the vote is then published unsigned, and   *)
(* add_vote rejects it.                                                    *)
SignAddVote(n, type, b) ==
  LET v == [kind |-> "vote", height |-> n.height, round |-> n.round,
            type |-> type, val |-> Self, block |-> b]
  IN IF CanSign(n, type)
     THEN [Sign(n, type) EXCEPT !.mq = Append(@, v), !.signed = @ \cup {v}]
     ELSE n

(* A member function called through the null pointer p: the check for a    *)
(* null this answers "no", or an optimised build drops it and crashes.     *)
NullCrash(n, p) == p = None /\ n.build = "optimised"

Crash(n) == [n EXCEPT !.outcome = "dead"]
Throw(n) == [n EXCEPT !.outcome = "threw"]
Running(n) == n.outcome = "ok"

(* The early return of the enter_ functions: another height, a round that  *)
(* is over, or a step that is done.                                        *)
Done(n, h, r, step) == n.height # h \/ r < n.round \/ (n.round = r /\ step <= n.step)

IsComplete(parts) == Cardinality(parts.have) = NumParts

NewPartSet(b) == [header |-> b, have |-> {}]

IsProposalComplete(n) ==
  /\ n.proposal # None
  /\ n.proposal_block # None
  /\ n.proposal.pol_round < 0 \/ HasTwoThirdsMajority(Prevotes(n.votes, n.proposal.pol_round))

(* Variant: the lock is not looked at. *)
DoPrevoteUnlocked(n) ==
  SignAddVote(n, "prevotes", IF n.proposal_block # None THEN n.proposal_block ELSE Nil)

(* do_prevote: the locked block, or else the proposed one, or else nil. *)
DoPrevote(n) ==
  SignAddVote(n, "prevotes",
    CASE n.locked_block # None -> n.locked_block
      [] n.locked_block = None /\ n.proposal_block # None -> n.proposal_block
      [] n.locked_block = None /\ n.proposal_block = None -> Nil)

EnterPrevote(n, h, r) ==
  IF ~Running(n) \/ Done(n, h, r, Prevote)
  THEN n
  ELSE [DoPrevote(n) EXCEPT !.round = r, !.step = Prevote]

(* decide_proposal: the proposal and the parts go to the message queue.    *)
(* Without a valid block, a new one needs the commit of the last height.   *)
DecideProposal(n, h, r) ==
  LET b     == IF n.valid_block # None THEN n.valid_block ELSE OwnBlock
      prop  == [kind |-> "proposal", height |-> h, round |-> r,
                pol_round |-> n.valid_round, block |-> b, val |-> Self]
      parts == [i \in 1..NumParts |->
                  [kind |-> "part", height |-> n.height, block |-> b, index |-> i]]
      able  == \/ n.valid_block # None
               \/ n.height = 1
               \/ HasTwoThirdsMajority(n.last_commit.votes)
  IN IF able /\ CanSign(n, "proposal")
     THEN [Sign(n, "proposal") EXCEPT !.mq = @ \o <<prop>> \o parts]
     ELSE n

EnterPropose(n, h, r) ==
  IF ~Running(n) \/ Done(n, h, r, Propose)
  THEN n
  ELSE LET timed    == ScheduleTimeout(n, h, r, Propose)
           proposed == IF Proposer(n.rotation) = Self THEN DecideProposal(timed, h, r) ELSE timed
           stepped  == [proposed EXCEPT !.round = r, !.step = Propose]
       IN IF IsProposalComplete(stepped) THEN EnterPrevote(stepped, h, r) ELSE stepped

(* enter_new_round.  set_round throws when the round is further back than  *)
(* the one before its last.                                                *)
EnterNewRound(n, h, r) ==
  IF ~Running(n) \/ n.height # h \/ r < n.round \/ (n.round = r /\ n.step # NewHeight)
  THEN n
  ELSE LET entered == [n EXCEPT !.rotation = @ + (r - n.round), !.round = r, !.step = NewRound]
           cleared == IF r = 0 THEN entered
                      ELSE [entered EXCEPT !.proposal = None, !.proposal_block = None,
                                           !.proposal_block_parts = NoParts]
       IN IF SetRoundThrows(n.votes, r + 1)
          THEN Throw(cleared)
          ELSE EnterPropose([cleared EXCEPT !.votes = SetRound(@, r + 1),
                                            !.triggered_timeout_precommit = FALSE], h, r)

Unlock(n) == [n EXCEPT !.locked_round = -1, !.locked_block = None]

PrecommitNil(n) == SignAddVote(n, "precommits", Nil)

(* Variant: the proposal is locked whether or not it is the polka's block. *)
PrecommitPolkaAnyBlock(n, r, b) ==
  LET locked == IF n.proposal_block = None THEN b ELSE n.proposal_block
  IN SignAddVote([n EXCEPT !.locked_round = r, !.locked_block = locked], "precommits", locked)

(* enter_precommit, a polka for block b in round r: lock it when it is the *)
(* locked or the proposed block, otherwise unlock and prepare to fetch it. *)
PrecommitPolka(n, r, b) ==
  LET fetch == IF n.proposal_block_parts.header = b THEN Unlock(n)
               ELSE [Unlock(n) EXCEPT !.proposal_block = None,
                                      !.proposal_block_parts = NewPartSet(b)]
  IN IF n.locked_block = b
     THEN SignAddVote([n EXCEPT !.locked_round = r], "precommits", b)
     ELSE IF NullCrash(n, n.proposal_block) THEN Crash(n)
     ELSE IF n.proposal_block = b
     THEN SignAddVote([n EXCEPT !.locked_round = r, !.locked_block = b], "precommits", b)
     ELSE IF NullCrash(n, n.proposal_block_parts.header) THEN Crash(n)
     ELSE PrecommitNil(fetch)

EnterPrecommit(n, h, r) ==
  IF ~Running(n) \/ Done(n, h, r, Precommit)
  THEN n
  ELSE LET polka == Prevotes(n.votes, r).maj23
           voted == IF polka = None THEN PrecommitNil(n)
                    ELSE IF PolInfo(n.votes) < r THEN Throw(n)
                    ELSE IF polka = Nil THEN PrecommitNil(Unlock(n))
                    ELSE PrecommitPolka(n, r, polka)
       IN [voted EXCEPT !.round = r, !.step = Precommit]

EnterPrecommitWait(n, h, r) ==
  IF ~Running(n) \/ n.height # h \/ r < n.round \/ (n.round = r /\ n.triggered_timeout_precommit)
  THEN n
  ELSE IF ~HasTwoThirdsAny(Precommits(n.votes, r))
  THEN Throw(n)
  ELSE [ScheduleTimeout(n, h, r, PrecommitWait) EXCEPT !.triggered_timeout_precommit = TRUE]

(* enter_prevote_wait.  Its test for two thirds of prevotes is inverted:   *)
(* it throws where it should go on.                                        *)
EnterPrevoteWait(n, h, r) ==
  IF ~Running(n) \/ Done(n, h, r, PrevoteWait)
  THEN n
  ELSE IF HasTwoThirdsAny(Prevotes(n.votes, r))
  THEN Throw(n)
  ELSE [ScheduleTimeout(n, h, r, PrevoteWait) EXCEPT !.round = r, !.step = PrevoteWait]

(* Variant: the votes are renewed before last_commit is taken from them. *)
UpdateToStateVotesFirst(n) ==
  ScheduleTimeout(
    [n EXCEPT !.last_commit = [round |-> n.commit_round, votes |-> NewVoteSet],
              !.height = @ + 1, !.round = 0, !.step = NewHeight, !.rotation = 0,
              !.proposal = None, !.proposal_block = None, !.proposal_block_parts = NoParts,
              !.locked_round = -1, !.locked_block = None,
              !.valid_round = -1, !.valid_block = None,
              !.votes = NewHeightVoteSet, !.commit_round = -1,
              !.triggered_timeout_precommit = FALSE],
    n.height + 1, 0, NewHeight)

(* update_to_state after a block was applied, and schedule_round_0. *)
UpdateToState(n) ==
  ScheduleTimeout(
    [n EXCEPT !.last_commit = [round |-> n.commit_round,
                               votes |-> Precommits(n.votes, n.commit_round)],
              !.height = @ + 1, !.round = 0, !.step = NewHeight, !.rotation = 0,
              !.proposal = None, !.proposal_block = None, !.proposal_block_parts = NoParts,
              !.locked_round = -1, !.locked_block = None,
              !.valid_round = -1, !.valid_block = None,
              !.votes = NewHeightVoteSet, !.commit_round = -1,
              !.triggered_timeout_precommit = FALSE],
    n.height + 1, 0, NewHeight)

(* finalize_commit of the block b: check it, save it, apply it.  When      *)
(* apply_block fails the node stays where it is.                           *)
FinalizeCommit(n, b) ==
  LET saved == [n EXCEPT !.store = IF Len(@) < n.height THEN Append(@, b) ELSE @]
  IN CASE n.step # Commit -> n
       [] n.step = Commit /\ NullCrash(n, n.proposal_block_parts.header) -> Crash(n)
       [] n.step = Commit /\ ~NullCrash(n, n.proposal_block_parts.header) ->
            IF n.proposal_block_parts.header # b \/ b \notin ValidBlocks THEN Throw(n)
            ELSE IF b \in AppliedBlocks THEN UpdateToState(saved)
            ELSE saved

TryFinalizeCommit(n, h) ==
  LET b == Precommits(n.votes, n.commit_round).maj23
  IN IF ~Running(n) \/ b \in {None, Nil} THEN n
     ELSE IF NullCrash(n, n.proposal_block) THEN Crash(n)
     ELSE IF n.proposal_block = b THEN FinalizeCommit(n, b)
     ELSE n

(* enter_commit.  The step and the round change in its deferred block,     *)
(* where an exception ends the process.                                    *)
EnterCommit(n, h, r) ==
  LET b      == Precommits(n.votes, r).maj23
      moved  == IF n.locked_block # b THEN n
                ELSE [n EXCEPT !.proposal_block = b,
                               !.proposal_block_parts = [header |-> b, have |-> 1..NumParts]]
      fetch  == IF moved.proposal_block = b \/ moved.proposal_block_parts.header = b THEN moved
                ELSE [moved EXCEPT !.proposal_block = None,
                                   !.proposal_block_parts = NewPartSet(b)]
      result == TryFinalizeCommit([fetch EXCEPT !.round = r, !.step = Commit,
                                                !.commit_round = r], h)
  IN IF ~Running(n) \/ n.height # h \/ Commit <= n.step THEN n
     ELSE IF \/ NullCrash(n, n.locked_block)
             \/ NullCrash(n, moved.proposal_block)
          THEN Crash(n)
     ELSE IF result.outcome = "threw" THEN Crash(result) ELSE result

(* set_proposal *)
SetProposal(n, msg) ==
  IF \/ n.proposal # None
     \/ msg.height # n.height \/ msg.round # n.round
     \/ msg.pol_round < -1 \/ msg.pol_round >= msg.round
     \/ msg.val # Proposer(n.rotation)
  THEN n
  ELSE [n EXCEPT !.proposal = [pol_round |-> msg.pol_round, block |-> msg.block],
                 !.proposal_block_parts = IF @ = NoParts THEN NewPartSet(msg.block) ELSE @]

(* add_proposal_block_part, when the last part has arrived. *)
BlockCompleted(n) ==
  LET b     == n.proposal_block_parts.header
      polka == Prevotes(n.votes, n.round).maj23
      valid == [n EXCEPT !.proposal_block = b,
                         !.valid_round = IF polka = b /\ @ < n.round THEN n.round ELSE @,
                         !.valid_block = IF polka = b /\ n.valid_round < n.round THEN b ELSE @]
      voted == EnterPrevote(valid, n.height, n.round)
  IN CASE n.step <= Propose /\ IsProposalComplete(valid) ->
            IF polka = None THEN voted ELSE EnterPrecommit(voted, n.height, n.round)
       [] n.step <= Propose /\ ~IsProposalComplete(valid) -> valid
       [] n.step = Commit -> TryFinalizeCommit(valid, n.height)
       [] n.step \in Prevote..PrecommitWait -> valid

(* add_proposal_block_part: a part that does not belong to the expected    *)
(* part set fails its proof.                                               *)
AddProposalBlockPart(n, msg) ==
  LET added == [n EXCEPT !.proposal_block_parts.have = @ \cup {msg.index}]
  IN IF \/ msg.height # n.height
        \/ n.proposal_block_parts = NoParts
        \/ msg.block # n.proposal_block_parts.header
        \/ msg.index \in n.proposal_block_parts.have
     THEN n
     ELSE IF IsComplete(added.proposal_block_parts) THEN BlockCompleted(added) ELSE added

(* Variant: a polka of an earlier round unlocks. *)
UnlockOnOldPolka(n, r) ==
  LET polka == Prevotes(n.votes, r).maj23
  IN IF polka # None /\ n.locked_block \notin {None, polka} /\ r <= n.round THEN Unlock(n) ELSE n

(* add_vote, a prevote of round r was added: a polka may unlock. *)
UnlockOnPolka(n, r) ==
  LET polka == Prevotes(n.votes, r).maj23
  IN IF /\ polka # None
        /\ n.locked_block \notin {None, polka}
        /\ n.locked_round < r /\ r <= n.round
     THEN Unlock(n)
     ELSE n

(* Variant: the wrong proposal block is kept. *)
UpdateValidKeepsBlock(n, r) ==
  LET polka == Prevotes(n.votes, r).maj23
  IN IF polka \in {None, Nil} \/ n.valid_round >= r \/ r # n.round
        \/ n.proposal_block_parts.header = polka
     THEN n
     ELSE [n EXCEPT !.proposal_block_parts = NewPartSet(polka)]

(* ... and it may make the proposal block the valid block, or show that it *)
(* is the wrong one.                                                       *)
UpdateValid(n, r) ==
  LET polka == Prevotes(n.votes, r).maj23
      m     == IF n.proposal_block = polka
               THEN [n EXCEPT !.valid_round = r, !.valid_block = polka]
               ELSE [n EXCEPT !.proposal_block = None]
  IN IF polka \in {None, Nil} \/ n.valid_round >= r \/ r # n.round
     THEN n
     ELSE IF NullCrash(n, n.proposal_block) \/ NullCrash(n, n.proposal_block_parts.header)
     THEN Crash(n)
     ELSE IF m.proposal_block_parts.header = polka THEN m
     ELSE [m EXCEPT !.proposal_block_parts = NewPartSet(polka)]

PrevoteAdded(n, r) ==
  LET vs == Prevotes(n.votes, r)
      m  == UpdateValid(UnlockOnPolka(n, r), r)
  IN IF ~Running(m) THEN m
     ELSE IF m.round < r /\ HasTwoThirdsAny(vs)
     THEN EnterNewRound(m, m.height, r)
     ELSE IF m.round = r /\ Prevote <= m.step
     THEN IF vs.maj23 # None /\ (IsProposalComplete(m) \/ vs.maj23 = Nil)
          THEN EnterPrecommit(m, m.height, r)
          ELSE IF HasTwoThirdsAny(vs) THEN EnterPrevoteWait(m, m.height, r) ELSE m
     ELSE IF m.proposal # None /\ m.proposal.pol_round = r /\ IsProposalComplete(m)
     THEN EnterPrevote(m, m.height, m.round)
     ELSE m

PrecommitAdded(n, r) ==
  LET vs        == Precommits(n.votes, r)
      h         == n.height
      entered   == EnterNewRound(n, h, r)
      voted     == EnterPrecommit(entered, h, r)
      committed == EnterCommit(voted, h, r)
  IN CASE vs.maj23 \in Blocks ->
            IF SkipTimeoutCommit /\ HasAll(vs)
            THEN EnterNewRound(committed, committed.height, 0)
            ELSE committed
       [] vs.maj23 = Nil -> EnterPrecommitWait(voted, h, r)
       [] vs.maj23 = None ->
            IF n.round <= r /\ HasTwoThirdsAny(vs) THEN EnterPrecommitWait(entered, h, r) ELSE n

(* add_vote, a precommit of the previous height: it joins last_commit      *)
(* while the node waits for the next height to start.                      *)
AddLastPrecommit(n, msg) ==
  LET res == AddVote(n.last_commit.votes, msg.val, msg.block)
      m   == [n EXCEPT !.last_commit.votes = res.vs]
  IN IF n.step # NewHeight \/ msg.round # n.last_commit.round THEN n
     ELSE IF res.added /\ SkipTimeoutCommit /\ HasAll(m.last_commit.votes)
     THEN EnterNewRound(m, m.height, 0)
     ELSE m

(* try_add_vote and add_vote *)
TryAddVote(n, msg) ==
  LET res == HvsAddVote(n.votes, AnyPeer, msg.round, msg.type, msg.val, msg.block)
      m   == [n EXCEPT !.votes = res.hvs]
  IN CASE msg.height + 1 = n.height /\ msg.type = "precommits" -> AddLastPrecommit(n, msg)
       [] msg.height # n.height /\ ~(msg.height + 1 = n.height /\ msg.type = "precommits") -> n
       [] msg.height = n.height ->
            IF ~res.added THEN m
            ELSE IF msg.type = "prevotes" THEN PrevoteAdded(m, msg.round)
            ELSE PrecommitAdded(m, msg.round)

(* handle_timeout *)
HandleTimeout(n, ti) ==
  IF ti.height # n.height \/ ti.round < n.round \/ (ti.round = n.round /\ ti.step < n.step)
  THEN n
  ELSE CASE ti.step = NewHeight -> EnterNewRound(n, ti.height, 0)
         [] ti.step = NewRound -> EnterPropose(n, ti.height, 0)
         [] ti.step = Propose -> EnterPrevote(n, ti.height, ti.round)
         [] ti.step = PrevoteWait -> EnterPrecommit(n, ti.height, ti.round)
         [] ti.step = PrecommitWait ->
              EnterNewRound(EnterPrecommit(n, ti.height, ti.round), ti.height, ti.round + 1)

(* message_handler *)
Handle(n, msg) ==
  CASE msg.kind = "proposal" -> SetProposal(n, msg)
    [] msg.kind = "part" -> AddProposalBlockPart(n, msg)
    [] msg.kind = "vote" -> TryAddVote(n, msg)
==============================================================================
