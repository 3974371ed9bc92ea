---------------------------- MODULE ConsensusNode ----------------------------
(***************************************************************************)
(* One consensus_state object at work.  Peers deliver proposals, block     *)
(* parts, votes and claims of majorities in any order, repeated or never;  *)
(* the node's own messages come back through its message queue in order;   *)
(* timers fire when they like.                                             *)
(*                                                                         *)
(* The other validators sign one prevote and one precommit in a round,     *)
(* except the Faulty ones.  Nothing else is assumed of them: they need not *)
(* keep locks, nor propose what they should.  Ballots bounds the state     *)
(* space: what each of them ever votes for.                                *)
(***************************************************************************)
EXTENDS ConsensusState

CONSTANTS
  Ballots,    \* the block ids each validator may vote for in a round
  Faulty,     \* the validators that may sign conflicting votes
  Builds,     \* the builds of the program considered
  MaxHeight,  \* the last height the node takes part in
  MaxRound    \* the last round peers vote in; no timer starts a later one

(* What the constants are. *)
NodeConstants ==
  /\ ConsensusConstants
  /\ Faulty \subseteq Validators \ {Self}
  /\ Ballots \in [Validators -> [0..MaxRound -> SUBSET BlockIds]]
  /\ Builds \subseteq {"checked", "optimised"}
  /\ MaxHeight \in Nat /\ MaxRound \in Nat

VARIABLE n

Rounds == 0..MaxRound
Heights == 1..MaxHeight

NoTimeout == [height |-> 0, round |-> 0, step |-> 0]

(* new_state at the initial height. *)
NewState(build) ==
  [height |-> 1, round |-> 0, step |-> NewHeight, rotation |-> 0,
   proposal |-> None, proposal_block |-> None, proposal_block_parts |-> NoParts,
   locked_round |-> -1, locked_block |-> None, valid_round |-> -1, valid_block |-> None,
   votes |-> NewHeightVoteSet, commit_round |-> -1,
   last_commit |-> [round |-> -1, votes |-> NewVoteSet],
   triggered_timeout_precommit |-> FALSE,
   old_ti |-> NoTimeout, ticks |-> {}, mq |-> <<>>, last_sign |-> NoTimeout,
   store |-> <<>>, signed |-> {}, build |-> build, outcome |-> "ok"]

(* on_start enters round 0. *)
Init == n \in {EnterNewRound(NewState(build), 1, 0) : build \in Builds}

(* The node still runs, and has not committed the last height of the       *)
(* model; the state in which its next handler starts.                      *)
Alive == n.outcome # "dead" /\ n.height <= MaxHeight
Ready == [n EXCEPT !.outcome = "ok"]

(* A message that changes nothing is a stuttering step. *)
Becomes(m) == m # n /\ n' = m

ReceiveProposal(h, r, pol, b) ==
  /\ Alive /\ Proposer(r) # Self
  /\ Becomes(Handle(Ready, [kind |-> "proposal", height |-> h, round |-> r, pol_round |-> pol,
                         block |-> b, val |-> Proposer(r)]))

ReceiveBlockPart(h, b, i) ==
  /\ Alive
  /\ Becomes(Handle(Ready, [kind |-> "part", height |-> h, block |-> b, index |-> i]))

(* What v has been seen to sign in the vote set a vote would go to. *)
SeenVotes(h, r, type, v) ==
  LET vs == IF h = n.height
            THEN IF r \in DOMAIN n.votes.sets THEN n.votes.sets[r][type] ELSE NewVoteSet
            ELSE n.last_commit.votes
  IN {b \in BlockIds : v \in vs.block_votes[b]}

ReceiveVote(h, r, type, v, b) ==
  /\ Alive /\ v # Self
  /\ v \in Faulty \/ SeenVotes(h, r, type, v) \subseteq {b}
  /\ Becomes(Handle(Ready, [kind |-> "vote", height |-> h, round |-> r, type |-> type,
                         val |-> v, block |-> b]))

PeerMaj23(p, r, type, b) ==
  /\ Alive
  /\ Becomes([n EXCEPT !.votes = HvsSetPeerMaj23(@, p, r, type, b)])

HandleInternal ==
  /\ Alive /\ n.mq # <<>>
  /\ Becomes(Handle([Ready EXCEPT !.mq = Tail(@)], Head(n.mq)))

(* tock *)
Tock(ti) ==
  /\ Alive /\ ti \in n.ticks
  /\ ti.step = PrecommitWait => ti.round < MaxRound
  /\ n' = HandleTimeout([Ready EXCEPT !.ticks = @ \ {ti}], ti)

Next ==
  \/ \E h \in Heights, r \in Rounds, pol \in -1..MaxRound, b \in Blocks :
        ReceiveProposal(h, r, pol, b)
  \/ \E h \in Heights, b \in Blocks, i \in 1..NumParts : ReceiveBlockPart(h, b, i)
  \/ \E h \in Heights, r \in Rounds, type \in VoteTypes, v \in Validators :
        \E b \in Ballots[v][r] : ReceiveVote(h, r, type, v, b)
  \/ \E p \in Peers, r \in Rounds, type \in VoteTypes, b \in BlockIds : PeerMaj23(p, r, type, b)
  \/ HandleInternal
  \/ \E ti \in n.ticks : Tock(ti)

Spec == Init /\ [][Next]_n

Timeouts == [height: 0..(MaxHeight + 1), round: 0..(MaxRound + 1), step: 0..8]

TypeOK ==
  /\ n.height \in 1..(MaxHeight + 1)
  /\ n.round \in Rounds /\ n.step \in NewHeight..Commit
  /\ n.proposal_block \in Blocks \cup {None}
  /\ n.proposal_block_parts \in [header: Blocks \cup {None}, have: SUBSET (1..NumParts)]
  /\ n.locked_round \in -1..MaxRound /\ n.locked_block \in Blocks \cup {None}
  /\ n.valid_round \in -1..MaxRound /\ n.valid_block \in Blocks \cup {None}
  /\ n.commit_round \in -1..MaxRound
  /\ \A r \in DOMAIN n.votes.sets : n.votes.sets[r] \in [VoteTypes -> VoteSets]
  /\ n.last_commit.votes \in VoteSets
  /\ n.ticks \subseteq Timeouts
  /\ n.outcome \in {"ok", "threw", "dead"}

(* A lock is backed by a polka: while the node is locked on a block, it    *)
(* holds a majority of prevotes of locked_round for that block.            *)
LockHasPolka ==
  n.locked_block # None => Prevotes(n.votes, n.locked_round).maj23 = n.locked_block

(* What the node will propose again, valid_block, has a polka: the majority *)
(* of prevotes of valid_round is for it, whichever of add_vote and          *)
(* add_proposal_block_part set it.                                          *)
ValidHasPolka ==
  n.valid_block # None => Prevotes(n.votes, n.valid_round).maj23 = n.valid_block

(* proposal_block is the block of proposal_block_parts, and all its parts  *)
(* are there: finalize_commit finds no other header than the committed one.*)
BlockMatchesParts ==
  n.proposal_block # None =>
     /\ n.proposal_block = n.proposal_block_parts.header
     /\ IsComplete(n.proposal_block_parts)

(* A pending timer stands behind every wait: in NewHeight, in Propose and  *)
(* after two thirds of any precommits, the timeout that ends the wait has  *)
(* been scheduled and has not fired, although tick() drops the timeouts it *)
(* takes for old ones.                                                     *)
TimerArmed ==
  LET Pending(step) == [height |-> n.height, round |-> n.round, step |-> step] \in n.ticks
  IN /\ n.step = NewHeight => Pending(NewHeight)
     /\ n.step = Propose => Pending(Propose)
     /\ n.triggered_timeout_precommit /\ n.step < Commit => Pending(PrecommitWait)

(* The block saved at a height is the one whose precommits last_commit     *)
(* keeps, and these still make a commit with a quorum while late           *)
(* precommits are added to them.                                           *)
LastCommitBacked ==
  n.height > 1 =>
     /\ n.last_commit.votes.maj23 = n.store[n.height - 1]
     /\ HasQuorum(CommitSigners(n.last_commit.votes))

(* The votes Self signed for height 1, and what it has seen of the others. *)
SignedAt(type) ==
  [r \in Rounds |->
     LET vs == {m \in n.signed : m.height = 1 /\ m.round = r /\ m.type = type}
     IN IF vs = {} THEN None ELSE (CHOOSE m \in vs : TRUE).block]

AbstractVal ==
  [prevote |-> SignedAt("prevotes"), precommit |-> SignedAt("precommits"),
   locked_round |-> IF n.height = 1 THEN n.locked_round ELSE -1,
   locked_block |-> IF n.height = 1 THEN n.locked_block ELSE None,
   decided |-> IF n.height = 1 THEN None ELSE n.store[1]]

Majorities(type) ==
  IF n.height = 1
  THEN {p \in Rounds \X BlockIds : /\ p[1] \in DOMAIN n.votes.sets
                                   /\ n.votes.sets[p[1]][type].maj23 = p[2]}
  ELSE {}

AbstractCommits ==
  IF n.height = 2 THEN {<<n.last_commit.round, n.last_commit.votes.maj23>>}
  ELSE Majorities("precommits")

V == INSTANCE Validator WITH
       val <- AbstractVal, polkas <- Majorities("prevotes"), commits <- AbstractCommits

(* Every handler keeps the promise of ValidatorRules at the first height:  *)
(* whatever the order of messages and timeouts, votes are signed once and  *)
(* in order, prevotes keep to the lock, precommits have a polka and leave  *)
(* a lock, locks yield only to later polkas, and the block that is saved   *)
(* has a majority of precommits.                                           *)
KeepsPromise == V!Spec

(* "Once `add_vote` hits any +2/3 prevotes, we will go to prevote_wait"    *)
(* (enter_prevote): a prevote that is added in step Prevote and leaves two *)
(* thirds of any prevotes ends that step.                                  *)
WaitFollows ==
  /\ n.step = Prevote
  /\ n'.height = n.height /\ n'.round = n.round
  /\ Prevotes(n'.votes, n.round) # Prevotes(n.votes, n.round)
  /\ HasTwoThirdsAny(Prevotes(n'.votes, n.round))
  => n'.step # Prevote
===============================================================================
