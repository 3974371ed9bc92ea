----------------------------- MODULE VoteSetSpec -----------------------------
(***************************************************************************)
(* One vote set under the calls its owner makes: add_vote for every vote   *)
(* that peers deliver, in any order and any number of times, and           *)
(* set_peer_maj23 for every claim of a peer.  A correct validator signs    *)
(* one vote; a faulty one may sign a vote for every block id.              *)
(*                                                                         *)
(* cast is history: the votes delivered so far.                            *)
(***************************************************************************)
EXTENDS VoteSet

CONSTANT Faulty

ASSUME FaultyAssumption == Faulty \subseteq Validators

VARIABLES vs, cast

vars == <<vs, cast>>

Voters(b) == {v \in Validators : <<v, b>> \in cast}

Init == vs = NewVoteSet /\ cast = {}

DeliverVote(v, b) ==
  /\ v \in Faulty \/ \A c \in BlockIds \ {b} : <<v, c>> \notin cast
  /\ cast' = cast \cup {<<v, b>>}
  /\ vs' = AddVote(vs, v, b).vs

ClaimMaj23(p, b) ==
  /\ vs' = SetPeerMaj23(vs, p, b)
  /\ UNCHANGED cast

Next ==
  \/ \E v \in Validators, b \in BlockIds : DeliverVote(v, b)
  \/ \E p \in Peers, b \in BlockIds : ClaimMaj23(p, b)

Spec == Init /\ [][Next]_vars

TypeOK == vs \in VoteSets /\ cast \in SUBSET (Validators \X BlockIds)

(* What is counted for a block was delivered and counted once, and what a  *)
(* correct validator sent is counted on arrival.                           *)
CountedInv ==
  \A b \in BlockIds :
     /\ vs.block_sum[b] = Power[vs.block_votes[b]]
     /\ vs.block_votes[b] \subseteq Voters(b)
     /\ Voters(b) \ Faulty \subseteq vs.block_votes[b]

(* .votes holds only delivered votes; a correct validator sent one vote.   *)
DeliveredInv ==
  /\ \A v \in Validators : vs.votes[v] # None => <<v, vs.votes[v]>> \in cast
  /\ \A v \in Validators \ Faulty : \A b, c \in BlockIds :
        <<v, b>> \in cast /\ <<v, c>> \in cast => b = c

(* Until a majority rewrites .votes, sum is its power, and no block passes *)
(* the quorum unnoticed.                                                   *)
BeforeMajority ==
  vs.maj23 = None =>
     /\ vs.sum = Power[{v \in Validators : vs.votes[v] # None}]
     /\ \A b \in BlockIds : vs.block_sum[b] < QuorumPower

(* The majority block has a quorum both in votes_by_block and in .votes.   *)
AtMajority ==
  vs.maj23 # None =>
     /\ HasQuorum(vs.block_votes[vs.maj23])
     /\ HasQuorum({v \in Validators : vs.votes[v] = vs.maj23})

(* The bookkeeping of add_vote, the inductive invariant behind the         *)
(* properties below.                                                       *)
BookkeepingInv == CountedInv /\ DeliveredInv /\ BeforeMajority /\ AtMajority

(* A majority is found only where a quorum voted: when maj23 is set, the   *)
(* votes delivered for that block add up to the quorum, however often      *)
(* votes were repeated or replaced and whichever peers made claims.        *)
MajorityIsReal == vs.maj23 # None => HasQuorum(Voters(vs.maj23))

(* No majority is missed: once a quorum of validators that sign only once  *)
(* voted for b, two_thirds_majority() answers b, whatever the others sent  *)
(* first or after.                                                         *)
MajorityNotMissed ==
  \A b \in BlockIds : HasQuorum(Voters(b) \ Faulty) => vs.maj23 = b

(* The commit made from a majority for a block carries the signatures of a *)
(* quorum for it, also after conflicting and repeated votes have rewritten *)
(* .votes.                                                                 *)
CommitBacked == vs.maj23 \notin {None, Nil} => HasQuorum(CommitSigners(vs))

(* has_two_thirds_any() is right although sum may count a validator twice: *)
(* it answers true only when validators with more than two thirds of the   *)
(* power have voted.                                                       *)
TwoThirdsAnyIsReal ==
  HasTwoThirdsAny(vs) => HasQuorum({v \in Validators : \E b \in BlockIds : v \in Voters(b)})

(* add_vote considers only the first quorum reached: once set, maj23 is    *)
(* never changed or cleared.                                               *)
Maj23Stable == [][vs.maj23 # None => vs'.maj23 = vs.maj23]_vars
==============================================================================
