------------------------------- MODULE VoteSet -------------------------------
(***************************************************************************)
(* vote_set (consensus/types/vote.h, vote.cpp): the votes of one height,   *)
(* round and type.  A vote is a validator and the key of the block id it   *)
(* is for; the empty id, a vote for nil, is one of the BlockIds.           *)
(*                                                                         *)
(* A vote set is a record:                                                 *)
(*   votes        the canonical vote of every validator, or None           *)
(*   bits         votes_bit_array, the indices whose bit is set            *)
(*   sum          the power counted when a vote entered .votes             *)
(*   maj23        the first block id that reached the quorum, or None      *)
(*   tracked      the keys of votes_by_block                               *)
(*   claimed      the keys whose block_votes have peer_maj23 set           *)
(*   block_votes  for every key, whose votes its block_votes hold          *)
(*   block_sum    for every key, the sum its block_votes count             *)
(*   peer_maj23s  the block id each peer claimed a majority for, or None   *)
(***************************************************************************)
EXTENDS VotingPower

CONSTANTS BlockIds, Nil, Peers, None

ASSUME BlockIdAssumption == Nil \in BlockIds /\ None \notin BlockIds

VoteSets == [votes: [Validators -> BlockIds \cup {None}],
             bits: SUBSET Validators,
             sum: Int,
             maj23: BlockIds \cup {None},
             tracked: SUBSET BlockIds,
             claimed: SUBSET BlockIds,
             block_votes: [BlockIds -> SUBSET Validators],
             block_sum: [BlockIds -> Int],
             peer_maj23s: [Peers -> BlockIds \cup {None}]]

NewVoteSet ==
  [votes |-> [v \in Validators |-> None],
   bits |-> {},
   sum |-> 0,
   maj23 |-> None,
   tracked |-> {},
   claimed |-> {},
   block_votes |-> [b \in BlockIds |-> {}],
   block_sum |-> [b \in BlockIds |-> 0],
   peer_maj23s |-> [p \in Peers |-> None]]

(* get_vote looks in .votes and in .votes_by_block, but what it finds in   *)
(* the second place it does not return.                                    *)
GetVote(vs, v, b) == IF vs.votes[v] = b THEN b ELSE None

(* Does v have a vote for another block in .votes already?                 *)
Conflicting(vs, v, b) == vs.votes[v] \notin {None, b}

(* The conflicting vote is given up, and reported as an error.             *)
Refused(vs, v, b) ==
  /\ Conflicting(vs, v, b)
  /\ b \in vs.tracked => b \in vs.claimed

(* add_vote, first part: .votes, its bit array and the sum.                *)
PutVote(vs, v, b) ==
  IF Conflicting(vs, v, b)
  THEN IF vs.maj23 = b
       THEN [vs EXCEPT !.votes[v] = b, !.bits = @ \cup {v}]
       ELSE vs
  ELSE [vs EXCEPT !.votes[v] = b, !.bits = @ \cup {v}, !.sum = @ + PowerOf(v)]

(* block_votes::add_verified_vote, on a block that is now tracked.         *)
AddVerifiedVote(vs, v, b) ==
  IF v \in vs.block_votes[b]
  THEN [vs EXCEPT !.tracked = @ \cup {b}]
  ELSE [vs EXCEPT !.tracked = @ \cup {b},
                  !.block_votes[b] = @ \cup {v},
                  !.block_sum[b] = @ + PowerOf(v)]

(* Variant: the quorum must be exceeded. *)
CountVoteAboveQuorum(vs, v, b) ==
  LET new     == AddVerifiedVote(vs, v, b)
      crosses == vs.block_sum[b] <= QuorumPower /\ QuorumPower < new.block_sum[b]
  IN IF crosses /\ vs.maj23 = None
     THEN [new EXCEPT !.maj23 = b,
                      !.votes = [w \in Validators |->
                                   IF w \in new.block_votes[b] THEN b ELSE None]]
     ELSE new

(* Variant: the votes of the majority block are not copied to .votes. *)
CountVoteNoCopy(vs, v, b) ==
  LET new     == AddVerifiedVote(vs, v, b)
      crosses == vs.block_sum[b] < QuorumPower /\ QuorumPower <= new.block_sum[b]
  IN IF crosses /\ vs.maj23 = None THEN [new EXCEPT !.maj23 = b] ELSE new

(* Variant: a second block that crosses the quorum replaces the first. *)
CountVoteLastQuorum(vs, v, b) ==
  LET new     == AddVerifiedVote(vs, v, b)
      crosses == vs.block_sum[b] < QuorumPower /\ QuorumPower <= new.block_sum[b]
  IN IF crosses
     THEN [new EXCEPT !.maj23 = b,
                      !.votes = [w \in Validators |->
                                   IF w \in new.block_votes[b] THEN b ELSE None]]
     ELSE new

(* Variant: the majority is looked up again with every vote. *)
CountVoteRecomputed(vs, v, b) ==
  LET new == AddVerifiedVote(vs, v, b)
  IN [new EXCEPT !.maj23 = IF QuorumPower <= new.block_sum[b] THEN b ELSE None]

(* add_vote, last part: count the vote for its block; the first block to   *)
(* cross the quorum becomes maj23 and its votes replace .votes.            *)
CountVote(vs, v, b) ==
  LET new     == AddVerifiedVote(vs, v, b)
      crosses == vs.block_sum[b] < QuorumPower /\ QuorumPower <= new.block_sum[b]
  IN IF crosses /\ vs.maj23 = None
     THEN [new EXCEPT !.maj23 = b,
                      !.votes = [w \in Validators |->
                                   IF w \in new.block_votes[b] THEN b ELSE None]]
     ELSE new

(* add_vote of a well-signed vote: the vote set it leaves, and whether the *)
(* vote was added.                                                         *)
AddVote(vs, v, b) ==
  IF GetVote(vs, v, b) = b
  THEN [vs |-> vs, added |-> FALSE]
  ELSE IF Refused(vs, v, b)
  THEN [vs |-> PutVote(vs, v, b), added |-> FALSE]
  ELSE [vs |-> CountVote(PutVote(vs, v, b), v, b), added |-> TRUE]

(* set_peer_maj23: a peer says it has seen a majority for b.               *)
SetPeerMaj23(vs, p, b) ==
  IF vs.peer_maj23s[p] # None
  THEN vs
  ELSE [vs EXCEPT !.peer_maj23s[p] = b,
                  !.tracked = @ \cup {b},
                  !.claimed = @ \cup {b}]

HasTwoThirdsMajority(vs) == vs.maj23 # None

HasTwoThirdsAny(vs) == vs.sum > (TotalVotingPower * 2) \div 3
HasAll(vs) == vs.sum = TotalVotingPower

(* make_commit: the flags of the signatures of a commit for maj23.  A vote *)
(* for another block is left out, a vote for nil is kept as such.          *)
MakeCommit(vs) ==
  [v \in Validators |-> CASE vs.votes[v] = Nil -> "nil"
                          [] vs.votes[v] # Nil /\ vs.votes[v] = vs.maj23 -> "commit"
                          [] OTHER -> "absent"]

CommitSigners(vs) == {v \in Validators : MakeCommit(vs)[v] = "commit"}

-----------------------------------------------------------------------------
(***************************************************************************)
(* What the calls of vote_set preserve, and what they change.              *)
(***************************************************************************)
(* The individual powers are natural numbers.                              *)
LEMMA PowerType ==
  ASSUME NEW S \in SUBSET Validators
  PROVE  Power[S] \in Nat
BY PowerAssumption

(* Storing a vote in .votes, the first part of add_vote, leaves a vote set. *)
LEMMA PutVoteType ==
  ASSUME NEW s \in VoteSets, NEW v \in Validators, NEW b \in BlockIds
  PROVE  PutVote(s, v, b) \in VoteSets
<1>1. PowerOf(v) \in Nat
  BY PowerType DEF PowerOf
<1>2. /\ [s.votes EXCEPT ![v] = b] \in [Validators -> BlockIds \cup {None}]
      /\ s.bits \cup {v} \in SUBSET Validators
      /\ s.sum + PowerOf(v) \in Int
  BY <1>1 DEF VoteSets
<1> QED BY <1>2, Zenon DEF PutVote, VoteSets

(* Counting a vote for its block (votes_by_block) leaves a vote set.       *)
LEMMA AddVerifiedVoteType ==
  ASSUME NEW s \in VoteSets, NEW v \in Validators, NEW b \in BlockIds
  PROVE  AddVerifiedVote(s, v, b) \in VoteSets
<1>1. PowerOf(v) \in Nat
  BY PowerType DEF PowerOf
<1>2. /\ s.tracked \cup {b} \in SUBSET BlockIds
      /\ [s.block_votes EXCEPT ![b] = @ \cup {v}] \in [BlockIds -> SUBSET Validators]
      /\ [s.block_sum EXCEPT ![b] = @ + PowerOf(v)] \in [BlockIds -> Int]
  BY <1>1 DEF VoteSets
<1> QED BY <1>2, Zenon DEF AddVerifiedVote, VoteSets

(* So does the replacing of .votes when a block crosses the quorum.        *)
LEMMA CountVoteType ==
  ASSUME NEW s \in VoteSets, NEW v \in Validators, NEW b \in BlockIds
  PROVE  CountVote(s, v, b) \in VoteSets
<1> DEFINE new == AddVerifiedVote(s, v, b)
<1>1. new \in VoteSets
  BY AddVerifiedVoteType
<1> HIDE DEF new
<1>2. [new EXCEPT !.maj23 = b,
         !.votes = [w \in Validators |-> IF w \in new.block_votes[b] THEN b ELSE None]] \in VoteSets
  BY <1>1 DEF VoteSets
<1> QED BY <1>1, <1>2 DEF CountVote, new

(* A claim of a peer (set_peer_maj23) leaves a vote set.                   *)
LEMMA SetPeerMaj23Type ==
  ASSUME NEW s \in VoteSets, NEW p \in Peers, NEW b \in BlockIds
  PROVE  SetPeerMaj23(s, p, b) \in VoteSets
BY DEF SetPeerMaj23, VoteSets

(* What storing a vote changes: a vote that conflicts with an earlier one  *)
(* is neither added to the sum nor, unless it is for maj23, to .votes.     *)
LEMMA PutVoteFields ==
  ASSUME NEW s \in VoteSets, NEW v \in Validators, NEW b \in BlockIds
  PROVE  LET put == PutVote(s, v, b) IN
         /\ put.block_votes = s.block_votes /\ put.block_sum = s.block_sum /\ put.maj23 = s.maj23
         /\ Conflicting(s, v, b) => put.sum = s.sum
         /\ Conflicting(s, v, b) /\ s.maj23 # b => put.votes = s.votes
         /\ Conflicting(s, v, b) /\ s.maj23 = b => put.votes = [s.votes EXCEPT ![v] = b]
         /\ ~Conflicting(s, v, b) => /\ put.votes = [s.votes EXCEPT ![v] = b]
                                     /\ put.sum = s.sum + PowerOf(v)
BY DEF PutVote, VoteSets, Conflicting

(* The sum of a block stays the power of its votes: a vote that is already *)
(* among them is not counted again.                                        *)
LEMMA AddVerifiedVoteFields ==
  ASSUME NEW s \in VoteSets, NEW v \in Validators, NEW b \in BlockIds,
         s.block_sum[b] = Power[s.block_votes[b]]
  PROVE  LET n == AddVerifiedVote(s, v, b) IN
         /\ n.votes = s.votes /\ n.sum = s.sum /\ n.maj23 = s.maj23
         /\ n.block_votes = [s.block_votes EXCEPT ![b] = @ \cup {v}]
         /\ \A c \in BlockIds \ {b} : n.block_sum[c] = s.block_sum[c]
         /\ n.block_sum[b] = Power[n.block_votes[b]]
<1> DEFINE n == AddVerifiedVote(s, v, b)
<1>1. n.votes = s.votes /\ n.sum = s.sum /\ n.maj23 = s.maj23
  BY DEF AddVerifiedVote, VoteSets
<1>2. CASE v \in s.block_votes[b]
  <2>1. n.block_votes = s.block_votes /\ n.block_sum = s.block_sum
    BY <1>2 DEF AddVerifiedVote, VoteSets
  <2>2. s.block_votes = [s.block_votes EXCEPT ![b] = @ \cup {v}]
    BY <1>2 DEF VoteSets
  <2> QED BY <1>1, <2>1, <2>2
<1>3. CASE v \notin s.block_votes[b]
  <2>1. /\ n.block_votes = [s.block_votes EXCEPT ![b] = @ \cup {v}]
        /\ n.block_sum = [s.block_sum EXCEPT ![b] = @ + PowerOf(v)]
    BY <1>3 DEF AddVerifiedVote, VoteSets
  <2>2. s.block_votes[b] \in SUBSET Validators
    BY DEF VoteSets
  <2>3. Power[s.block_votes[b] \cup {v}] = Power[s.block_votes[b]] + PowerOf(v)
    BY <1>3, <2>2, PowerAdd
  <2>4. n.block_votes[b] = s.block_votes[b] \cup {v} /\ n.block_sum[b] = s.block_sum[b] + PowerOf(v)
    BY <2>1 DEF VoteSets
  <2>5. n.block_sum[b] = Power[n.block_votes[b]]
    BY <2>3, <2>4
  <2>6. \A c \in BlockIds \ {b} : n.block_sum[c] = s.block_sum[c]
    BY <2>1 DEF VoteSets
  <2> QED BY <1>1, <2>1, <2>5, <2>6
<1> QED BY <1>2, <1>3

(* A vote set keeps the majority it has when a vote is added.              *)
LEMMA AddVoteKeeps ==
  ASSUME NEW s \in VoteSets, NEW v \in Validators, NEW b \in BlockIds
  PROVE  /\ AddVote(s, v, b).vs \in VoteSets
         /\ s.maj23 # None => AddVote(s, v, b).vs.maj23 = s.maj23
<1> DEFINE put == PutVote(s, v, b)
           c == AddVerifiedVote(put, v, b)
<1>1. put \in VoteSets /\ put.maj23 = s.maj23
  BY PutVoteType, PutVoteFields
<1> HIDE DEF put
<1>2. CountVote(put, v, b) \in VoteSets /\ c \in VoteSets /\ c.maj23 = put.maj23
  <2>1. c.maj23 = put.maj23
    BY <1>1 DEF AddVerifiedVote, VoteSets
  <2> QED BY <1>1, <2>1, CountVoteType, AddVerifiedVoteType
<1>3. put.maj23 # None => CountVote(put, v, b).maj23 = put.maj23
  BY <1>2 DEF CountVote
<1> QED BY <1>1, <1>2, <1>3 DEF AddVote, put

(* A claim of a peer leaves the majority as it is.                         *)
LEMMA SetPeerMaj23Keeps ==
  ASSUME NEW s \in VoteSets, NEW p \in Peers, NEW b \in BlockIds
  PROVE  SetPeerMaj23(s, p, b) \in VoteSets /\ SetPeerMaj23(s, p, b).maj23 = s.maj23
BY DEF SetPeerMaj23, VoteSets

(* A new vote set has no majority.                                         *)
LEMMA NewVoteSetType == NewVoteSet \in VoteSets /\ NewVoteSet.maj23 = None
BY DEF NewVoteSet, VoteSets
==============================================================================
