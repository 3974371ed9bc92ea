----------------------------- MODULE EvidencePool -----------------------------
(***************************************************************************)
(* evidence_pool (consensus/ev): evidence of duplicate votes is pending or *)
(* committed in evidence.db; ev_list, which the reactor gossips, and       *)
(* evidence_size, which decides whether anything is proposed, are kept     *)
(* beside it in memory.  The block of a height has the height as its time. *)
(*                                                                         *)
(* A piece of evidence is a record: height; time, the block time it        *)
(* states; forged, whether one of its votes does not verify.  There is no  *)
(* evidence of attacks on light clients: its get_hash calls itself without *)
(* end (evidence.cpp:53-62), before anything could be done with it.        *)
(***************************************************************************)
EXTENDS Integers, Sequences, FiniteSets, FiniteSetsExt, SequencesExt

CONSTANTS EvHeights, EvTimes, MaxAgeNumBlocks, MaxAgeDuration,
          MaxEvHeight, MaxReports, MaxStops, MaxPerBlock, SizeBits

VARIABLES height,        \* state.last_block_height of the pool
          pending,       \* the evidence under prefix_pending
          committed,     \* the evidence under prefix_committed
          ev_list, size, \* in memory: ev_list and evidence_size
          buffer,        \* consensus_buffer
          pruning,       \* pruning_height and pruning_time
          disk,          \* what evidence.db has flushed
          blocks,        \* the evidence of the blocks applied (history)
          corrected,     \* the evidence that generate_abci gave (history)
          reports, stops,
          mode           \* "up", "down", or "failed": new_pool did not return

vars == <<height, pending, committed, ev_list, size, buffer, pruning, disk, blocks, corrected, reports, stops, mode>>

Evidence == [height : EvHeights, time : EvTimes, forged : BOOLEAN]

(* The number of values of evidence_size, which has 32 bits in the code.    *)
Width == 2^SizeBits

BlockTime(h) == h

(* The key order of the pending evidence.                                  *)
KeyBefore(a, b) ==
  \/ a.height < b.height
  \/ a.height = b.height /\ a.time < b.time
  \/ a.height = b.height /\ a.time = b.time /\ b.forged /\ ~a.forged

InKeyOrder(S) == SetToSortSeq(S, KeyBefore)

(* is_expired *)
IsExpired(ev, h) == h - ev.height > MaxAgeNumBlocks /\ BlockTime(h) - ev.time > MaxAgeDuration

TooOld(ev) == BlockTime(height) - BlockTime(ev.height) > MaxAgeDuration /\ height - ev.height > MaxAgeNumBlocks

VerifyDuplicateVote(ev) == ~ev.forged

(* verify: "ok", "error", or "abci" when only the facts for the            *)
(* application are wrong; these are then set right by generate_abci.       *)
Verify(ev) ==
  IF ev.height > height \/ TooOld(ev) \/ ~VerifyDuplicateVote(ev) THEN "error"
  ELSE IF ev.time # BlockTime(ev.height) THEN "abci"
  ELSE "ok"

GenerateAbci(ev) == [ev EXCEPT !.time = BlockTime(ev.height)]

Pool == [pending |-> pending, committed |-> committed, list |-> ev_list, size |-> size, corrected |-> corrected]

(* add_pending_evidence *)
AddPendingEvidence(p, ev) == [p EXCEPT !.pending = @ \cup {ev}, !.size = (@ + 1) % Width]

AddCorrected(p, ev) ==
  [AddPendingEvidence(p, GenerateAbci(ev)) EXCEPT !.corrected = @ \cup {GenerateAbci(ev)}]

Listed(p, ev) == [p EXCEPT !.list = Append(@, ev)]

(* remove_evidence_from_list, and what both of its callers take off.       *)
RemoveFromList(p, S) ==
  [p EXCEPT !.list = SelectSeq(@, LAMBDA e : e \notin S), !.size = (@ - Cardinality(S)) % Width]

(* add_evidence *)
Added(p, ev) ==
  IF ev \in p.pending \cup p.committed THEN p
  ELSE CASE Verify(ev) = "ok" -> Listed(AddPendingEvidence(p, ev), ev)
         [] Verify(ev) = "abci" -> AddCorrected(p, ev)
         [] OTHER -> p

(* check_evidence, for one piece after the others.                         *)
CheckedOne(c, ev) ==
  IF ~c.ok THEN c
  ELSE IF ev \in c.pool.pending THEN [c EXCEPT !.ok = ev \notin c.seen, !.seen = @ \cup {ev}]
  ELSE IF ev \in c.pool.committed THEN [c EXCEPT !.ok = FALSE]
  ELSE CASE Verify(ev) = "ok" -> [pool |-> AddPendingEvidence(c.pool, ev), ok |-> ev \notin c.seen, seen |-> c.seen \cup {ev}]
         [] Verify(ev) = "abci" -> [c EXCEPT !.pool = AddCorrected(@, ev), !.ok = FALSE]
         [] OTHER -> [c EXCEPT !.ok = FALSE]

Checked(p, evs) == FoldLeft(CheckedOne, [pool |-> p, ok |-> TRUE, seen |-> {}], evs)

(* process_consensus_buffer: two votes become evidence with the facts of   *)
(* the block of their height.                                              *)
Flushed(p) ==
  FoldLeft(LAMBDA q, ev : IF ev \in q.pending \cup q.committed THEN q ELSE Listed(AddPendingEvidence(q, ev), ev),
           p, buffer)

(* Variant: committed evidence stays pending.                              *)
MarkCommittedOnly(p, evs) == [p EXCEPT !.committed = @ \cup evs]

(* mark_evidence_as_committed *)
MarkCommitted(p, evs) ==
  RemoveFromList([p EXCEPT !.committed = @ \cup evs, !.pending = @ \ evs], evs \cap p.pending)

(* batch_expired_pending_evidence: the evidence, in key order, up to the   *)
(* first that is expired.                                                  *)
BeforeExpired(p, h) ==
  LET keys == InKeyOrder(p.pending)
      expired == {i \in DOMAIN keys : IsExpired(keys[i], h)}
      upto == IF expired = {} THEN Len(keys) ELSE Min(expired) - 1
  IN [map |-> ToSet(SubSeq(keys, 1, upto)),
      height |-> IF expired = {} THEN h ELSE keys[upto + 1].height + MaxAgeNumBlocks + 1,
      time |-> IF expired = {} THEN BlockTime(h) ELSE keys[upto + 1].time + MaxAgeDuration + 1]

(* remove_expired_pending_evidence.  The keys it erases are the values of  *)
(* the entries, so that the entries stay.                                  *)
RemoveExpired(p, h) == RemoveFromList(p, BeforeExpired(p, h).map)

SetPool(p) ==
  /\ pending' = p.pending
  /\ committed' = p.committed
  /\ ev_list' = p.list
  /\ size' = p.size
  /\ corrected' = p.corrected

-----------------------------------------------------------------------------
(* add_evidence *)
AddEvidence(ev) ==
  /\ mode = "up"
  /\ SetPool(Added(Pool, ev))
  /\ UNCHANGED <<height, buffer, pruning, disk, blocks, reports, stops, mode>>

(* report_conflicting_votes, for votes of the height in consensus or of    *)
(* the last one.                                                           *)
ReportConflictingVotes(h) ==
  /\ mode = "up" /\ reports < MaxReports
  /\ h \in EvHeights \cap {height, height + 1}
  /\ buffer' = Append(buffer, [height |-> h, time |-> BlockTime(h), forged |-> FALSE])
  /\ reports' = reports + 1
  /\ UNCHANGED <<height, pending, committed, ev_list, size, pruning, disk, blocks, corrected, stops, mode>>

(* validate_block refuses a proposed block for its evidence.               *)
RefuseBlock(evs) ==
  /\ mode = "up"
  /\ LET c == Checked(Pool, evs) IN ~c.ok /\ SetPool(c.pool)
  /\ UNCHANGED <<height, buffer, pruning, disk, blocks, reports, stops, mode>>

(* apply_block: check_evidence, and then update.                           *)
ApplyBlock(evs) ==
  LET c == Checked(Pool, evs)
      p == MarkCommitted(Flushed(c.pool), ToSet(evs))
      h == height + 1
      prune == p.size > 0 /\ h > pruning.height /\ BlockTime(h) > pruning.time
      b == BeforeExpired(p, h)
  IN /\ mode = "up" /\ h <= MaxEvHeight
     /\ c.ok
     /\ SetPool(IF prune THEN RemoveExpired(p, h) ELSE p)
     /\ pruning' = IF prune THEN [height |-> b.height, time |-> b.time] ELSE pruning
     /\ height' = h
     /\ buffer' = <<>>
     /\ blocks' = Append(blocks, ToSet(evs))
     /\ UNCHANGED <<disk, reports, stops, mode>>

(* The process ends: closing RocksDB flushes it, a kill does not, and its  *)
(* log is off.                                                             *)
Stop ==
  /\ mode = "up" /\ stops < MaxStops
  /\ mode' = "down"
  /\ stops' = stops + 1
  /\ disk' = [pending |-> pending, committed |-> committed]
  /\ UNCHANGED <<height, pending, committed, ev_list, size, buffer, pruning, blocks, corrected, reports>>

Kill ==
  /\ mode = "up" /\ stops < MaxStops
  /\ mode' = "down"
  /\ stops' = stops + 1
  /\ UNCHANGED <<height, pending, committed, ev_list, size, buffer, pruning, disk, blocks, corrected, reports>>

(* new_pool.  There is no ev_list yet for remove_evidence_from_list.       *)
NewPool ==
  LET p == [pending |-> disk.pending, committed |-> disk.committed, list |-> <<>>, size |-> 0, corrected |-> corrected]
      b == BeforeExpired(p, height)
  IN /\ mode = "down"
     /\ mode' = IF b.map = {} THEN "up" ELSE "failed"
     /\ SetPool([p EXCEPT !.list = InKeyOrder(p.pending), !.size = Cardinality(p.pending)])
     /\ pruning' = [height |-> b.height, time |-> b.time]
     /\ buffer' = <<>>
     /\ UNCHANGED <<height, disk, blocks, reports, stops>>

Init ==
  /\ height = 1
  /\ pending = {} /\ committed = {} /\ ev_list = <<>> /\ size = 0
  /\ buffer = <<>>
  /\ pruning = [height |-> 1, time |-> BlockTime(1)]
  /\ disk = [pending |-> {}, committed |-> {}]
  /\ blocks = <<>> /\ corrected = {}
  /\ reports = 0 /\ stops = 0
  /\ mode = "up"

EvidenceLists == UNION {[1..n -> Evidence] : n \in 0..MaxPerBlock}

Next ==
  \/ \E ev \in Evidence : AddEvidence(ev)
  \/ \E h \in EvHeights : ReportConflictingVotes(h)
  \/ \E evs \in EvidenceLists : RefuseBlock(evs) \/ ApplyBlock(evs)
  \/ Stop \/ Kill \/ NewPool

Spec == Init /\ [][Next]_vars

-----------------------------------------------------------------------------
TypeOK ==
  /\ pending \subseteq Evidence /\ committed \subseteq Evidence
  /\ ToSet(ev_list) \subseteq Evidence
  /\ size \in 0..(Width - 1)
  /\ height \in 1..MaxEvHeight /\ Len(blocks) = height - 1
  /\ mode \in {"up", "down", "failed"}

(* No piece of evidence is pending and committed at once, whichever of     *)
(* gossip, proposed blocks, applied blocks and reported votes brings it    *)
(* and in whatever order, unless it came a second time with wrong facts    *)
(* that verify set right (evidence_pool.cpp:11-31).                        *)
NotPendingOnceCommitted == pending \cap committed \subseteq corrected

(* What is gossiped is pending: evidence leaves ev_list when it is         *)
(* committed or pruned (evidence_pool.h:199-207).                          *)
GossipsWhatIsPending == mode = "up" => ToSet(ev_list) \subseteq pending

(* No evidence that does not verify gets into a block, and none gets into  *)
(* two, unless the process was killed in between or the evidence was once  *)
(* more made pending by verify (evidence_pool.h:119-142).                  *)
CommittedIfVerified ==
  /\ \A i \in DOMAIN blocks : \A ev \in blocks[i] : ~ev.forged /\ ev.time = BlockTime(ev.height)
  /\ stops = 0 => \A i, j \in DOMAIN blocks : i # j => blocks[i] \cap blocks[j] \subseteq corrected
==============================================================================
