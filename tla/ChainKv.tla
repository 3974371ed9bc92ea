------------------------------- MODULE ChainKv -------------------------------
(***************************************************************************)
(* db/chain_kv.h: the write_session (a cache of the keys that were read or *)
(* written), the undo_stack under it and the views and iterators over it.  *)
(***************************************************************************)
EXTENDS Integers, Sequences, FiniteSets, FiniteSetsExt, SequencesExt

CONSTANTS Absent,        \* a null pointer, and the value of a missing key
          KvKeys, KvValues,
          SegmentSize,   \* changes in a segment, target_segment_size
          MaxPushes, MaxSegments, MaxErases,
          Low, High,     \* the first and the last key of the view
          EndOfView

VARIABLES db,            \* the contents of RocksDB
          cache,         \* the write_session
          segments,      \* the undo segments, by number
          state,         \* undo_state in memory
          disk,          \* undo_state in RocksDB
          pushed,        \* the contents at every push (history)
          on_disk,       \* the same, for the undo_state in RocksDB (history)
          it,            \* an iterator: cache_it, rocks_it and cache_it_num_erases
          moved          \* its last move, and where it went

undoVars == <<segments, state, disk, pushed, on_disk>>
viewVars == <<it, moved>>

-----------------------------------------------------------------------------
(* write_session.  A cached_value is a record of orig_value,               *)
(* current_value, num_erases and in_change_list.                           *)
EmptyCache == [k \in {} |-> 0]

Cached(orig, current, erases, listed) ==
  [orig |-> orig, current |-> current, erases |-> erases, listed |-> listed]

Insert(c, k, entry) == [x \in DOMAIN c \cup {k} |-> IF x = k THEN entry ELSE c[x]]

(* get *)
Get(c, k) ==
  IF k \in DOMAIN c \/ db[k] = Absent THEN c ELSE Insert(c, k, Cached(db[k], db[k], 0, FALSE))

GetValue(c, k) == IF k \in DOMAIN c THEN c[k].current ELSE db[k]

(* set: a value that is the one there already is no change.                *)
Set(c, k, v) ==
  IF k \in DOMAIN c
  THEN IF c[k].current = v THEN c ELSE [c EXCEPT ![k].current = v, ![k].listed = TRUE]
  ELSE Insert(c, k, Cached(db[k], v, 0, db[k] # v))

(* erase: num_erases tells the iterators at the key.                       *)
Erase(c, k) ==
  IF k \in DOMAIN c
  THEN IF c[k].current = Absent THEN c
       ELSE [c EXCEPT ![k].current = Absent, ![k].erases = @ + 1, ![k].listed = TRUE]
  ELSE IF db[k] = Absent THEN Insert(c, k, Cached(Absent, Absent, 0, FALSE))
  ELSE Insert(c, k, Cached(db[k], Absent, 1, TRUE))

(* fill_cache *)
FillCache(c, k) == IF k \in DOMAIN c THEN c ELSE Insert(c, k, Cached(db[k], db[k], 0, FALSE))

(* The contents as seen through the session.                               *)
Overlay(c) == [k \in DOMAIN db |-> GetValue(c, k)]

(* The keys in the change list that write_changes writes.                  *)
Changes(c) == {k \in DOMAIN c : c[k].listed /\ c[k].orig # c[k].current}

-----------------------------------------------------------------------------
(* undo_stack: the old values of what a write_session changes are kept in  *)
(* undo segments in RocksDB, and the undo_state tells how many segments    *)
(* each revision has.  The undo_state is in memory and is written to       *)
(* RocksDB in the same batch as the changes; callers may leave out the     *)
(* write of a step that changes nothing else (write_now).                  *)
EmptyState == [revision |-> 0, stack |-> <<>>, next |-> 0]

(* The keys that database's constructor puts around all others.            *)
Sentinels == {Min(KvKeys), Max(KvKeys)}

NoIterator == [at |-> EndOfView, rocks |-> EndOfView, erases |-> 0]
Unmoved == [op |-> "none", from |-> EndOfView, to |-> EndOfView]

Init ==
  /\ db \in {d \in [KvKeys -> KvValues \cup {Absent}] : \A k \in Sentinels : d[k] # Absent}
  /\ cache = EmptyCache
  /\ segments = [n \in {} |-> 0]
  /\ state = EmptyState
  /\ disk = EmptyState
  /\ pushed = <<>>
  /\ on_disk = <<>>
  /\ it = NoIterator
  /\ moved = Unmoved

(* The calls of write_session.                                             *)
Session(c) == cache' = c /\ moved' = Unmoved /\ UNCHANGED <<db, undoVars, it>>

ReadKey(k) == Session(Get(cache, k))
SetKey(k, v) == Session(Set(cache, k, v))
EraseKey(k) == Session(Erase(cache, k)) /\ cache'[k].erases <= MaxErases

(* write_state *)
WriteState(now) ==
  IF now THEN disk' = state' /\ on_disk' = pushed' ELSE UNCHANGED <<disk, on_disk>>

Push(now) ==
  /\ state.revision < MaxPushes
  /\ state' = [state EXCEPT !.stack = Append(@, 0), !.revision = @ + 1]
  /\ pushed' = Append(pushed, db)
  /\ WriteState(now)
  /\ UNCHANGED <<db, segments, cache, viewVars>>

(* squash: the two top revisions become one, and the last one is forgotten.*)
Squash(now) ==
  LET n == Len(state.stack)
  IN /\ n > 0
     /\ pushed' = Front(pushed)
     /\ IF n = 1
        THEN /\ segments' = Restrict(segments, {i \in DOMAIN segments : i >= state.next})
             /\ state' = [state EXCEPT !.stack = <<>>, !.revision = @ - 1]
             /\ WriteState(TRUE)
        ELSE /\ state' = [state EXCEPT !.stack = [Front(@) EXCEPT ![n - 1] = @ + state.stack[n]], !.revision = @ - 1]
             /\ UNCHANGED segments
             /\ WriteState(now)
     /\ UNCHANGED <<db, cache, viewVars>>

(* The old values in a segment.                                            *)
OldValues(contents, segment) ==
  [k \in KvKeys |-> IF \E c \in segment : c.key = k THEN (CHOOSE c \in segment : c.key = k).old ELSE contents[k]]


(* undo: the contents after the segments from the last one down to from.   *)
Undone(contents, from) ==
  LET ids == SetToSortSeq({n \in DOMAIN segments : n >= from}, >)
  IN FoldLeft(LAMBDA c, n : OldValues(c, segments[n]), contents, ids)

Undo(now) ==
  LET n == Len(state.stack)
      from == state.next - state.stack[n]
  IN /\ n > 0 /\ cache = EmptyCache
     /\ db' = Undone(db, from)
     /\ segments' = Restrict(segments, {i \in DOMAIN segments : i < from})
     /\ state' = [state EXCEPT !.stack = Front(@), !.revision = @ - 1, !.next = from]
     /\ pushed' = Front(pushed)
     /\ WriteState(now \/ segments' # segments)
     /\ UNCHANGED <<cache, viewVars>>

Least(a, b) == IF a < b THEN a ELSE b

SumOf(s) == FoldLeft(LAMBDA a, b : a + b, 0, s)

(* keep_undo_segment *)
KeptFrom(stack) == state.next - SumOf(stack)

(* commit: the revisions before rev are forgotten.                         *)
Commit(rev) ==
  LET first == state.revision - Len(state.stack)
      drop == Least(rev, state.revision) - first
      kept == SubSeq(state.stack, drop + 1, Len(state.stack))
  IN /\ drop > 0
     /\ state' = [state EXCEPT !.stack = kept]
     /\ segments' = Restrict(segments, {i \in DOMAIN segments : i >= KeptFrom(kept)})
     /\ pushed' = SubSeq(pushed, drop + 1, Len(pushed))
     /\ WriteState(TRUE)
     /\ UNCHANGED <<db, cache, viewVars>>

SetRevision(rev, now) ==
  /\ state.stack = <<>> /\ rev > state.revision
  /\ state' = [state EXCEPT !.revision = rev]
  /\ UNCHANGED pushed
  /\ WriteState(now)
  /\ UNCHANGED <<db, segments, cache, viewVars>>

(* The changes in segments of SegmentSize, the change list in some order.  *)
Segments(order) ==
  LET count == (Len(order) + SegmentSize - 1) \div SegmentSize
  IN [i \in 1..count |->
        {[key |-> order[j], old |-> cache[order[j]].orig] :
           j \in {x \in DOMAIN order : (x - 1) \div SegmentSize = i - 1}}]

(* write_changes, and the cache is wiped.  Without a revision to go back   *)
(* to there is no undo segment.                                            *)
WriteChanges ==
  LET order == SetToSortSeq(Changes(cache), <)
      new == IF state.stack = <<>> THEN <<>> ELSE Segments(order)
      n == Len(state.stack)
  IN /\ state.next + Len(new) <= MaxSegments
     /\ db' = Overlay(cache)
     /\ segments' = [i \in DOMAIN segments \cup (state.next .. state.next + Len(new) - 1) |->
                       IF i \in DOMAIN segments THEN segments[i] ELSE new[i - state.next + 1]]
     /\ state' = IF n = 0 THEN state
                 ELSE [state EXCEPT !.stack[n] = @ + Len(new), !.next = @ + Len(new)]
     /\ cache' = EmptyCache
     /\ UNCHANGED <<pushed, viewVars>>
     /\ WriteState(TRUE)

(* The session is dropped without a write.                                 *)
WipeCache ==
  /\ cache # EmptyCache
  /\ cache' = EmptyCache
  /\ UNCHANGED <<db, undoVars, viewVars>>

(* The process ends, and undo_stack is constructed again.                  *)
Reopen ==
  /\ state' = disk
  /\ pushed' = on_disk
  /\ cache' = EmptyCache
  /\ UNCHANGED <<db, segments, disk, on_disk, viewVars>>

UndoNext ==
  \/ \E k \in KvKeys \ Sentinels : ReadKey(k) \/ EraseKey(k) \/ \E v \in KvValues : SetKey(k, v)
  \/ \E now \in BOOLEAN : Push(now) \/ Squash(now) \/ Undo(now)
  \/ \E rev \in 1..MaxPushes : Commit(rev) \/ \E now \in BOOLEAN : SetRevision(rev, now)
  \/ WriteChanges \/ WipeCache \/ Reopen

-----------------------------------------------------------------------------
UndoTypeOK ==
  /\ db \in [KvKeys -> KvValues \cup {Absent}]
  /\ state.revision \in 0..MaxPushes /\ Len(state.stack) <= state.revision
  /\ DOMAIN segments \subseteq 0..MaxSegments /\ DOMAIN cache \subseteq KvKeys

(* The contents that the undo_state st leads back to, i revisions down     *)
(* from the top being left.                                                *)
BackTo(st, i) == Undone(db, st.next - SumOf(SubSeq(st.stack, i, Len(st.stack))))


(* Every undo segment in RocksDB belongs to a revision that can be undone, *)
(* and is numbered below the next one: a segment that is left behind would *)
(* be undone with another revision (chain_kv.h:531-589).                   *)
SegmentsAreOwned ==
  DOMAIN segments = (state.next - SumOf(state.stack)) .. (state.next - 1)

-----------------------------------------------------------------------------
(* view and its iterator over the write_session.  An iterator walks two    *)
(* things at once: cache_it through the cache, and rocks_it through        *)
(* RocksDB, whose keys it puts into the cache as it meets them.  Keys are  *)
(* numbers; the first and the last of KvKeys are the sentinels 0x00 and    *)
(* 0xff, and the view has those from Low to High.                          *)
NextPrefix == High + 1

Stored == {k \in KvKeys : db[k] # Absent}

(* rocksdb::Iterator: Seek, Next and Prev, which the sentinels keep valid. *)
Seek(k) == Min({x \in Stored : x >= k})
After(k) == Min({x \in Stored : x > k})
Before(k) == Max({x \in Stored : x < k})

(* iterator_impl's constructor: the keys around the view go to the cache.  *)
NewIterator ==
  /\ cache' = FillCache(FillCache(FillCache(cache, Seek(Low)), Before(Seek(Low))), Seek(NextPrefix))
  /\ it' = [at |-> EndOfView, rocks |-> Seek(NextPrefix), erases |-> 0]
  /\ moved' = Unmoved
  /\ UNCHANGED <<db, undoVars>>

FirstFrom(c, k) == Min({x \in DOMAIN c : x >= k})
Following(c, k) == Min({x \in DOMAIN c : x > k})
Preceding(c, k) == Max({x \in DOMAIN c : x < k})

RECURSIVE FillUp(_, _, _), FillDown(_, _, _), Up(_, _, _), Down(_, _, _)

(* The inner loop: RocksDB is read until it is past the key.               *)
Behind(rocks, k) == rocks <= k

FillUp(c, rocks, k) ==
  IF ~Behind(rocks, k) THEN [cache |-> c, rocks |-> rocks]
  ELSE FillUp(FillCache(c, After(rocks)), After(rocks), k)

FillDown(c, rocks, k) ==
  IF rocks < k THEN [cache |-> c, rocks |-> rocks]
  ELSE FillDown(FillCache(c, Before(rocks)), Before(rocks), k)

(* The outer loop: over the keys that are erased in the cache.             *)
Up(c, rocks, k) ==
  LET f == FillUp(c, rocks, k)
      n == Following(f.cache, k)
  IN IF f.cache[n].current # Absent THEN [cache |-> f.cache, rocks |-> f.rocks, at |-> n]
     ELSE Up(f.cache, f.rocks, n)

Down(c, rocks, k) ==
  LET f == FillDown(c, rocks, k)
      n == Preceding(f.cache, k)
  IN IF f.cache[n].current # Absent THEN [cache |-> f.cache, rocks |-> f.rocks, at |-> n]
     ELSE Down(f.cache, f.rocks, n)

(* The end of a move: a key that is not inside the view is the end.        *)
Arrive(op, from, m, inside) ==
  LET at == IF inside THEN m.at ELSE EndOfView
  IN /\ cache' = m.cache
     /\ it' = [at |-> at, rocks |-> m.rocks, erases |-> IF inside THEN m.cache[at].erases ELSE it.erases]
     /\ moved' = [op |-> op, from |-> from, to |-> at]

Erased == it.at # EndOfView /\ it.erases # cache[it.at].erases

Made == it.rocks # EndOfView

(* lower_bound_full_key; move_to_begin is that of the view's first key.    *)
LowerBoundFullKey(op, k) ==
  LET rocks == Seek(k)
      c == FillCache(cache, rocks)
      at == FirstFrom(c, k)
      m == IF c[at].current # Absent THEN [cache |-> c, rocks |-> rocks, at |-> at] ELSE Up(c, rocks, at)
  IN /\ Arrive(op, k, m, m.at < NextPrefix)
     /\ UNCHANGED <<db, undoVars>>

(* lower_bound: from the view's first key if the one given is below it.    *)
LowerBound(k) == Made /\ LowerBoundFullKey("lower_bound", IF k < Low THEN Low ELSE k)

MoveToBegin == Made /\ LowerBoundFullKey("begin", Low)

(* operator++; at an erased key it throws.                                 *)
Increment ==
  LET m == Up(cache, it.rocks, it.at)
  IN /\ Made /\ ~Erased
     /\ IF it.at = EndOfView THEN LowerBoundFullKey("begin", Low)
        ELSE Arrive("next", it.at, m, m.at < NextPrefix)
     /\ UNCHANGED <<db, undoVars>>

(* operator-- *)
Decrement ==
  LET rocks == Seek(NextPrefix)
      c == FillCache(cache, rocks)
      m == IF it.at = EndOfView THEN Down(c, rocks, FirstFrom(c, NextPrefix)) ELSE Down(cache, it.rocks, it.at)
  IN /\ Made /\ ~Erased
     /\ Arrive("previous", it.at, m, m.at >= Low)
     /\ UNCHANGED <<db, undoVars>>

(* move_to_end *)
MoveToEnd ==
  /\ Made
  /\ it' = [it EXCEPT !.at = EndOfView]
  /\ moved' = Unmoved
  /\ UNCHANGED <<db, cache, undoVars>>

ViewNext ==
  \/ NewIterator \/ MoveToBegin \/ MoveToEnd \/ Increment \/ Decrement
  \/ \E k \in KvKeys \ Sentinels :
       LowerBound(k) \/ ReadKey(k) \/ EraseKey(k) \/ \E v \in KvValues : SetKey(k, v)

-----------------------------------------------------------------------------
ViewTypeOK ==
  /\ DOMAIN cache \subseteq KvKeys /\ Stored \subseteq KvKeys
  /\ it.at \in (Low..High) \cup {EndOfView}
  /\ it.rocks \in Stored \cup {EndOfView}
  /\ it.at # EndOfView => it.at \in DOMAIN cache

(* The keys of the view as the session sees them.                          *)
Visible == {k \in Low..High : GetValue(cache, k) # Absent}

FirstOf(S) == IF S = {} THEN EndOfView ELSE Min(S)
LastOf(S) == IF S = {} THEN EndOfView ELSE Max(S)

(* Every move of an iterator goes to the key that the contents of the view *)
(* call for, though keys in and around the view are set and erased while   *)
(* it stands somewhere and rocks_it lags behind or is ahead                *)
(* (chain_kv.h:871-956).                                                   *)
IteratesInOrder ==
  /\ moved.op \in {"lower_bound", "begin"} => moved.to = FirstOf({k \in Visible : k >= moved.from})
  /\ moved.op = "next" => moved.to = FirstOf({k \in Visible : k > moved.from})
  /\ moved.op = "previous" => moved.to = LastOf({k \in Visible : moved.from = EndOfView \/ k < moved.from})

(* A key the iterator stands at and does not know to be erased has a       *)
(* value, which get_kv dereferences (chain_kv.h:891-899).                  *)
ValidHasValue == it.at # EndOfView /\ ~Erased => cache[it.at].current # Absent
==============================================================================
