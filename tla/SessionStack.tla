----------------------------- MODULE SessionStack -----------------------------
(***************************************************************************)
(* db::session::undo_stack (db/undo_stack.h): a deque of sessions over a   *)
(* head store, each the child of the one below.  A session is the changes  *)
(* it holds (HoldsItsChanges of Session): a function from keys to a value, *)
(* Deleted, or Unset for a key it does not change.                         *)
(***************************************************************************)
EXTENDS Integers, Sequences, SequencesExt

CONSTANTS StackKeys, StackValues, Deleted, Unset, MaxSessions, MaxRevision

VARIABLES head,          \* the contents of the head store
          sessions,      \* m_sessions, the bottom first
          revision,      \* m_revision
          file,          \* undo_stack.dat, or <<>> when there is none
          open,          \* the process runs
          snapshots      \* the contents at the bottom and at every push (history)

vars == <<head, sessions, revision, file, open, snapshots>>

NoChanges == [k \in StackKeys |-> Unset]

Contents == [StackKeys -> StackValues \cup {Deleted}]

Init ==
  /\ head = [k \in StackKeys |-> Deleted]
  /\ sessions = <<>>
  /\ revision = 0
  /\ file = <<>>
  /\ open = TRUE
  /\ snapshots = <<>>

(* The changes of a session laid over what is below.                       *)
Over(below, changes) == [k \in StackKeys |-> IF changes[k] = Unset THEN below[k] ELSE changes[k]]

(* What a read through the session at position i gives.                    *)
Seen(i) == FoldLeft(Over, head, SubSeq(sessions, 1, i))

(* A write or an erase through top().                                      *)
Change(k, v) ==
  /\ open
  /\ IF sessions = <<>> THEN head' = [head EXCEPT ![k] = v] /\ UNCHANGED sessions
     ELSE sessions' = [sessions EXCEPT ![Len(sessions)][k] = v] /\ UNCHANGED head
  /\ UNCHANGED <<revision, file, open, snapshots>>

Push ==
  /\ open /\ Len(sessions) < MaxSessions /\ revision < MaxRevision
  /\ sessions' = Append(sessions, NoChanges)
  /\ revision' = revision + 1
  /\ snapshots' = Append(snapshots, [revision |-> revision', contents |-> Seen(Len(sessions))])
  /\ UNCHANGED <<head, file, open>>

(* squash: the top session is committed into the one below.                *)
Squash ==
  /\ open /\ sessions # <<>>
  /\ LET n == Len(sessions)
     IN IF n = 1 THEN head' = Over(head, sessions[1]) /\ sessions' = <<>>
        ELSE /\ sessions' = [Front(sessions) EXCEPT ![n - 1] = Over(sessions[n - 1], sessions[n])]
             /\ UNCHANGED head
  /\ revision' = revision - 1
  /\ snapshots' = Front(snapshots)
  /\ UNCHANGED <<file, open>>

Undo ==
  /\ open /\ sessions # <<>>
  /\ sessions' = Front(sessions)
  /\ revision' = revision - 1
  /\ snapshots' = Front(snapshots)
  /\ UNCHANGED <<head, file, open>>

Least(a, b) == IF a < b THEN a ELSE b

(* start_index + 1: how many sessions are committed.                       *)
CommittedCount(rev) == Least(rev, revision) - (revision - Len(sessions) + 1) + 1

(* commit: the sessions up to the revision go, the highest first, each     *)
(* into the one below, and the one above is attached to the head.          *)
Commit(rev) ==
  /\ open /\ sessions # <<>>
  /\ LET n == CommittedCount(rev)
         into == FoldRight(LAMBDA s, above : Over(s, above), SubSeq(sessions, 1, n), NoChanges)
     IN /\ n > 0
        /\ head' = Over(head, into)
        /\ sessions' = SubSeq(sessions, n + 1, Len(sessions))
  /\ snapshots' = SelectSeq(snapshots, LAMBDA s : s.revision > rev)
  /\ UNCHANGED <<revision, file, open>>

(* revision(int64_t) *)
SetRevision(rev) ==
  /\ open /\ sessions = <<>> /\ rev > revision
  /\ revision' = rev
  /\ UNCHANGED <<head, sessions, file, open, snapshots>>

(* close, when the process ends: the keys a session has updated with their *)
(* values, and those it has deleted.                                       *)
Close ==
  /\ open
  /\ file' = <<[revision |-> revision,
                sessions |-> [i \in DOMAIN sessions |->
                                [updated |-> {<<k, sessions[i][k]>> : k \in {x \in StackKeys : sessions[i][x] \in StackValues}},
                                 deleted |-> {k \in StackKeys : sessions[i][k] = Deleted}]]]>>
  /\ open' = FALSE
  /\ sessions' = <<>>
  /\ revision' = 0
  /\ UNCHANGED <<head, snapshots>>

ReadBack(saved) ==
  [k \in StackKeys |-> IF k \in saved.deleted THEN Deleted
                       ELSE IF \E v \in StackValues : <<k, v>> \in saved.updated
                       THEN CHOOSE v \in StackValues : <<k, v>> \in saved.updated
                       ELSE Unset]

(* open, when the process starts again: the file is read and removed.      *)
Open ==
  /\ ~open
  /\ sessions' = [i \in DOMAIN file[1].sessions |-> ReadBack(file[1].sessions[i])]
  /\ revision' = file[1].revision
  /\ file' = <<>>
  /\ open' = TRUE
  /\ UNCHANGED <<head, snapshots>>

Next ==
  \/ \E k \in StackKeys, v \in StackValues \cup {Deleted} : Change(k, v)
  \/ Push \/ Squash \/ Undo
  \/ \E rev \in 0..MaxRevision : Commit(rev) \/ SetRevision(rev)
  \/ Close \/ Open

Spec == Init /\ [][Next]_vars

-----------------------------------------------------------------------------
TypeOK ==
  /\ head \in Contents
  /\ Len(sessions) <= MaxSessions
  /\ \A i \in DOMAIN sessions : sessions[i] \in [StackKeys -> StackValues \cup {Deleted, Unset}]
  /\ revision \in 0..MaxRevision

==============================================================================
