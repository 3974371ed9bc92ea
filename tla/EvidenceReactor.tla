--------------------------- MODULE EvidenceReactor ---------------------------
(***************************************************************************)
(* The evidence reactor (ev/reactor.h, ev/reactor.cpp): one gossip routine *)
(* per peer, started when the peer comes up and told to end through its    *)
(* closer channel when the peer goes down, and on_stop, which waits for    *)
(* all of them through a WaitGroup (eo/sync/waitgroup.h).                  *)
(*                                                                         *)
(* Peer updates and on_stop run on the main thread, the routines on a pool *)
(* of their own.  The routine has no case in which it sends: the case of a *)
(* list with evidence falls through to co_return (reactor.cpp:90-95).      *)
(***************************************************************************)
EXTENDS Integers, FiniteSets

CONSTANTS Peers,
          MaxUpdates             \* bound: peer updates

VARIABLES routines,              \* peer_routines: the peers with an entry
          closed,                \* the peers whose closer is closed
          at,                    \* peer -> where its routine is
          evidence,              \* whether the evidence list holds anything
          count,                 \* peer_wg.state
          notifying,             \* number of routines that left and have yet to notify
          main,                  \* where the main thread is
          missed,                \* history: a notification came before the sleep
          updates                \* number of peer updates

reactorVars == <<routines, closed, at, evidence, count, notifying, main, missed, updates>>

ReactorInit ==
  /\ routines = {}
  /\ closed = {}
  /\ at = [p \in Peers |-> "none"]
  /\ evidence = FALSE
  /\ count = 0
  /\ notifying = 0
  /\ main = "runs"
  /\ missed = FALSE
  /\ updates = 0

Update ==
  /\ main = "runs"
  /\ updates < MaxUpdates
  /\ updates' = updates + 1

(* process_peer_update, up: a peer whose old routine has not ended keeps   *)
(* it, and its closed closer with it.                                      *)
PeerUp(p) ==
  /\ Update
  /\ p \notin routines
  /\ routines' = routines \cup {p}
  /\ closed' = closed \ {p}
  /\ at' = [at EXCEPT ![p] = "waits"]
  /\ count' = count + 1
  /\ UNCHANGED <<evidence, notifying, main, missed>>

PeerUpAgain(p) ==
  /\ Update
  /\ p \in routines
  /\ UNCHANGED <<routines, closed, at, evidence, count, notifying, main, missed>>

(* chan::close, of the closers of S: closing a closed one throws.          *)
Close(S) ==
  IF S \cap closed = {} THEN closed' = closed \cup S /\ UNCHANGED main
  ELSE main' = "thrown" /\ UNCHANGED closed

(* process_peer_update, down                                               *)
PeerDown(p) ==
  /\ Update
  /\ p \in routines
  /\ Close({p})
  /\ UNCHANGED <<routines, at, evidence, count, notifying, missed>>

(* The evidence pool fills and empties its list.                           *)
EvidenceChanges ==
  /\ main # "stopped"
  /\ evidence' = ~evidence
  /\ UNCHANGED <<routines, closed, at, count, notifying, main, missed, updates>>

-----------------------------------------------------------------------------
(* The wait at the head of the loop: for evidence or for the closer.       *)
WakesForEvidence(p) ==
  /\ at[p] = "waits"
  /\ evidence
  /\ at' = [at EXCEPT ![p] = "woken"]
  /\ UNCHANGED <<routines, closed, evidence, count, notifying, main, missed, updates>>

WakesForCloser(p) ==
  /\ at[p] = "waits"
  /\ p \in closed
  /\ at' = [at EXCEPT ![p] = "ends"]
  /\ UNCHANGED <<routines, closed, evidence, count, notifying, main, missed, updates>>

(* evidence_front: the list may be empty again.                            *)
TakesFront(p) ==
  /\ at[p] = "woken"
  /\ at' = [at EXCEPT ![p] = IF evidence THEN "ends" ELSE "waits"]
  /\ UNCHANGED <<routines, closed, evidence, count, notifying, main, missed, updates>>

(* The scope exit: the entry is erased and the counter goes down ...       *)
Leaves(p) ==
  /\ at[p] = "ends"
  /\ routines' = routines \ {p}
  /\ count' = count - 1
  /\ at' = [at EXCEPT ![p] = "none"]
  /\ notifying' = notifying + 1
  /\ UNCHANGED <<closed, evidence, main, missed, updates>>

(* Variant: done does not wake the waiter.                                 *)
NotifiesNobody ==
  /\ notifying > 0
  /\ notifying' = notifying - 1
  /\ UNCHANGED <<routines, closed, at, evidence, count, main, missed, updates>>

(* ... and the waiter is notified, without the waiter's lock.              *)
Notifies ==
  /\ notifying > 0
  /\ notifying' = notifying - 1
  /\ main' = IF main = "asleep" THEN "waits" ELSE main
  /\ missed' = (missed \/ main = "checked")
  /\ UNCHANGED <<routines, closed, at, evidence, count, updates>>

-----------------------------------------------------------------------------
(* on_stop, up to the wait: every closer is closed.                        *)
OnStop ==
  /\ main = "runs"
  /\ IF routines \cap closed = {} THEN closed' = closed \cup routines /\ main' = "waits"
     ELSE main' = "thrown" /\ UNCHANGED closed
  /\ UNCHANGED <<routines, at, evidence, count, notifying, missed, updates>>

(* WaitGroup::wait looks at the counter and, if it is not 0, goes to sleep. *)
WaitChecks ==
  /\ main = "waits"
  /\ main' = IF count = 0 THEN "stopped" ELSE "checked"
  /\ UNCHANGED <<routines, closed, at, evidence, count, notifying, missed, updates>>

WaitSleeps ==
  /\ main = "checked"
  /\ main' = "asleep"
  /\ UNCHANGED <<routines, closed, at, evidence, count, notifying, missed, updates>>

RoutineNext(p) ==
  WakesForEvidence(p) \/ WakesForCloser(p) \/ TakesFront(p) \/ Leaves(p)

ReactorNext ==
  \/ \E p \in Peers : PeerUp(p) \/ PeerUpAgain(p) \/ PeerDown(p) \/ RoutineNext(p)
  \/ Notifies
  \/ EvidenceChanges
  \/ OnStop
  \/ WaitChecks
  \/ WaitSleeps

(* The executor runs every routine that can go on, and of the two things a *)
(* routine waits for, one that stays ready is taken at last.               *)
ReactorFairness ==
  /\ \A p \in Peers : WF_reactorVars(RoutineNext(p)) /\ SF_reactorVars(WakesForCloser(p))
  /\ WF_reactorVars(Notifies)
  /\ WF_reactorVars(WaitChecks)
  /\ WF_reactorVars(WaitSleeps)

ReactorSpec == ReactorInit /\ [][ReactorNext]_reactorVars /\ ReactorFairness

-----------------------------------------------------------------------------
(* Closed routines end: once a peer's closer is closed (process_peer_update, *)
(* on_stop), its entry leaves peer_routines, however often the evidence    *)
(* list fills and empties meanwhile.                                       *)
ClosedRoutinesEnd == \A p \in Peers : (p \in closed /\ p \in routines) ~> (p \notin routines)

(* on_stop ends: it waits until every routine has left, and is woken, if   *)
(* no notification came between its check and its sleep (waitgroup.h:24-32 *)
(* notifies without the lock).                                             *)
StopEnds == (main = "waits") ~> (main = "stopped" \/ missed)

(* When on_stop has returned no routine is left to use the reactor.        *)
StoppedIsQuiet == main = "stopped" => \A p \in Peers : at[p] = "none" /\ p \notin routines
==============================================================================
