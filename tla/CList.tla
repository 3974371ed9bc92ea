-------------------------------- MODULE CList --------------------------------
(***************************************************************************)
(* CList and CElement (clist.h): the linked list that the evidence pool    *)
(* and the mempool gossip from.  One thread at a time changes it, under    *)
(* the list's lock; a gossip routine walks it taking only the lock of the  *)
(* element it is at, and sleeps on a channel that is closed when there is  *)
(* more.  A channel is <<owner, direction, generation>>: make_chan gives   *)
(* its owner the next generation.                                          *)
(***************************************************************************)
EXTENDS Integers, FiniteSets

CONSTANTS Elems, Null, ListMaxLen

VARIABLES head, tail, len,
          link,      \* link["prev"][e] and link["next"][e]
          removed,   \* the elements with removed_
          fresh,     \* the elements not pushed yet
          gen,       \* the generation of the channel of each owner
          closed,    \* the channels that are closed
          thrown,    \* a closed channel was closed
          mutator,   \* what the thread with the lock has left to do
          at,        \* the element the routine is at
          asleep,    \* the channel it sleeps on
          seen       \* what it has seen (history)

listVars == <<head, tail, len, link, removed, fresh, gen, closed, thrown, mutator>>
clistVars == <<head, tail, len, link, removed, fresh, gen, closed, thrown, mutator, at, asleep, seen>>

(* The channel of the list belongs to no element.                          *)
List == Null
Dirs == {"prev", "next"}
Idle == [op |-> "idle", e |-> Null]

Chan(owner, dir) == <<owner, dir, gen[owner][dir]>>

Links == [link |-> link, gen |-> gen, closed |-> closed, thrown |-> thrown]

Close(l, owner, dir) ==
  LET ch == <<owner, dir, l.gen[owner][dir]>>
  IN [l EXCEPT !.closed = @ \cup {ch}, !.thrown = @ \/ ch \in l.closed]

(* set_prev and set_next *)
SetLink(l, dir, e, to) ==
  LET old == l.link[dir][e]
      k == [l EXCEPT !.link[dir][e] = to]
  IN IF old # Null /\ to = Null THEN [k EXCEPT !.gen[e][dir] = @ + 1]
     ELSE IF old = Null /\ to # Null THEN Close(k, e, dir)
     ELSE k

(* Variant: a removed element does not wake who waits for the next one.    *)
SetRemovedQuietly(l, e) == IF l.link["prev"][e] = Null THEN Close(l, e, "prev") ELSE l

(* set_removed *)
SetRemoved(l, e) ==
  LET p == IF l.link["prev"][e] = Null THEN Close(l, e, "prev") ELSE l
  IN IF p.link["next"][e] = Null THEN Close(p, e, "next") ELSE p

SetLinks(l) ==
  /\ link' = l.link
  /\ gen' = l.gen
  /\ closed' = l.closed
  /\ thrown' = l.thrown

-----------------------------------------------------------------------------

(* push_back.  No reader tells its steps apart.  The list's channel is     *)
(* closed before the length is looked at.                                  *)
PushBack(e) ==
  LET l == IF len = 0 THEN Close(Links, List, "next") ELSE Links
  IN /\ mutator = Idle /\ e \in fresh
     /\ IF len >= ListMaxLen
        THEN SetLinks(l) /\ UNCHANGED <<head, tail, len, fresh>>
        ELSE /\ len' = len + 1
             /\ fresh' = fresh \ {e}
             /\ head' = IF tail = Null THEN e ELSE head
             /\ tail' = e
             /\ SetLinks(IF tail = Null THEN l ELSE SetLink(SetLink(l, "prev", e, tail), "next", tail, e))
     /\ UNCHANGED <<removed, mutator, at, asleep, seen>>

(* remove, up to the end of the first link.  Its callers pass an element   *)
(* that is in the list.                                                    *)
Remove(e) ==
  LET l == IF len = 1 THEN [Links EXCEPT !.gen[List]["next"] = @ + 1] ELSE Links
      prev == link["prev"][e]
      next == link["next"][e]
  IN /\ mutator = Idle /\ e \in Elems \ (fresh \cup removed)
     /\ len' = len - 1
     /\ head' = IF prev = Null THEN next ELSE head
     /\ SetLinks(IF prev = Null THEN l ELSE SetLink(l, "next", prev, next))
     /\ mutator' = [op |-> "relink", e |-> e]
     /\ UNCHANGED <<tail, removed, fresh, at, asleep, seen>>

(* remove, the second link *)
Relink ==
  LET e == mutator.e
      prev == link["prev"][e]
      next == link["next"][e]
  IN /\ mutator.op = "relink"
     /\ tail' = IF next = Null THEN prev ELSE tail
     /\ SetLinks(IF next = Null THEN Links ELSE SetLink(Links, "prev", next, prev))
     /\ mutator' = [op |-> "set_removed", e |-> e]
     /\ UNCHANGED <<head, len, removed, fresh, at, asleep, seen>>

(* remove, the end: set_removed and the unlock *)
EndRemove ==
  /\ mutator.op = "set_removed"
  /\ removed' = removed \cup {mutator.e}
  /\ SetLinks(SetRemoved(Links, mutator.e))
  /\ mutator' = [op |-> "detach", e |-> mutator.e]
  /\ UNCHANGED <<head, tail, len, fresh, at, asleep, seen>>

(* detach_prev, which both callers of remove call next *)
Detach ==
  /\ mutator.op = "detach"
  /\ link' = [link EXCEPT !["prev"][mutator.e] = Null]
  /\ mutator' = Idle
  /\ UNCHANGED <<head, tail, len, removed, fresh, gen, closed, thrown, at, asleep, seen>>

-----------------------------------------------------------------------------
NoChan == <<>>

ListLocked == mutator.op \in {"relink", "set_removed"}

(* wait_chan and next_wait_chan: the routine takes the channel of where it *)
(* is, and sleeps on it.                                                   *)
Wait ==
  /\ asleep = NoChan
  /\ at = Null => ~ListLocked
  /\ asleep' = Chan(at, "next")
  /\ UNCHANGED listVars /\ UNCHANGED <<at, seen>>

(* The channel is closed: front or next, which may be null by now.         *)
Wake ==
  LET to == IF at = Null THEN head ELSE link["next"][at]
  IN /\ asleep # NoChan /\ asleep \in closed
     /\ at = Null => ~ListLocked
     /\ at' = to
     /\ seen' = seen \cup ({to} \ {Null})
     /\ asleep' = NoChan
     /\ UNCHANGED listVars

(* The timer of the routine, while there is no more: it starts over from   *)
(* the front.                                                              *)
StartOver ==
  /\ asleep # NoChan /\ asleep \notin closed /\ at # Null
  /\ at' = Null
  /\ asleep' = NoChan
  /\ UNCHANGED listVars /\ UNCHANGED seen

ListInit ==
  /\ head = Null /\ tail = Null /\ len = 0
  /\ link = [d \in Dirs |-> [e \in Elems |-> Null]]
  /\ removed = {} /\ fresh = Elems
  /\ gen = [o \in Elems \cup {List} |-> [d \in Dirs |-> 0]]
  /\ closed = {} /\ thrown = FALSE
  /\ mutator = Idle
  /\ at = Null /\ asleep = NoChan /\ seen = {}

Mutate == \E e \in Elems : PushBack(e) \/ Remove(e)
EndMutate == Relink \/ EndRemove \/ Detach
Read == Wait \/ Wake

ListNext == Mutate \/ EndMutate \/ Read \/ StartOver

(* A thread in remove goes on, and so does the routine; nobody has to      *)
(* push, to remove or to start over.                                       *)
ListFairness == WF_clistVars(EndMutate) /\ WF_clistVars(Read)

ListSpec == ListInit /\ [][ListNext]_clistVars /\ ListFairness

-----------------------------------------------------------------------------
LiveElems == Elems \ (fresh \cup removed)

ListTypeOK ==
  /\ head \in Elems \cup {Null} /\ tail \in Elems \cup {Null}
  /\ len \in 0..ListMaxLen
  /\ link \in [Dirs -> [Elems -> Elems \cup {Null}]]
  /\ at \in Elems \cup {Null} /\ seen \subseteq Elems
  /\ mutator.op \in {"idle", "relink", "set_removed", "detach"}

(* No channel is closed twice, which would throw in the middle of a        *)
(* change: whoever pushes or removes, and however often an element becomes *)
(* the last one again (clist.h:129-202, chan.h:33-38).                     *)
NeverClosedTwice == ~thrown

(* Between two changes, the channel of an element in the list is closed    *)
(* exactly when there is a next one, and that of the list exactly when it  *)
(* has an element: a routine sleeps when and only when it has to           *)
(* (clist.h:129-142, 268-331).                                             *)
ClosedWhenThereIsMore ==
  mutator = Idle =>
    /\ \A e \in LiveElems : Chan(e, "next") \in closed <=> link["next"][e] # Null
    /\ \A e \in LiveElems : Chan(e, "prev") \in closed <=> link["prev"][e] # Null
    /\ Chan(List, "next") \in closed <=> head # Null

(* An element that stays in the list is seen by the routine, wherever it   *)
(* was when the element was pushed and whatever is removed around it       *)
(* (clist.h:56-70, reactor.cpp:63-143).                                    *)
SeenUnlessRemoved == \A e \in Elems : e \in LiveElems ~> e \in seen \cup removed
=============================================================================
