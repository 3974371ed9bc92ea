------------------------------- MODULE Session -------------------------------
(***************************************************************************)
(* db::session::session (db/session.h): an ordered cache of changes over a *)
(* parent, with an iterator that finds the next key by flags in the cache  *)
(* and asks the parent only where these do not tell.  The parent is an     *)
(* ordered map that does not change while it has a child, as db/README.md  *)
(* requires; keys are numbers, and End is the end iterator.                *)
(*                                                                         *)
(* A value_state of the cache is a record: next and prev (next_in_cache    *)
(* and previous_in_cache), deleted, updated, value.                        *)
(***************************************************************************)
EXTENDS Integers, FiniteSets, FiniteSetsExt

CONSTANTS Keys,          \* a set of numbers
          Values, None, MaxRounds

VARIABLES parent,        \* the contents of the parent
          cache,         \* m_cache
          it,            \* the position of an iterator, a key or End
          view,          \* what the session should hold (history)
          last,          \* the last call that returned, and what it returned
          rounds         \* how often the session was committed or undone

vars == <<parent, cache, it, view, last, rounds>>

End == 0

Smallest(S) == IF S = {} THEN End ELSE Min(S)
Largest(S) == IF S = {} THEN End ELSE Max(S)

Live(m) == {k \in DOMAIN m : m[k] # None}

ParentAfter(k) == Smallest({p \in Live(parent) : p > k})
ParentBefore(k) == Largest({p \in Live(parent) : p < k})

Entry(v) == [next |-> FALSE, prev |-> FALSE, deleted |-> FALSE, updated |-> FALSE, value |-> v]

(* m_cache.emplace(key, value_state{}), and the value of the parent.       *)
Emplace(c, k, v) == IF k \in DOMAIN c THEN c ELSE [x \in DOMAIN c \cup {k} |-> IF x = k THEN Entry(v) ELSE c[x]]

FromParent(c, k) == IF k = End THEN c ELSE Emplace(c, k, parent[k])

After(c, k) == Smallest({x \in DOMAIN c : x > k})
Before(c, k) == Largest({x \in DOMAIN c : x < k})

(* prime_cache_: the first and the last key of the parent.                 *)
PrimeCache(p, c) ==
  IF Live(p) = {} THEN c ELSE Emplace(Emplace(c, Min(Live(p)), p[Min(Live(p))]), Max(Live(p)), p[Max(Live(p))])

NoCache == [k \in {} |-> 0]

(* The two neighbours are known to follow each other.                      *)
Link(c, a, b) == IF a = End \/ b = End THEN c ELSE [c EXCEPT ![a].next = TRUE, ![b].prev = TRUE]

(* next_key_ and previous_key_                                             *)
NextKey(c, k) == LET d == FromParent(c, ParentAfter(k)) IN Link(d, k, After(d, k))
PreviousKey(c, k) == LET d == FromParent(c, ParentBefore(k)) IN Link(d, Before(d, k), k)

Between(c, k) == [c EXCEPT ![k].next = TRUE, ![k].prev = TRUE]

(* update_iterator_cache_: the key is put into the cache, and linked to    *)
(* its neighbours.                                                         *)
UpdateIteratorCache(c, k) ==
  LET d == Emplace(c, k, None)
      p == Before(d, k)
      n == After(d, k)
  IN IF k \in DOMAIN c THEN c
     ELSE IF p # End /\ d[p].next THEN Between(d, k)
     ELSE IF p = End /\ n # End /\ d[n].prev THEN Between(d, k)
     ELSE PreviousKey(NextKey(d, k), k)

-----------------------------------------------------------------------------
(* Reads and writes.                                                       *)

Known(k) == k \in DOMAIN cache /\ (cache[k].deleted \/ cache[k].value # None)

CachedValue(c, k) == IF c[k].deleted THEN None ELSE c[k].value

Nothing == [op |-> "none", key |-> End, result |-> None]
Returned(op, k, result) == last' = [op |-> op, key |-> k, result |-> result]

(* read, and contains, which differs in its result only.                   *)
Read(k) ==
  /\ IF Known(k) THEN UNCHANGED cache /\ Returned("read", k, CachedValue(cache, k))
     ELSE /\ cache' = IF parent[k] = None THEN cache
                      ELSE [UpdateIteratorCache(cache, k) EXCEPT ![k].value = parent[k]]
          /\ Returned("read", k, parent[k])
  /\ UNCHANGED <<parent, it, view, rounds>>

Write(k, v) ==
  /\ cache' = [UpdateIteratorCache(cache, k) EXCEPT ![k].value = v, ![k].deleted = FALSE, ![k].updated = TRUE]
  /\ view' = [view EXCEPT ![k] = v]
  /\ last' = Nothing
  /\ UNCHANGED <<parent, it, rounds>>

Erase(k) ==
  /\ cache' = [UpdateIteratorCache(cache, k) EXCEPT ![k].deleted = TRUE, ![k].updated = FALSE]
  /\ view' = [view EXCEPT ![k] = None]
  /\ last' = Nothing
  /\ UNCHANGED <<parent, it, rounds>>

-----------------------------------------------------------------------------
(* Iterators.                                                              *)

NotDeleted(c) == {k \in DOMAIN c : ~c[k].deleted}

(* find *)
Find(k) ==
  LET c == IF k \in DOMAIN cache \/ parent[k] = None THEN cache ELSE FromParent(cache, k)
      found == IF k \in NotDeleted(c) THEN k ELSE End
  IN /\ cache' = c
     /\ it' = found
     /\ Returned("find", k, found)
     /\ UNCHANGED <<parent, view, rounds>>

(* first_not_deleted_in_iterator_cache_: the first key from k on that is   *)
(* not deleted, and whether all keys on the way know their neighbour.      *)
FirstNotDeleted(k) == Smallest({x \in NotDeleted(cache) : x >= k})

PreviousKnown(k, x) == \A y \in DOMAIN cache : k <= y /\ y <= x => cache[y].prev

(* The first key of the parent from k on that is not deleted here.         *)
ParentNotDeleted(k) == Smallest({p \in Live(parent) : p >= k /\ ~(p \in DOMAIN cache /\ cache[p].deleted)})


(* lower_bound *)
LowerBound(k) ==
  LET x == FirstNotDeleted(k)
      ask == x = End \/ (x # k /\ ~PreviousKnown(k, x))
      p == IF ask THEN ParentNotDeleted(k) ELSE End
      found == IF p # End /\ (x = End \/ p < x) THEN p ELSE x
  IN /\ cache' = IF found = x THEN cache ELSE FromParent(cache, found)
     /\ it' = found
     /\ Returned("lower_bound", k, found)
     /\ UNCHANGED <<parent, view, rounds>>

(* begin: as lower_bound, but the key of the parent is compared with that  *)
(* of the cache, and no key is less than the empty key of End.             *)
Begin ==
  LET x == FirstNotDeleted(1)
      ask == x # End /\ x # Min(DOMAIN cache) /\ ~PreviousKnown(1, x)
      p == IF ask THEN ParentNotDeleted(1) ELSE End
      found == IF p # End /\ p < x THEN p ELSE x
  IN /\ cache' = IF found = x THEN cache ELSE FromParent(cache, found)
     /\ it' = found
     /\ Returned("begin", End, found)
     /\ UNCHANGED <<parent, view, rounds>>

(* move_next_: one move in the cache, after the next key of the parent was *)
(* taken in where the flag does not tell that it is there.                 *)
StepNext(c, k) ==
  LET p == ParentAfter(k)
      n == After(c, k)
      key == IF p = End \/ (n # End /\ n < p) THEN n ELSE p
  IN IF c[k].next \/ key = End THEN c ELSE Link(FromParent(c, IF key = n THEN End ELSE key), k, key)

StepPrevious(c, k) ==
  LET p == ParentBefore(k)
      n == Before(c, k)
      key == IF p = End \/ (n # End /\ n > p) THEN n ELSE p
  IN IF c[k].prev \/ key = End THEN c ELSE Link(FromParent(c, IF key = n THEN End ELSE key), key, k)

(* move_: steps until a key is not deleted or the end is met.              *)
RECURSIVE MoveNext(_, _), MovePrevious(_, _)
MoveNext(c, k) ==
  LET d == StepNext(c, k)
      n == IF d[k].next THEN After(d, k) ELSE End
  IN IF n = End \/ ~d[n].deleted THEN [cache |-> d, at |-> n] ELSE MoveNext(d, n)

MovePrevious(c, k) ==
  LET d == StepPrevious(c, k)
      n == IF d[k].prev THEN Before(d, k) ELSE End
  IN IF n = End \/ ~d[n].deleted THEN [cache |-> d, at |-> n] ELSE MovePrevious(d, n)

(* operator++ from a key; from the end it goes to the first of the cache.  *)
Next_ ==
  /\ it # End
  /\ LET m == MoveNext(cache, it)
     IN cache' = m.cache /\ it' = m.at /\ Returned("next", it, m.at)
  /\ UNCHANGED <<parent, view, rounds>>

(* operator--, from a key or from the end.                                 *)
Previous ==
  /\ LET n == Largest(DOMAIN cache)
         m == IF it = End
              THEN IF n = End \/ ~cache[n].deleted THEN [cache |-> cache, at |-> n] ELSE MovePrevious(cache, n)
              ELSE IF it = Min(DOMAIN cache) THEN [cache |-> cache, at |-> End]
              ELSE MovePrevious(cache, it)
     IN cache' = m.cache /\ it' = m.at /\ Returned("previous", it, m.at)
  /\ UNCHANGED <<parent, view, rounds>>

-----------------------------------------------------------------------------
Init ==
  /\ parent \in [Keys -> Values \cup {None}]
  /\ cache = PrimeCache(parent, NoCache)
  /\ it = End
  /\ view = parent
  /\ last = Nothing
  /\ rounds = 0

(* What the parent holds after commit: first the deletes, then the updates.*)
Committed(c) ==
  [k \in Keys |-> IF k \notin DOMAIN c THEN parent[k]
                  ELSE IF c[k].deleted THEN None
                  ELSE IF c[k].updated THEN c[k].value
                  ELSE parent[k]]

(* commit, and a new session attached to the same parent.                  *)
Commit ==
  /\ rounds < MaxRounds
  /\ rounds' = rounds + 1
  /\ parent' = Committed(cache)
  /\ cache' = PrimeCache(parent', NoCache)
  /\ it' = End
  /\ last' = Nothing
  /\ UNCHANGED view

(* undo, and a new session attached to the same parent.                    *)
Undo ==
  /\ rounds < MaxRounds
  /\ rounds' = rounds + 1
  /\ cache' = PrimeCache(parent, NoCache)
  /\ it' = End
  /\ view' = parent
  /\ last' = Nothing
  /\ UNCHANGED parent

Next ==
  \/ \E k \in Keys : Read(k) \/ Erase(k) \/ Find(k) \/ LowerBound(k) \/ \E v \in Values : Write(k, v)
  \/ Begin \/ Next_ \/ Previous
  \/ Commit \/ Undo

Spec == Init /\ [][Next]_vars

-----------------------------------------------------------------------------
TypeOK ==
  /\ parent \in [Keys -> Values \cup {None}] /\ view \in [Keys -> Values \cup {None}]
  /\ DOMAIN cache \subseteq Keys
  /\ \A k \in DOMAIN cache :
       cache[k] \in [next : BOOLEAN, prev : BOOLEAN, deleted : BOOLEAN, updated : BOOLEAN, value : Values \cup {None}]
  /\ it \in Keys \cup {End}

(* The changes of the session, laid over the parent, are what was written  *)
(* and erased through it, also after a commit into the parent or an undo   *)
(* (session.h:505-542).                                                    *)
HoldsItsChanges == Committed(cache) = view

(* A key that is flagged as having a neighbour in the cache has one, with  *)
(* no live key of the parent between them, whatever keys came into the     *)
(* cache by reads, writes, searches and iteration, in any order: a wrong   *)
(* flag would make an iterator skip a key or leave the map                 *)
(* (session.h:414-462).                                                    *)
FlagsAreTrue ==
  \A k \in DOMAIN cache :
    /\ cache[k].next => After(cache, k) # End /\ \A p \in Live(parent) : k < p => After(cache, k) <= p
    /\ cache[k].prev => Before(cache, k) # End /\ \A p \in Live(parent) : p < k => p <= Before(cache, k)

==============================================================================
