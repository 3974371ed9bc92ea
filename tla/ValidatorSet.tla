---------------------------- MODULE ValidatorSet ----------------------------
(***************************************************************************)
(* The validator set and the choice of the proposer (types/validator.h),   *)
(* as the heights and the rounds use them: update_state applies the        *)
(* changes of the application and increments once per height,              *)
(* enter_new_round increments a copy by the rounds it skips, and           *)
(* load_validators increments what it reads by the heights since it was    *)
(* written.                                                                *)
(*                                                                         *)
(* A set is a function from addresses to a voting power and a proposer     *)
(* priority.  The vector of the code is always sorted by decreasing power  *)
(* and then by address.                                                    *)
(***************************************************************************)
EXTENDS Integers, Sequences, FiniteSets, FiniteSetsExt, SequencesExt

CONSTANTS Addresses,  \* numbers, for their order
          Powers,     \* the powers a change may ask for
          MaxTotalVotingPower,
          MaxChanges, \* changes in one block
          MaxUpdates, MaxSteps \* bounds on the blocks with changes, and on all

VARIABLES vals,      \* validators
          proposer,  \* the proposer of the set
          total,     \* total_voting_power
          updates, steps

valSetVars == <<vals, proposer, total, updates, steps>>

PowerSum(v) == MapThenSumSet(LAMBDA a : v[a].power, DOMAIN v)
PrioritySum(v) == MapThenSumSet(LAMBDA a : v[a].priority, DOMAIN v)

\* The order of the vector.
Before(v, a, b) ==
  \/ v[a].power > v[b].power
  \/ v[a].power = v[b].power /\ a < b

\* std::max_element: the first of those with the highest priority.
MostPriority(v) ==
  CHOOSE a \in DOMAIN v :
    \A b \in DOMAIN v \ {a} :
      \/ v[a].priority > v[b].priority
      \/ v[a].priority = v[b].priority /\ Before(v, a, b)

\* rescale_priorities: max starts at the largest integer and min at the
\* smallest, so neither moves; their difference wraps around to -1, and 1 is
\* below any window.
RescalePriorities(v, diffMax) == v

\* shift_by_avg_proposer_priority: only a positive sum is taken out.
ShiftByAvgProposerPriority(v) ==
  LET sum == PrioritySum(v)
  IN  IF sum > 0
      THEN [a \in DOMAIN v |-> [v[a] EXCEPT !.priority = @ - sum \div Cardinality(DOMAIN v)]]
      ELSE v

\* Variant: the proposer pays with its own power.
TurnPaysItsPower(v) ==
  LET raised == [a \in DOMAIN v |-> [v[a] EXCEPT !.priority = @ + v[a].power]]
      first == MostPriority(raised)
  IN  [raised EXCEPT ![first].priority = @ - v[first].power]

\* One turn of the loop of increment_proposer_priority.
Turn(v) ==
  LET raised == [a \in DOMAIN v |-> [v[a] EXCEPT !.priority = @ + v[a].power]]
      first == MostPriority(raised)
  IN  [raised EXCEPT ![first].priority = @ - PowerSum(v)]

\* Who is the proposer after a turn from v.
TurnOf(v) == MostPriority([a \in DOMAIN v |-> [v[a] EXCEPT !.priority = @ + v[a].power]])

\* increment_proposer_priority: the set after "times" turns.
Increment(v, times) ==
  LET start == ShiftByAvgProposerPriority(RescalePriorities(v, 2 * PowerSum(v)))
      after[n \in 0..times] == IF n = 0 THEN start ELSE Turn(after[n - 1])
  IN  after[times]

\* The proposer it leaves.
IncrementProposer(v, times) ==
  LET start == ShiftByAvgProposerPriority(RescalePriorities(v, 2 * PowerSum(v)))
      after[n \in 0..times] == IF n = 0 THEN start ELSE Turn(after[n - 1])
  IN  TurnOf(after[times - 1])

-----------------------------------------------------------------------------

\* The changes of a block, in any order: the code sorts them by address.
Addrs(changes) == {c.address : c \in changes}
PowerIn(changes, a) == (CHOOSE c \in changes : c.address = a).power
Deletes(changes) == {a \in Addrs(changes) : PowerIn(changes, a) = 0}

\* The verification steps of update_with_change_set.
ChangesOK(v, changes, allowDeletes) ==
  LET deletes == Deletes(changes)
      news == (Addrs(changes) \ deletes) \ DOMAIN v
      after == [a \in (DOMAIN v \union Addrs(changes)) \ deletes |->
                  IF a \in Addrs(changes) THEN PowerIn(changes, a) ELSE v[a].power]
  IN  /\ Cardinality(Addrs(changes)) = Cardinality(changes)
      /\ \A c \in changes : c.power \in 0..MaxTotalVotingPower
      /\ allowDeletes \/ deletes = {}
      /\ ~(news = {} /\ Cardinality(DOMAIN v) = Cardinality(deletes))
      /\ deletes \subseteq DOMAIN v
      /\ MapThenSumSet(LAMBDA a : after[a], DOMAIN after) <= MaxTotalVotingPower

\* compute_new_priorities writes to copies: a change keeps the priority it
\* came with, which is 0 (new_validator).
NewPriority(v, a) == 0

\* apply_updates and apply_removals, then scaling and centring.
Changed(v, changes) ==
  LET deletes == Deletes(changes)
      merged == [a \in (DOMAIN v \union Addrs(changes)) \ deletes |->
                   IF a \in Addrs(changes)
                   THEN [power |-> PowerIn(changes, a), priority |-> NewPriority(v, a)]
                   ELSE v[a]]
  IN  ShiftByAvgProposerPriority(RescalePriorities(merged, 2 * PowerSum(merged)))

UpdateWithChangeSet(v, changes, allowDeletes) ==
  IF changes # {} /\ ChangesOK(v, changes, allowDeletes) THEN Changed(v, changes) ELSE v

ChangeLists ==
  UNION {kSubset(n, [address: Addresses, power: Powers]) : n \in 0..MaxChanges}

-----------------------------------------------------------------------------

Empty == [a \in {} |-> [power |-> 0, priority |-> 0]]

\* new_validator_set, from the genesis document.
ValSetInit ==
  /\ \E changes \in ChangeLists :
       /\ changes # {}
       /\ ChangesOK(Empty, changes, FALSE)
       /\ LET v == UpdateWithChangeSet(Empty, changes, FALSE)
          IN  /\ vals = Increment(v, 1)
              /\ proposer = IncrementProposer(v, 1)
              /\ total = PowerSum(v)
  /\ updates = 0 /\ steps = 0

\* update_state for the next height: the result of update_with_change_set is
\* not looked at, so changes that are refused are dropped and the block stands.
NextHeight ==
  \E changes \in ChangeLists :
    /\ steps < MaxSteps
    /\ changes # {} => updates < MaxUpdates
    /\ LET v == UpdateWithChangeSet(vals, changes, TRUE)
       IN  /\ vals' = Increment(v, 1)
           /\ proposer' = IncrementProposer(v, 1)
           /\ total' = PowerSum(v)
    /\ updates' = IF changes # {} THEN updates + 1 ELSE updates
    /\ steps' = steps + 1

\* The set goes through the store: to_proto leaves the total out and
\* from_proto computes it again.
Reload ==
  /\ total' = PowerSum(vals)
  /\ UNCHANGED <<vals, proposer, updates, steps>>

ValSetNext == NextHeight \/ Reload

ValSetSpec == ValSetInit /\ [][ValSetNext]_valSetVars

-----------------------------------------------------------------------------

\* After any sequence of accepted changes the set is not empty, the cached
\* total is the sum of the powers and within the limit that keeps the
\* priorities from overflowing, and the proposer is a member.
SetIsSound ==
  /\ DOMAIN vals # {}
  /\ total = PowerSum(vals) /\ total <= MaxTotalVotingPower
  /\ proposer \in DOMAIN vals

\* A node that enters the rounds one by one and a node that skips some
\* (enter_new_round), or one that reads an older set back from the store
\* (load_validators), agree on the priorities and on the proposer, although
\* the priorities are centred once per call.
SkippingAgrees ==
  \A n \in 1..2, m \in 1..2 :
    /\ Increment(vals, n + m) = Increment(Increment(vals, n), m)
    /\ IncrementProposer(vals, n + m) = IncrementProposer(Increment(vals, n), m)

Spread(v) ==
  Max({v[a].priority : a \in DOMAIN v}) - Min({v[a].priority : a \in DOMAIN v})

\* The priorities of the members stay in the window of twice the total
\* voting power that the comments of validator.h promise.
PrioritiesInWindow == Spread(vals) <= 2 * total

\* How often each member is the proposer in the next "total" turns.
TurnsAhead(v) ==
  LET after[n \in 0..total] == IF n = 0 THEN v ELSE Turn(after[n - 1])
  IN  [a \in DOMAIN v |-> Cardinality({n \in 0..(total - 1) : TurnOf(after[n]) = a})]

\* In as many turns as there is voting power, every member is the proposer as
\* often as it has power, give or take one, wherever in the cycle the set
\* stands and whatever changes led to it, while the priorities are in the
\* window.
TurnsFollowPower ==
  PrioritiesInWindow =>
    \A a \in DOMAIN vals : TurnsAhead(vals)[a] - vals[a].power \in -1..1
=============================================================================
