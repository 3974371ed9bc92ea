------------------------------- MODULE Mempool -------------------------------
(***************************************************************************)
(* TxMempool (mempool.h): the wrapped transactions are in tx_store, in     *)
(* priority_index and in gossip_index, and size_bytes_ counts their bytes. *)
(* reap_max_bytes_max_gas, reap_max_txs and flush hold the mempool's lock  *)
(* shared, so that they may run side by side; everything else holds it     *)
(* alone.  A reap pops the transactions one by one and pushes them back    *)
(* when it returns.                                                        *)
(*                                                                         *)
(* A transaction has a key, a priority and a size; wrapped, the height and *)
(* the time it came at as well.                                            *)
(***************************************************************************)
EXTENDS Integers, Sequences, FiniteSets, FiniteSetsExt, SequencesExt

CONSTANTS MempoolTxs, MempoolSize, MempoolBytes, MempoolCacheSize,
          MempoolTtlNumBlocks, MempoolTtlDuration,
          Reapers, ReapSizes, MaxMempoolHeight, MaxInserts, MaxReaps

VARIABLES store, index, gossip, size_bytes,
          cache,      \* LRUTxCache, oldest first
          reaping,    \* of each reaper: what it popped, and how many it wants
          flushing,   \* what flush has left, in the order of the keys
          notified, available,
          block, clock, inserts, reaps,
          undefined,  \* remove_tx erased what was not there
          shared      \* a flush ran beside a reap (history)

mempoolVars == <<store, index, gossip, size_bytes, cache, reaping, flushing, notified, available,
                 block, clock, inserts, reaps, undefined, shared>>

Idle == [op |-> "idle", txs |-> <<>>, max |-> 0]
NotFlushing == [on |-> FALSE, txs |-> {}]

SizeOf(S) == MapThenSumSet(LAMBDA w : w.size, S)

(* TxPriorityQueue::less *)
Below(v, w) ==
  \/ v.priority < w.priority
  \/ v.priority = w.priority /\ v.time > w.time

(* pop_tx takes a transaction that is below no other.                      *)
Top(S) == {w \in S : \A v \in S : ~Below(w, v)}

(* get_evictable_txs: the fewest of the lowest priorities that make room.  *)
Evictable(priority, size) ==
  LET from == SetToSortSeq({w \in index : w.priority < priority}, Below)
      n == {i \in DOMAIN from : size_bytes - SizeOf(ToSet(SubSeq(from, 1, i))) + size <= MempoolBytes}
  IN IF n = {} THEN {} ELSE ToSet(SubSeq(from, 1, Min(n)))

(* LRUTxCache::push *)
Pushed(key) ==
  IF key \in ToSet(cache) THEN Append(Remove(cache, key), key)
  ELSE Append(IF Len(cache) >= MempoolCacheSize THEN Tail(cache) ELSE cache, key)

(* TxStore::remove_tx erases whatever has the key.                         *)
Without(S, w) == {v \in S : v.key # w.key}

Pool == [store |-> store, index |-> index, gossip |-> gossip, size_bytes |-> size_bytes, undefined |-> undefined]

(* can_add_tx *)
CanAddTx(w) == Cardinality(store) < MempoolSize /\ w.size + size_bytes <= MempoolBytes

(* insert_tx *)
InsertTx(p, w) ==
  [p EXCEPT !.store = @ \cup {w}, !.index = @ \cup {w}, !.gossip = Append(@, w), !.size_bytes = @ + w.size]


(* remove_tx.  is_tx_removed finds no transaction that was removed: the    *)
(* store has it no more.  The priority index erases what find gives.       *)
RemoveTx(p, w) ==
  [p EXCEPT !.store = Without(@, w),
            !.index = @ \ {w},
            !.undefined = @ \/ w \notin p.index,
            !.gossip = Remove(@, w),
            !.size_bytes = @ - w.size]

SetPool(p) ==
  /\ store' = p.store
  /\ index' = p.index
  /\ gossip' = p.gossip
  /\ size_bytes' = p.size_bytes
  /\ undefined' = p.undefined

(* The lock of the mempool is held alone.                                  *)
Alone == ~undefined /\ ~flushing.on /\ \A r \in Reapers : reaping[r] = Idle

-----------------------------------------------------------------------------
(* The caller of can_add_tx, get_evictable_txs and insert_tx, check_tx,    *)
(* is not written yet: a transaction that is not in the cache comes in if  *)
(* there is room, or if evicting makes room.                               *)
CheckTx(tx) ==
  LET w == [key |-> tx.key, priority |-> tx.priority, size |-> tx.size, height |-> block, time |-> clock]
      evicted == Evictable(w.priority, w.size)
      p == FoldSet(LAMBDA v, q : RemoveTx(q, v), Pool, evicted)
  IN /\ Alone /\ inserts < MaxInserts
     /\ inserts' = inserts + 1
     /\ cache' = Pushed(tx.key)
     /\ IF tx.key \in ToSet(cache) THEN SetPool(Pool)
        ELSE IF CanAddTx(w) THEN SetPool(InsertTx(Pool, w))
        ELSE SetPool(IF evicted = {} THEN Pool ELSE InsertTx(p, w))
     /\ UNCHANGED <<reaping, flushing, notified, available, block, clock, reaps, shared>>

(* remove_tx_by_key *)
RemoveTxByKey(w) ==
  /\ Alone
  /\ w \in store
  /\ SetPool(RemoveTx(Pool, w))
  /\ UNCHANGED <<cache, reaping, flushing, notified, available, block, clock, inserts, reaps, shared>>

(* flush: get_all_txs; remove_tx for each; and the end.                    *)
Flush ==
  /\ ~undefined /\ ~flushing.on /\ reaps < MaxReaps
  /\ flushing' = [on |-> TRUE, txs |-> store]
  /\ reaps' = reaps + 1
  /\ UNCHANGED <<store, index, gossip, size_bytes, undefined, cache, reaping, notified, available, block, clock, inserts, shared>>

FlushOne(w) ==
  /\ ~undefined /\ w \in flushing.txs
  /\ SetPool(RemoveTx(Pool, w))
  /\ flushing' = [flushing EXCEPT !.txs = @ \ {w}]
  /\ shared' = (shared \/ \E r \in Reapers : reaping[r] # Idle)
  /\ UNCHANGED <<cache, reaping, notified, available, block, clock, inserts, reaps>>

EndFlush ==
  /\ ~undefined /\ flushing.on /\ flushing.txs = {}
  /\ size_bytes' = 0
  /\ cache' = <<>>
  /\ flushing' = NotFlushing
  /\ UNCHANGED <<store, index, gossip, undefined, reaping, notified, available, block, clock, inserts, reaps, shared>>

(* reap_max_txs, and reap_max_bytes_max_gas, which stops at no limit: the  *)
(* start; pop_tx; and push_tx for each when it returns.                    *)
Reap(r, max) ==
  /\ ~undefined /\ reaping[r] = Idle /\ reaps < MaxReaps
  /\ reaping' = [reaping EXCEPT ![r] = [op |-> "pop", txs |-> <<>>, max |-> max]]
  /\ reaps' = reaps + 1
  /\ UNCHANGED <<store, index, gossip, size_bytes, undefined, cache, flushing, notified, available, block, clock, inserts, shared>>

More(r) == index # {} /\ Len(reaping[r].txs) < reaping[r].max

PopTx(r) ==
  /\ ~undefined /\ reaping[r].op = "pop" /\ More(r)
  /\ \E w \in Top(index) :
       /\ index' = index \ {w}
       /\ reaping' = [reaping EXCEPT ![r].txs = Append(@, w)]
  /\ UNCHANGED <<store, gossip, size_bytes, undefined, cache, flushing, notified, available, block, clock, inserts, reaps, shared>>

EndReap(r) ==
  /\ ~undefined /\ reaping[r].op = "pop" /\ ~More(r)
  /\ index' = index \cup ToSet(reaping[r].txs)
  /\ reaping' = [reaping EXCEPT ![r] = Idle]
  /\ UNCHANGED <<store, gossip, size_bytes, undefined, cache, flushing, notified, available, block, clock, inserts, reaps, shared>>

(* The indices by height and by time give the newest first, and the loops  *)
(* of purge_expired_txs stop at the first that is not expired.             *)
OldByHeight(w, h) == h - w.height > MempoolTtlNumBlocks
OldByTime(w) == clock - w.time > MempoolTtlDuration

Purged(h) ==
  {w \in index : MempoolTtlNumBlocks > 0 /\ \A v \in index : v.height >= w.height => OldByHeight(v, h)}
  \cup {w \in index : MempoolTtlDuration > 0 /\ \A v \in index : v.time >= w.time => OldByTime(v)}

(* purge_expired_txs, at a new block *)
PurgeExpiredTxs ==
  /\ Alone /\ block < MaxMempoolHeight
  /\ block' = block + 1
  /\ SetPool(FoldSet(LAMBDA w, p : RemoveTx(p, w), Pool, Purged(block + 1)))
  /\ UNCHANGED <<cache, reaping, flushing, notified, available, clock, inserts, reaps, shared>>

(* notify_txs_available: once, as nothing resets the flag.                 *)
NotifyTxsAvailable ==
  /\ Alone /\ store # {} /\ ~notified
  /\ notified' = TRUE
  /\ available' = TRUE
  /\ UNCHANGED <<store, index, gossip, size_bytes, undefined, cache, reaping, flushing, block, clock, inserts, reaps, shared>>

Tick ==
  /\ Alone /\ clock < MaxMempoolHeight
  /\ clock' = clock + 1
  /\ UNCHANGED <<store, index, gossip, size_bytes, undefined, cache, reaping, flushing, notified, available, block, inserts, reaps, shared>>

MempoolInit ==
  /\ store = {} /\ index = {} /\ gossip = <<>> /\ size_bytes = 0
  /\ cache = <<>>
  /\ reaping = [r \in Reapers |-> Idle]
  /\ flushing = NotFlushing
  /\ notified = FALSE /\ available = FALSE
  /\ block = 1 /\ clock = 1 /\ inserts = 0 /\ reaps = 0
  /\ undefined = FALSE /\ shared = FALSE

MempoolNext ==
  \/ \E tx \in MempoolTxs : CheckTx(tx)
  \/ \E w \in store : RemoveTxByKey(w)
  \/ Flush \/ (\E w \in flushing.txs : FlushOne(w)) \/ EndFlush
  \/ \E r \in Reapers : (\E max \in ReapSizes : Reap(r, max)) \/ PopTx(r) \/ EndReap(r)
  \/ PurgeExpiredTxs \/ NotifyTxsAvailable \/ Tick

MempoolSpec == MempoolInit /\ [][MempoolNext]_mempoolVars

-----------------------------------------------------------------------------
Popped == UNION {ToSet(reaping[r].txs) : r \in Reapers}


EvictsLower ==
  inserts' # inserts => \A v \in store \ store', w \in store' \ store : v.priority < w.priority

(* Erasing a transaction that the priority index does not have happens     *)
(* only if a flush runs beside a reap (mempool.h:79-88, priority_queue.h:  *)
(* 50-53).                                                                 *)
UndefinedOnlyIfShared == undefined => shared
=============================================================================
