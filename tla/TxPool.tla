-------------------------------- MODULE TxPool --------------------------------
(***************************************************************************)
(* tx_pool, with its unapplied_tx_queue and its LRU_cache.  A transaction  *)
(* is checked in two parts: check_tx_internal takes no lock of the pool,   *)
(* then the application is asked, and its answer is given to add_tx, by    *)
(* the same thread or by a callback.  Meanwhile other threads check        *)
(* transactions, a block is applied, or the pool is flushed.               *)
(*                                                                         *)
(* A transaction is a record with what the application says of it: hash,   *)
(* sender, nonce, gas; and its size, that of the queue entry included.     *)
(***************************************************************************)
EXTENDS Integers, Sequences, FiniteSets, FiniteSetsExt, SequencesExt

CONSTANTS PoolTxs, MaxTxBytes, MaxQueueBytes, CacheSize, GasPriceBump,
          TtlNumBlocks, TtlDuration, KeepInvalid,
          MaxPoolHeight, MaxChecks, MaxBlockTxs

VARIABLES queue,       \* the entries: a transaction, its height and its time
          bytes,       \* size_in_bytes_
          incoming,    \* incoming_count_
          keys, items, \* the cache: key_list_, newest first, and the maps
          checking,    \* the transactions the application is asked about
          height, now,
          postcheck,   \* whether there is a postcheck_
          checks,
          applied,     \* the hashes in applied blocks (history)
          again        \* the hashes checked at the time or later (history)

poolVars == <<queue, bytes, incoming, keys, items, checking, height, now, postcheck, checks, applied, again>>

Hash(e) == e.tx.hash
SizeOf(S) == MapThenSumSet(LAMBDA e : e.tx.size, S)
GasOf(S) == MapThenSumSet(LAMBDA e : e.tx.gas, S)

Queue == [entries |-> queue, bytes |-> bytes, incoming |-> incoming]

(* get_tx, by sender and nonce *)
SameNonce(q, tx) == {e \in q.entries : e.tx.sender = tx.sender /\ e.tx.nonce = tx.nonce}

(* unapplied_tx_queue::erase *)
Erase(q, hash) ==
  LET gone == {e \in q.entries : Hash(e) = hash}
  IN [entries |-> q.entries \ gone,
      bytes |-> q.bytes - SizeOf(gone),
      incoming |-> q.incoming - Cardinality(gone)]

EraseAll(q, hashes) == FoldSet(LAMBDA h, p : Erase(p, h), q, hashes)

(* unapplied_tx_queue::add_tx: the indices by hash and by sender and nonce *)
(* are unique.                                                             *)
HasRoom(q, tx) == q.bytes + tx.size <= MaxQueueBytes

AddTx(q, e) ==
  IF \E d \in q.entries : Hash(d) = Hash(e) \/ d \in SameNonce(q, e.tx) THEN q
  ELSE [entries |-> q.entries \cup {e}, bytes |-> q.bytes + e.tx.size, incoming |-> q.incoming + 1]

Cache == [keys |-> keys, items |-> items]

(* LRU_cache::put, del *)
Put(c, hash) ==
  LET list == IF hash \in c.items THEN Remove(c.keys, hash) ELSE c.keys
      full == Len(list) >= CacheSize
  IN [keys |-> <<hash>> \o IF full THEN Front(list) ELSE list,
      items |-> (IF full THEN c.items \ {Last(list)} ELSE c.items) \cup {hash}]

Del(c, hash) ==
  IF hash \in c.items THEN [keys |-> Remove(c.keys, hash), items |-> c.items \ {hash}] ELSE c

SetQueue(q) == queue' = q.entries /\ bytes' = q.bytes /\ incoming' = q.incoming
SetCache(c) == keys' = c.keys /\ items' = c.items

-----------------------------------------------------------------------------
(* check_tx_internal.  It throws for a large transaction, for one that the *)
(* precheck refuses, and, after it went to the cache, for one in the queue *)
CheckTxInternal(tx) ==
  /\ checks < MaxChecks
  /\ tx.size <= MaxTxBytes
  /\ SetCache(Put(Cache, tx.hash))
  /\ checking' = IF \E e \in queue : Hash(e) = tx.hash THEN checking ELSE Append(checking, tx)
  /\ again' = again \cup {tx.hash}
  /\ checks' = checks + 1
  /\ UNCHANGED <<queue, bytes, incoming, height, now, postcheck, applied>>

Answered(i) == checking' = RemoveAt(checking, i)

(* add_tx: the application refused, and so does the postcheck.             *)
RejectTx(i) ==
  /\ postcheck
  /\ SetCache(Del(Cache, checking[i].hash))
  /\ Answered(i)
  /\ UNCHANGED <<queue, bytes, incoming, height, now, postcheck, checks, applied, again>>

(* The gas is enough for a nonce override.                                 *)
Outbids(tx, old) == \A e \in old : tx.gas >= e.tx.gas + GasPriceBump

(* add_tx, under the lock.  The entry with the same nonce is erased before *)
(* the queue is asked for room.                                            *)
Add(i) ==
  LET tx == checking[i]
      old == SameNonce(Queue, tx)
      q == EraseAll(Queue, {Hash(e) : e \in old})
      dropped == IF KeepInvalid THEN Cache ELSE Del(Cache, tx.hash)
  IN /\ CASE ~Outbids(tx, old) -> SetQueue(Queue) /\ SetCache(dropped)
          [] Outbids(tx, old) /\ ~HasRoom(q, tx) -> SetQueue(q) /\ SetCache(dropped)
          [] OTHER -> SetQueue(AddTx(q, [tx |-> tx, height |-> height, time |-> now])) /\ SetCache(Cache)
     /\ Answered(i)
     /\ UNCHANGED <<height, now, postcheck, checks, applied, again>>

Expired(q, h) ==
  {e \in q.entries : TtlNumBlocks > 0 /\ h > TtlNumBlocks /\ e.height <= h - TtlNumBlocks}
  \cup {e \in q.entries : TtlDuration > 0 /\ e.time <= now - TtlDuration}


(* What update erases for the block itself.                                *)
InBlock(txs, ok) == {tx.hash : tx \in txs}

(* update, for a block of txs of which ok were delivered well.  The loops  *)
(* over the expired entries advance an iterator whose entry was erased:    *)
(* undefined, so that any of the expired entries may stay.  A height of 0  *)
(* as bound, for h <= ttl_num_blocks, finds none: heights start at 1.      *)
Update(txs, ok, gone, check) ==
  LET h == height + 1
      q == EraseAll(Queue, InBlock(txs, ok))
      c == FoldSet(LAMBDA tx, d : IF tx.hash \in ok THEN Put(d, tx.hash)
                                  ELSE IF KeepInvalid THEN d ELSE Del(d, tx.hash), Cache, txs)
  IN /\ h <= MaxPoolHeight
     /\ gone \subseteq Expired(q, h)
     /\ gone = {} => Expired(q, h) = {}
     /\ SetQueue(EraseAll(q, {Hash(e) : e \in gone}))
     /\ SetCache(c)
     /\ height' = h
     /\ postcheck' = (postcheck \/ check)
     /\ applied' = applied \cup {tx.hash : tx \in txs}
     /\ again' = (again \ {tx.hash : tx \in txs}) \cup {tx.hash : tx \in ToSet(checking)}
     /\ UNCHANGED <<checking, now, checks>>

(* flush *)
Flush ==
  /\ SetQueue([entries |-> {}, bytes |-> 0, incoming |-> 0])
  /\ SetCache([keys |-> <<>>, items |-> {}])
  /\ UNCHANGED <<checking, height, now, postcheck, checks, applied, again>>

Tick ==
  /\ now < MaxPoolHeight
  /\ now' = now + 1
  /\ UNCHANGED <<queue, bytes, incoming, keys, items, checking, height, postcheck, checks, applied, again>>

(* One step of the loop of reap_max_bytes_max_gas.                         *)
Taken(r, e, maxBytes, maxGas) ==
  IF r.full \/ r.gas + e.tx.gas > maxGas THEN r
  ELSE IF r.bytes + e.tx.size > maxBytes THEN [r EXCEPT !.full = TRUE]
  ELSE [r EXCEPT !.txs = @ \cup {e}, !.bytes = @ + e.tx.size, !.gas = @ + e.tx.gas]

(* reap_max_bytes_max_gas: the most gas first, from max_gas down.          *)
Reap(maxBytes, maxGas) ==
  FoldLeft(LAMBDA r, e : Taken(r, e, maxBytes, maxGas),
           [txs |-> {}, bytes |-> 0, gas |-> 0, full |-> FALSE],
           SetToSortSeq({e \in queue : e.tx.gas <= maxGas}, LAMBDA d, e : d.tx.gas > e.tx.gas)).txs

PoolInit ==
  /\ queue = {} /\ bytes = 0 /\ incoming = 0
  /\ keys = <<>> /\ items = {}
  /\ checking = <<>>
  /\ height = 1 /\ now = 1
  /\ postcheck = FALSE
  /\ checks = 0 /\ applied = {} /\ again = {}

PoolNext ==
  \/ \E tx \in PoolTxs : CheckTxInternal(tx)
  \/ \E i \in DOMAIN checking : RejectTx(i) \/ Add(i)
  \/ \E n \in 0..MaxBlockTxs : \E txs \in kSubset(n, PoolTxs) :
       \E ok \in SUBSET {tx.hash : tx \in txs}, gone \in SUBSET queue, check \in BOOLEAN : Update(txs, ok, gone, check)
  \/ Flush \/ Tick

PoolSpec == PoolInit /\ [][PoolNext]_poolVars

-----------------------------------------------------------------------------
(* The sizes are those of the entries, after any order of replacement,     *)
(* blocks, expiry and flush: the pool neither fills up for good nor        *)
(* exceeds its limit (unapplied_tx_queue.h:146-159, 228-238).              *)
SizesAreRight ==
  /\ bytes = SizeOf(queue) /\ bytes <= MaxQueueBytes
  /\ incoming = Cardinality(queue)

(* The list and the maps of the cache hold the same hashes, each once, and *)
(* no more than its size (LRU_cache.h:45-73).                              *)
CacheAgrees ==
  /\ ToSet(keys) = items
  /\ Len(keys) = Cardinality(items)
  /\ Len(keys) <= CacheSize

PaysMore ==
  \A d \in queue, e \in queue' :
     d \in SameNonce(Queue, e.tx) /\ d.tx # e.tx => e.tx.gas >= d.tx.gas + GasPriceBump


(* A block takes no more bytes and gas than it may, and everything when    *)
(* everything fits (tx_pool.cpp:156-182).                                  *)
ReapedWithinLimits ==
  \A maxBytes \in {MaxTxBytes, MaxQueueBytes}, maxGas \in {tx.gas : tx \in PoolTxs} \cup {GasOf(queue)} :
    LET r == Reap(maxBytes, maxGas)
    IN /\ SizeOf(r) <= maxBytes /\ GasOf(r) <= maxGas
       /\ SizeOf(queue) <= maxBytes /\ GasOf(queue) <= maxGas => r = queue
=============================================================================
