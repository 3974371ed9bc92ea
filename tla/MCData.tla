-------------------------------- MODULE MCData --------------------------------
(***************************************************************************)
(* What a node keeps for and from the application, for TLC: the ABCI       *)
(* client, the evidence pool, the transaction pool and the mempool, the    *)
(* tree of its state, the sessions over the key-value store and the        *)
(* encodings of values.  They share no state: each behaviour explores the  *)
(* component that its focus names.                                         *)
(***************************************************************************)
EXTENDS Integers, Sequences, TLC

CONSTANTS NoRequest, NoValue, None, Deleted, Unset, Absent

VARIABLES
  abci_pc, abci_calls, abci_reqQueue, abci_reqSent, abci_sending,
  abci_toApp, abci_fromApp, abci_reading, abci_receiver, abci_open,
  abci_running, abci_wg, abci_response, abci_missed, abci_faults,
  ev_height, ev_pending, ev_committed, ev_ev_list, ev_size, ev_buffer,
  ev_pruning, ev_disk, ev_blocks, ev_corrected, ev_reports, ev_stops,
  ev_mode,
  queue_queue, queue_bytes, queue_incoming, queue_keys, queue_items,
  queue_checking, queue_height, queue_now, queue_postcheck, queue_checks,
  queue_applied, queue_again,
  pool_store, pool_index, pool_gossip, pool_size_bytes, pool_cache,
  pool_reaping, pool_flushing, pool_notified, pool_available, pool_block,
  pool_clock, pool_inserts, pool_reaps, pool_undefined, pool_shared,
  tree_nodes, tree_stale, tree_roots, tree_contents, tree_least,
  tree_purges, tree_ok,
  sess_parent, sess_cache, sess_it, sess_view, sess_last, sess_rounds,
  stack_head, stack_sessions, stack_revision, stack_file, stack_open,
  stack_snapshots,
  kv_db, kv_cache, kv_segments, kv_state, kv_disk, kv_pushed, kv_on_disk,
  kv_it, kv_moved,
  view_db, view_cache, view_segments, view_state, view_disk, view_pushed,
  view_on_disk, view_it, view_moved,
  codec_stream, codec_unread, codec_read,
  focus                          \* the component that moves

(* Two transactions of one sender and nonce, and one of the next nonce     *)
Tx(h, n, g, s) == [hash |-> h, sender |-> "a", nonce |-> n, gas |-> g, size |-> s]
PoolTxs == {Tx(1, 0, 1, 1), Tx(2, 0, 3, 2), Tx(3, 1, 2, 1)}

MempoolTx(k, p, s) == [key |-> k, priority |-> p, size |-> s]
MempoolTxs == {MempoolTx(1, 1, 2), MempoolTx(2, 1, 2), MempoolTx(3, 2, 1)}

(* Values on both sides of every boundary of the encoding                  *)
Val(t, v) == [type |-> t, v |-> v]
Zeros(n) == [i \in 1..n |-> 0]
RlpValues ==
  <<Val("int", 0), Val("int", 7), Val("int", 8), Val("int", 18), Val("int", 323),
    Val("wide", 0), Val("wide", 17), Val("wide", 400),
    Val("bytes", <<>>), Val("bytes", <<7>>), Val("bytes", <<8>>),
    Val("bytes", Zeros(3)), Val("bytes", Zeros(4)),
    Val("fixed", <<0>>), Val("fixed", Zeros(20)), Val("string", <<9>>), Val("string", Zeros(5)),
    Val("vector", <<>>), Val("span", <<Val("int", 1), Val("int", 300)>>),
    Val("struct", <<Val("string", <<1, 2, 3>>), Val("vector", <<Val("wide", 0), Val("wide", 9)>>),
                    Val("fixed", <<9>>)>>)>>

Kind(k) == [kind |-> k]
Of(k, t) == [kind |-> k, of |-> t]
Sized(k, n) == [kind |-> k, n |-> n]
Value(t, v) == [type |-> t, v |-> v]
IntType == Sized("int", 2)
ListOfBytes == Of("vector", Kind("bytes"))

(* Compact integers on both sides of each limit, and each kind of value    *)
CompactInts == <<0, 3, 4, 63, 64, 16383, 16384, 65535, 65536>>
ScaleValues ==
  [i \in DOMAIN CompactInts |-> Value(Kind("compact"), CompactInts[i])] \o
  <<Value(Kind("flag"), <<>>), Value(Kind("flag"), <<TRUE>>), Value(Kind("flag"), <<FALSE>>),
    Value(Of("option", IntType), <<>>), Value(Of("option", IntType), <<200>>),
    Value(Of("result", <<IntType, Kind("bytes")>>), <<0, 17>>),
    Value(Of("result", <<IntType, Kind("bytes")>>), <<1, <<5>>>>),
    Value(Kind("wide"), 100000), Value(ListOfBytes, <<<<1>>, <<>>, <<2, 3>>, <<15, 15, 15, 15>>>>),
    Value([kind |-> "array", of |-> IntType, n |-> 2], <<16, 1>>), Value(Sized("fixed", 3), <<1, 0, 1>>),
    Value(Of("struct", <<IntType, Of("option", ListOfBytes), Kind("flag")>>), <<255, <<<<<<7>>>>>>, <<FALSE>>>>),
    Value(Of("variant", <<IntType, ListOfBytes>>), <<1, <<<<9, 9>>>>>>),
    Value(Of("pointer", Kind("bytes")), <<4, 4>>)>>

(* Numbers on both sides of a group, and each kind of value twice, so that *)
(* one is read over the other                                              *)
Record == Of("struct", <<IntType, Of("pointer", Kind("bytes")), Of("option", IntType)>>)
Pairs == Of("map", Of("struct", <<IntType, Kind("bytes")>>))
BcsValues ==
  <<Value(Kind("varint"), 7), Value(Kind("varint"), 8), Value(Kind("varint"), 63), Value(Kind("varint"), 64),
    Value(IntType, 63), Value(Kind("wide"), 100000),
    Value(Of("option", IntType), <<>>), Value(Of("option", IntType), <<9>>),
    Value(Kind("bytes"), <<>>), Value(Kind("bytes"), <<1, 2, 3, 4, 5>>),
    Value(ListOfBytes, <<<<1>>, <<2, 3>>>>), Value(ListOfBytes, <<<<>>, <<7, 7, 7, 7>>, <<1>>>>),
    Value(Of("vector", Of("option", IntType)), <<<<1>>, <<2>>>>), Value(Of("vector", Of("option", IntType)), <<<<>>>>),
    Value([kind |-> "array", of |-> IntType, n |-> 2], <<8, 1>>), Value(Sized("fixed", 3), <<1, 0, 1>>),
    Value(Pairs, <<<<1, <<5>>>>, <<2, <<>>>>>>), Value(Pairs, <<<<2, <<6, 6>>>>>>),
    Value(Of("variant", <<IntType, ListOfBytes>>), <<0, 2>>), Value(Of("variant", <<IntType, ListOfBytes>>), <<1, <<<<7>>>>>>),
    Value(Of("pointer", IntType), <<>>), Value(Of("pointer", IntType), <<3>>),
    Value(Record, <<1, <<>>, <<2>>>>), Value(Record, <<2, <<<<6>>>>, <<>>>>)>>


Abci == INSTANCE AbciClient WITH
  Callers <- {"a", "b"}, MaxCalls <- 1, ReqQueueSize <- 2, MaxFaults <- 1,
  pc <- abci_pc, calls <- abci_calls, reqQueue <- abci_reqQueue,
  reqSent <- abci_reqSent, sending <- abci_sending, toApp <- abci_toApp,
  fromApp <- abci_fromApp, reading <- abci_reading,
  receiver <- abci_receiver, open <- abci_open, running <- abci_running,
  wg <- abci_wg, response <- abci_response, missed <- abci_missed,
  faults <- abci_faults

Evidence == INSTANCE EvidencePool WITH
  EvHeights <- {1, 2}, EvTimes <- {1, 2}, MaxAgeNumBlocks <- 1,
  MaxAgeDuration <- 1, MaxEvHeight <- 4, MaxReports <- 1, MaxStops <- 1,
  MaxPerBlock <- 1, SizeBits <- 3, height <- ev_height,
  pending <- ev_pending, committed <- ev_committed, ev_list <- ev_ev_list,
  size <- ev_size, buffer <- ev_buffer, pruning <- ev_pruning,
  disk <- ev_disk, blocks <- ev_blocks, corrected <- ev_corrected,
  reports <- ev_reports, stops <- ev_stops, mode <- ev_mode

Queue == INSTANCE TxPool WITH
  MaxTxBytes <- 2, MaxQueueBytes <- 3, CacheSize <- 2, GasPriceBump <- 2,
  TtlNumBlocks <- 1, TtlDuration <- 1, KeepInvalid <- FALSE,
  MaxPoolHeight <- 2, MaxChecks <- 3, MaxBlockTxs <- 1,
  queue <- queue_queue, bytes <- queue_bytes, incoming <- queue_incoming,
  keys <- queue_keys, items <- queue_items, checking <- queue_checking,
  height <- queue_height, now <- queue_now, postcheck <- queue_postcheck,
  checks <- queue_checks, applied <- queue_applied, again <- queue_again

Pool == INSTANCE Mempool WITH
  MempoolSize <- 2, MempoolBytes <- 3, MempoolCacheSize <- 3,
  MempoolTtlNumBlocks <- 1, MempoolTtlDuration <- 1, Reapers <- {"r",
  "s"}, ReapSizes <- {2}, MaxMempoolHeight <- 3, MaxInserts <- 3,
  MaxReaps <- 2, store <- pool_store, index <- pool_index,
  gossip <- pool_gossip, size_bytes <- pool_size_bytes,
  cache <- pool_cache, reaping <- pool_reaping, flushing <- pool_flushing,
  notified <- pool_notified, available <- pool_available,
  block <- pool_block, clock <- pool_clock, inserts <- pool_inserts,
  reaps <- pool_reaps, undefined <- pool_undefined, shared <- pool_shared

Tree == INSTANCE JellyfishTree WITH
  NibbleBits <- 2, Height <- 3, TreeKeys <- {<<0, 0, 0>>, <<0, 0, 1>>,
  <<0, 2, 0>>}, TreeValues <- {1, 2}, MaxVersion <- 1, MaxSets <- 2,
  MaxPairs <- 2, MaxPurges <- 1, nodes <- tree_nodes, stale <- tree_stale,
  roots <- tree_roots, contents <- tree_contents, least <- tree_least,
  purges <- tree_purges, ok <- tree_ok

Sess == INSTANCE Session WITH
  Keys <- {1, 2, 3}, Values <- {7}, MaxRounds <- 1, parent <- sess_parent,
  cache <- sess_cache, it <- sess_it, view <- sess_view,
  last <- sess_last, rounds <- sess_rounds

Stack == INSTANCE SessionStack WITH
  StackKeys <- {1, 2}, StackValues <- {7}, MaxSessions <- 3,
  MaxRevision <- 3, head <- stack_head, sessions <- stack_sessions,
  revision <- stack_revision, file <- stack_file, open <- stack_open,
  snapshots <- stack_snapshots

Kv == INSTANCE ChainKv WITH
  KvKeys <- 1..4, KvValues <- {7}, SegmentSize <- 1, MaxPushes <- 2,
  MaxSegments <- 3, MaxErases <- 1, Low <- 2, High <- 3, EndOfView <- 99,
  db <- kv_db, cache <- kv_cache, segments <- kv_segments,
  state <- kv_state, disk <- kv_disk, pushed <- kv_pushed,
  on_disk <- kv_on_disk, it <- kv_it, moved <- kv_moved

View == INSTANCE ChainKv WITH
  KvKeys <- 1..5, KvValues <- {7}, SegmentSize <- 1, MaxPushes <- 0,
  MaxSegments <- 0, MaxErases <- 1, Low <- 2, High <- 4, EndOfView <- 99,
  db <- view_db, cache <- view_cache, segments <- view_segments,
  state <- view_state, disk <- view_disk, pushed <- view_pushed,
  on_disk <- view_on_disk, it <- view_it, moved <- view_moved

Codec == INSTANCE Codecs WITH
  ByteBits <- 4, WordBytes <- 2,
  Base <- 20, Single <- 8, ShortMax <- 3, ListMod <- 14, IntBytes <- 2,
  MaxUnread <- 2, stream <- codec_stream, unread <- codec_unread,
  read <- codec_read

abciVars == <<abci_pc, abci_calls, abci_reqQueue, abci_reqSent, abci_sending,
           abci_toApp, abci_fromApp, abci_reading, abci_receiver, abci_open,
           abci_running, abci_wg, abci_response, abci_missed, abci_faults>>
evVars == <<ev_height, ev_pending, ev_committed, ev_ev_list, ev_size,
           ev_buffer, ev_pruning, ev_disk, ev_blocks, ev_corrected,
           ev_reports, ev_stops, ev_mode>>
queueVars == <<queue_queue, queue_bytes, queue_incoming, queue_keys, queue_items,
           queue_checking, queue_height, queue_now, queue_postcheck,
           queue_checks, queue_applied, queue_again>>
poolVars == <<pool_store, pool_index, pool_gossip, pool_size_bytes, pool_cache,
           pool_reaping, pool_flushing, pool_notified, pool_available,
           pool_block, pool_clock, pool_inserts, pool_reaps, pool_undefined,
           pool_shared>>
treeVars == <<tree_nodes, tree_stale, tree_roots, tree_contents, tree_least,
           tree_purges, tree_ok>>
sessVars == <<sess_parent, sess_cache, sess_it, sess_view, sess_last,
           sess_rounds>>
stackVars == <<stack_head, stack_sessions, stack_revision, stack_file,
           stack_open, stack_snapshots>>
kvVars == <<kv_db, kv_cache, kv_segments, kv_state, kv_disk, kv_pushed,
           kv_on_disk, kv_it, kv_moved>>
viewVars == <<view_db, view_cache, view_segments, view_state, view_disk,
           view_pushed, view_on_disk, view_it, view_moved>>
codecVars == <<codec_stream, codec_unread, codec_read>>
allVars == <<abciVars, evVars, queueVars, poolVars, treeVars, sessVars, stackVars, kvVars, viewVars, codecVars, focus>>

-----------------------------------------------------------------------------
InitWith(foci) ==
  /\ focus \in foci
  /\ Abci!AbciInit
  /\ IF focus = "ev" THEN Evidence!Init ELSE ev_height = <<>> /\ ev_pending = <<>> /\ ev_committed = <<>> /\ ev_ev_list = <<>> /\ ev_size = <<>> /\ ev_buffer = <<>> /\ ev_pruning = <<>> /\ ev_disk = <<>> /\ ev_blocks = <<>> /\ ev_corrected = <<>> /\ ev_reports = <<>> /\ ev_stops = <<>> /\ ev_mode = <<>>
  /\ IF focus = "queue" THEN Queue!PoolInit ELSE queue_queue = <<>> /\ queue_bytes = <<>> /\ queue_incoming = <<>> /\ queue_keys = <<>> /\ queue_items = <<>> /\ queue_checking = <<>> /\ queue_height = <<>> /\ queue_now = <<>> /\ queue_postcheck = <<>> /\ queue_checks = <<>> /\ queue_applied = <<>> /\ queue_again = <<>>
  /\ IF focus = "pool" THEN Pool!MempoolInit ELSE pool_store = <<>> /\ pool_index = <<>> /\ pool_gossip = <<>> /\ pool_size_bytes = <<>> /\ pool_cache = <<>> /\ pool_reaping = <<>> /\ pool_flushing = <<>> /\ pool_notified = <<>> /\ pool_available = <<>> /\ pool_block = <<>> /\ pool_clock = <<>> /\ pool_inserts = <<>> /\ pool_reaps = <<>> /\ pool_undefined = <<>> /\ pool_shared = <<>>
  /\ IF focus = "tree" THEN Tree!TreeInit ELSE tree_nodes = <<>> /\ tree_stale = <<>> /\ tree_roots = <<>> /\ tree_contents = <<>> /\ tree_least = <<>> /\ tree_purges = <<>> /\ tree_ok = <<>>
  /\ IF focus = "sess" THEN Sess!Init ELSE sess_parent = <<>> /\ sess_cache = <<>> /\ sess_it = <<>> /\ sess_view = <<>> /\ sess_last = <<>> /\ sess_rounds = <<>>
  /\ IF focus = "stack" THEN Stack!Init ELSE stack_head = <<>> /\ stack_sessions = <<>> /\ stack_revision = <<>> /\ stack_file = <<>> /\ stack_open = <<>> /\ stack_snapshots = <<>>
  /\ IF focus = "kv" THEN Kv!Init ELSE kv_db = <<>> /\ kv_cache = <<>> /\ kv_segments = <<>> /\ kv_state = <<>> /\ kv_disk = <<>> /\ kv_pushed = <<>> /\ kv_on_disk = <<>> /\ kv_it = <<>> /\ kv_moved = <<>>
  /\ IF focus = "view" THEN View!Init ELSE view_db = <<>> /\ view_cache = <<>> /\ view_segments = <<>> /\ view_state = <<>> /\ view_disk = <<>> /\ view_pushed = <<>> /\ view_on_disk = <<>> /\ view_it = <<>> /\ view_moved = <<>>
  /\ IF focus \in {"rlp", "scale", "bcs"} THEN Codec!Init ELSE codec_stream = <<>> /\ codec_unread = <<>> /\ codec_read = <<>>

AbciMoves == focus = "abci" /\ Abci!AbciNext /\ UNCHANGED <<evVars, queueVars, poolVars, treeVars, sessVars, stackVars, kvVars, viewVars, codecVars, focus>>
EvidenceMoves == focus = "ev" /\ Evidence!Next /\ UNCHANGED <<abciVars, queueVars, poolVars, treeVars, sessVars, stackVars, kvVars, viewVars, codecVars, focus>>
QueueMoves == focus = "queue" /\ Queue!PoolNext /\ UNCHANGED <<abciVars, evVars, poolVars, treeVars, sessVars, stackVars, kvVars, viewVars, codecVars, focus>>
PoolMoves == focus = "pool" /\ Pool!MempoolNext /\ UNCHANGED <<abciVars, evVars, queueVars, treeVars, sessVars, stackVars, kvVars, viewVars, codecVars, focus>>
TreeMoves == focus = "tree" /\ Tree!TreeNext /\ UNCHANGED <<abciVars, evVars, queueVars, poolVars, sessVars, stackVars, kvVars, viewVars, codecVars, focus>>
SessMoves == focus = "sess" /\ Sess!Next /\ UNCHANGED <<abciVars, evVars, queueVars, poolVars, treeVars, stackVars, kvVars, viewVars, codecVars, focus>>
StackMoves == focus = "stack" /\ Stack!Next /\ UNCHANGED <<abciVars, evVars, queueVars, poolVars, treeVars, sessVars, kvVars, viewVars, codecVars, focus>>
KvMoves == focus = "kv" /\ Kv!UndoNext /\ UNCHANGED <<abciVars, evVars, queueVars, poolVars, treeVars, sessVars, stackVars, viewVars, codecVars, focus>>
ViewMoves == focus = "view" /\ View!ViewNext /\ UNCHANGED <<abciVars, evVars, queueVars, poolVars, treeVars, sessVars, stackVars, kvVars, codecVars, focus>>
RlpMoves == focus = "rlp" /\ Codec!RlpNext /\ UNCHANGED <<abciVars, evVars, queueVars, poolVars, treeVars, sessVars, stackVars, kvVars, viewVars, focus>>
ScaleMoves == focus = "scale" /\ Codec!ScaleNext /\ UNCHANGED <<abciVars, evVars, queueVars, poolVars, treeVars, sessVars, stackVars, kvVars, viewVars, focus>>
BcsMoves == focus = "bcs" /\ Codec!BcsNext /\ UNCHANGED <<abciVars, evVars, queueVars, poolVars, treeVars, sessVars, stackVars, kvVars, viewVars, focus>>

Next == AbciMoves \/ EvidenceMoves \/ QueueMoves \/ PoolMoves \/ TreeMoves \/ SessMoves \/ StackMoves \/ KvMoves \/ ViewMoves \/ RlpMoves \/ ScaleMoves \/ BcsMoves

(* What goes to and comes from the application, and what is kept for it    *)
AppSpec ==
  /\ InitWith({"abci", "ev", "queue"}) /\ [][Next]_allVars
  /\ focus = "abci" => Abci!AbciFairness

DataSpec ==
  /\ InitWith({"pool", "tree", "sess", "stack", "kv", "view", "rlp", "scale", "bcs"})
  /\ [][Next]_allVars

-----------------------------------------------------------------------------
(* A request is given its own response, flush_sync returns after the       *)
(* response before it, and no response is unexpected (AbciClient).         *)
OwnResponse == Abci!OwnResponse /\ Abci!FlushedIsAnswered /\ Abci!NeverUnexpected


(* No evidence is pending and committed at once, what is gossiped is       *)
(* pending, and only evidence that verifies gets into a block, and once    *)
(* (EvidencePool).                                                         *)
EvidenceIsUsedOnce ==
  focus = "ev" => /\ Evidence!TypeOK /\ Evidence!NotPendingOnceCommitted
                  /\ Evidence!GossipsWhatIsPending /\ Evidence!CommittedIfVerified



(* A root hash depends on the map alone, every readable version reads      *)
(* back, proofs are right, the stale node index is exact, the leaves are   *)
(* counted, and no check of the tree's code fails (JellyfishTree).         *)
RootIsCanonical ==
  focus = "tree" => /\ Tree!RootIsCanonical /\ Tree!ReadsBack /\ Tree!ProofsAreRight
                    /\ Tree!StoreIsExact /\ Tree!CountsAreRight /\ Tree!ChecksHold



(* RLP, SCALE and BCS values are read back (Codecs).                       *)
ValuesReadBack ==
  /\ focus = "rlp" => Codec!RlpReadsBack
  /\ focus = "scale" => Codec!ScaleReadsBack
  /\ focus = "bcs" => Codec!BcsReadsBack

==============================================================================
