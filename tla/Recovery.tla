------------------------------- MODULE Recovery -------------------------------
(***************************************************************************)
(* What a node leaves on disk while it runs, and how it starts again from  *)
(* that: finalize_commit, on_start and load_wal_file of consensus_state,   *)
(* catchup_replay and repair_wal_file, and the checks of handshaker.       *)
(*                                                                         *)
(*   wal     the write-ahead log                                           *)
(*   store   block_store::height()                                         *)
(*   saved   last_block_height of the state in state_store                 *)
(*   flushed how many of the writes to these two RocksDB has on disk       *)
(*   height  rs.height of the running process                              *)
(*   phase   what the process is doing; down when there is none            *)
(*   spare   the head file set aside as .CORRUPTED while it is repaired    *)
(*   kills   how often the process was killed                              *)
(*   lost    a kill lost writes of the database                            *)
(***************************************************************************)
EXTENDS Integers, Sequences, FiniteSets, FiniteSetsExt, SequencesExt

-----------------------------------------------------------------------------
(***************************************************************************)
(* The write-ahead log of consensus_state (consensus/wal.h, wal.cpp).      *)
(*                                                                         *)
(* A log is a record:                                                      *)
(*   rolled  the rolled files that exist, by index                         *)
(*   head    the records of the head file, the last of which may still be  *)
(*           in the buffer of the open file                                *)
(*   synced  how many records of head are on disk for sure                 *)
(*   max     max_index and current_index, the index head will be rolled to *)
(*   min     min_index                                                     *)
(* A record is an #ENDHEIGHT marker or a message of a height; a Torn       *)
(* record is one of which a crash left only the first bytes.               *)
(***************************************************************************)
CONSTANTS RotateSize, NumFile

EndHeight(h) == [kind |-> "end", height |-> h]
Message(h) == [kind |-> "msg", height |-> h]
TornRecord == [kind |-> "torn", height |-> 0]

(* load_min_max_index: the indices come from the names of the files.       *)
MinMaxIndex(rolled) ==
  IF DOMAIN rolled = {} THEN [min |-> 0, max |-> 0]
  ELSE [min |-> Min(DOMAIN rolled), max |-> Max(DOMAIN rolled) + 1]

(* wal_file_manager's constructor.                                         *)
OpenLog(rolled, head) ==
  [rolled |-> rolled, head |-> head, synced |-> Len(head),
   max |-> MinMaxIndex(rolled).max, min |-> MinMaxIndex(rolled).min]

(* wal_encoder::flush_and_sync *)
FlushAndSync(w) == [w EXCEPT !.synced = Len(w.head)]

(* need_rotate *)
NeedRotate(w) == Len(w.head) >= RotateSize

(* rotate: flush, drop the oldest file when there are too many, rename the *)
(* head file and open a new one.                                           *)
Rotate(w) ==
  LET full == w.max - w.min >= NumFile
      kept == IF full THEN DOMAIN w.rolled \ {w.min} ELSE DOMAIN w.rolled
  IN [rolled |-> [i \in kept \cup {w.max} |-> IF i = w.max THEN w.head ELSE w.rolled[i]],
      head |-> <<>>,
      synced |-> 0,
      max |-> w.max + 1,
      min |-> IF full THEN w.min + 1 ELSE w.min]

(* base_wal::write and write_sync *)
Write(w, rec) ==
  LET u == IF NeedRotate(w) THEN Rotate(w) ELSE w
  IN [u EXCEPT !.head = Append(u.head, rec)]

(* Variant: the record stays in the buffer.                                *)
WriteSyncLater(w, rec) == Write(w, rec)

WriteSync(w, rec) == FlushAndSync(Write(w, rec))

(* wal_decoder::decode, up to what ends the file for a reader: what comes  *)
(* after the first bytes of a torn record is read at the wrong offset.     *)
Readable(file) ==
  LET torn == {i \in DOMAIN file : file[i].kind = "torn"}
  IN IF torn = {} THEN file ELSE SubSeq(file, 1, Min(torn) - 1)

File(w, i) == IF i = w.max THEN w.head ELSE w.rolled[i]

Indices(w) == DOMAIN w.rolled \cup {w.max}

Markers(file) == {r.height : r \in {x \in ToSet(Readable(file)) : x.kind = "end"}}

(* The last marker a reader of the file has met.                           *)
LastMarker(file) ==
  LET f == Readable(file) IN f[Max({i \in DOMAIN f : f[i].kind = "end"})].height

(* search_for_end_height: last_height_found after file i, coming from the  *)
(* newest file; a file without a marker leaves it as it was.               *)
LastHeightFound(w, i) ==
  LET marked == {j \in Indices(w) : j >= i /\ Markers(File(w, j)) # {}}
  IN IF marked = {} THEN -1 ELSE LastMarker(File(w, Min(marked)))

(* search_for_end_height gives up after file i.                            *)
GivesUpAfter(w, i, h) == LastHeightFound(w, i) > 0 /\ h > LastHeightFound(w, i)

(* search_for_end_height: the files where the search would stop with a     *)
(* marker of h; it stops in the newest of them.                            *)
FoundIn(w, h) ==
  {i \in Indices(w) :
     h \in Markers(File(w, i)) /\ \A j \in Indices(w) : j > i => ~GivesUpAfter(w, j, h)}

Found(w, h) == FoundIn(w, h) # {}

(* catchup_replay reads on from the marker to the end of that file.        *)
Replayed(w, h) ==
  LET f == Readable(File(w, Max(FoundIn(w, h))))
      p == Min({i \in DOMAIN f : f[i] = EndHeight(h)})
  IN SubSeq(f, p + 1, Len(f))

(* The head file after a crash: what was synced, any part of what was in   *)
(* the buffer, and possibly the first bytes of the next record.            *)
CrashedHeads(w) ==
  {SubSeq(w.head, 1, k) : k \in w.synced .. Len(w.head)} \cup
  {Append(SubSeq(w.head, 1, k), TornRecord) : k \in w.synced .. Len(w.head) - 1}

-----------------------------------------------------------------------------
CONSTANTS MaxHeight, MaxKills, MaxFiles

VARIABLES wal, store, saved, flushed, height, phase, spare, kills, lost

vars == <<wal, store, saved, flushed, height, phase, spare, kills, lost>>

Init ==
  /\ wal = OpenLog(<<>>, <<>>)
  /\ store = 0
  /\ saved = 0
  /\ flushed = 0
  /\ height = 0
  /\ phase = "down"
  /\ spare = <<>>
  /\ kills = 0
  /\ lost = FALSE

-----------------------------------------------------------------------------
(* handshaker::replay_blocks: the block store may be one block ahead of    *)
(* the state, or the node does not start.                                  *)
HandshakeOK == store = 0 \/ (saved <= store /\ store <= saved + 1)

(* make_node: load_state_from_db_or_genesis, the handshake and new_state.  *)
MakeNode ==
  /\ phase = "down"
  /\ height' = saved + 1
  /\ phase' = IF HandshakeOK THEN "made" ELSE "halted"
  /\ UNCHANGED <<wal, store, saved, flushed, spare, kills, lost>>

(* on_start: load_wal_file and base_wal::on_start, which marks height 0 in *)
(* an empty head file.                                                     *)
OpenWal ==
  /\ phase = "made"
  /\ LET w == OpenLog(wal.rolled, wal.head)
     IN wal' = IF w.head = <<>> THEN WriteSync(w, EndHeight(0)) ELSE w
  /\ phase' = "catchup"
  /\ UNCHANGED <<store, saved, flushed, height, spare, kills, lost>>

(* catchup_replay: no marker of this height, one of the height before.     *)
CatchupOK(w, h) == ~Found(w, h) /\ Found(w, h - 1)

(* on_start, first time around the loop.                                   *)
Catchup ==
  /\ phase = "catchup"
  /\ phase' = IF CatchupOK(wal, height) THEN "running" ELSE "corrupted"
  /\ UNCHANGED <<wal, store, saved, flushed, height, spare, kills, lost>>

(* on_start: on_stop of the log, and the head file gets the name           *)
(* .CORRUPTED.                                                             *)
SetHeadAside ==
  /\ phase = "corrupted"
  /\ spare' = wal.head
  /\ wal' = [wal EXCEPT !.head = <<>>, !.synced = 0]
  /\ phase' = "repair"
  /\ UNCHANGED <<store, saved, flushed, height, kills, lost>>

(* on_start: repair_wal_file copies the head up to the first error, and    *)
(* load_wal_file opens the log again; then the second time around the      *)
(* loop, after which the node gives up.                                    *)
RepairWal ==
  /\ phase = "repair"
  /\ wal' = OpenLog(wal.rolled, Readable(spare))
  /\ spare' = <<>>
  /\ phase' = IF CatchupOK(wal', height) THEN "running" ELSE "halted"
  /\ UNCHANGED <<store, saved, flushed, height, kills, lost>>

-----------------------------------------------------------------------------
(* receive_routine: every message is synced before it is handled.          *)
LogMessage ==
  /\ phase \in {"running", "stuck"}
  /\ wal.max < MaxFiles
  /\ wal' = WriteSync(wal, Message(height))
  /\ UNCHANGED <<store, saved, flushed, height, phase, spare, kills, lost>>

(* tock and new_step: timeouts and steps stay in the buffer.               *)
LogStep ==
  /\ phase \in {"running", "stuck"}
  /\ wal.max < MaxFiles
  /\ wal' = Write(wal, Message(height))
  /\ UNCHANGED <<store, saved, flushed, height, phase, spare, kills, lost>>

(* process_flush_ticks, and sign_vote before it signs.                     *)
FlushTick ==
  /\ phase \in {"running", "saving", "ended", "stuck"}
  /\ wal' = FlushAndSync(wal)
  /\ UNCHANGED <<store, saved, flushed, height, phase, spare, kills, lost>>

(* finalize_commit: save the block ...                                     *)
SaveBlock ==
  /\ phase = "running"
  /\ height <= MaxHeight
  /\ store' = IF store < height THEN height ELSE store
  /\ phase' = "saving"
  /\ UNCHANGED <<wal, saved, flushed, height, spare, kills, lost>>

(* ... write the end of the height to the log ...                          *)
WriteEndHeight ==
  /\ phase = "saving"
  /\ wal' = WriteSync(wal, EndHeight(height))
  /\ phase' = "ended"
  /\ UNCHANGED <<store, saved, flushed, height, spare, kills, lost>>

(* ... and apply the block, which saves the state; update_to_state goes to *)
(* the next height.                                                        *)
ApplyBlock ==
  /\ phase = "ended"
  /\ saved' = height
  /\ height' = height + 1
  /\ wal' = Write(wal, Message(height + 1))
  /\ phase' = "running"
  /\ UNCHANGED <<store, flushed, spare, kills, lost>>

(* apply_block has no result: finalize_commit returns, and the height is   *)
(* never left.                                                             *)
ApplyFails ==
  /\ phase = "ended"
  /\ phase' = "stuck"
  /\ UNCHANGED <<wal, store, saved, flushed, height, spare, kills, lost>>

(* The writes to the database, in order: block 1, state 1, block 2, ...    *)
Writes == store + saved

(* RocksDB writes its memtable to disk in the background.                  *)
FlushMemtable ==
  /\ phase # "down" /\ flushed < Writes
  /\ flushed' = Writes
  /\ UNCHANGED <<wal, store, saved, height, phase, spare, kills, lost>>

(* The process is killed.  The stores turn the log of RocksDB off          *)
(* (disableWAL), so that the writes since the last flush may be lost.      *)
Kill ==
  /\ phase # "down"
  /\ kills < MaxKills
  /\ kills' = kills + 1
  /\ \E head \in CrashedHeads(wal) : wal' = OpenLog(wal.rolled, head)
  /\ \E n \in flushed..Writes :
       /\ store' = (n + 1) \div 2 /\ saved' = n \div 2
       /\ flushed' = n
       /\ lost' = (lost \/ n < Writes)
  /\ phase' = "down"
  /\ height' = 0
  /\ spare' = <<>>

Next ==
  \/ MakeNode \/ OpenWal \/ Catchup \/ SetHeadAside \/ RepairWal
  \/ LogMessage \/ LogStep \/ FlushTick
  \/ SaveBlock \/ WriteEndHeight \/ ApplyBlock \/ ApplyFails
  \/ FlushMemtable \/ Kill

Spec == Init /\ [][Next]_vars

-----------------------------------------------------------------------------
AllRecords == UNION {ToSet(File(wal, i)) : i \in Indices(wal)}

TypeOK ==
  /\ AllRecords \subseteq [kind: {"end", "msg", "torn"}, height: 0 .. MaxHeight + 1]
  /\ wal.synced \in 0 .. Len(wal.head)
  /\ wal.min <= wal.max /\ DOMAIN wal.rolled = wal.min .. wal.max - 1
  /\ flushed \in 0 .. Writes
  /\ store \in 0 .. MaxHeight /\ saved \in 0 .. MaxHeight /\ height \in 0 .. MaxHeight + 1
  /\ phase \in {"down", "made", "catchup", "corrupted", "repair", "running", "saving", "ended", "stuck", "halted"}

(* Whenever the process is killed, the block store is where the saved      *)
(* state is or one block ahead: the checks of replay_blocks in             *)
(* consensus_state.h:306-309 never stop a node.                            *)
StoreAndStateAgree == saved <= store /\ store <= saved + 1

(* As long as the database lost no write, an #ENDHEIGHT in the log,         *)
(* readable or not, is one of a block the store has: finalize_commit saves *)
(* the block first (consensus_state.cpp:978-1003).                         *)
EndHeightAfterBlock ==
  ~lost => \A r \in AllRecords : r.kind = "end" => r.height <= store

(* No height above 0 has two readable #ENDHEIGHT markers, over all         *)
(* restarts: what catchup_replay checks before it lets the node run        *)
(* (replay.cpp:27-38).  A database that lost its last writes is decided    *)
(* again from an earlier height, and marks it twice.                       *)
EndedOnce ==
  ~lost => \A h \in 1 .. MaxHeight, i, j \in Indices(wal) :
    LET f == Readable(File(wal, i))
        g == Readable(File(wal, j))
    IN \A p \in DOMAIN f, q \in DOMAIN g :
         f[p] = EndHeight(h) /\ g[q] = EndHeight(h) => i = j /\ p = q

(* search_for_end_height finds every readable marker of every file: giving *)
(* up early (wal.h:417) loses none, although an empty head file is marked  *)
(* with height 0 at any height.                                            *)
SearchFindsMarkers ==
  ~lost => \A h \in 0 .. MaxHeight :
    (\E i \in Indices(wal) : h \in Markers(File(wal, i))) => Found(wal, h)

(* catchup_replay applies only records of the height the node is at.       *)
ReplaysThisHeight ==
  phase = "catchup" /\ CatchupOK(wal, height) =>
    \A r \in ToSet(Replayed(wal, height - 1)) : r.kind = "msg" /\ r.height = height

(* A node killed once, at any point but the one between #ENDHEIGHT and the *)
(* saved state, finds its place in the log when it is started again, as    *)
(* long as no file of the log was dropped.                                 *)
FirstRestartSucceeds ==
  phase = "catchup" /\ kills <= 1 /\ wal.min = 0 /\ ~Found(wal, height) => CatchupOK(wal, height)
==============================================================================
