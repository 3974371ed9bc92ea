---------------------------- MODULE BlockExecutor ----------------------------
(***************************************************************************)
(* The storage side of a node: block_executor::apply_block                 *)
(* (consensus/block_executor.h) as it is called by finalize_commit, with   *)
(* the block store and the state store it writes and the application it    *)
(* drives.  Each write to the database is a step of its own, so that the   *)
(* process may be killed between any two of them; what a node loads when   *)
(* it starts again is what the stores then hold.  The loss of the last     *)
(* writes of the database is not a case of its own here: the database then *)
(* is one that an earlier state of the same behaviour had.                 *)
(***************************************************************************)
EXTENDS Integers, FiniteSets, FiniteSetsExt, Functions, TLC

-----------------------------------------------------------------------------
(***************************************************************************)
(* block_store (consensus/store/block_store.h).  A block is the height it  *)
(* was decided for; the store is a record:                                 *)
(*   metas    the heights with a block meta                                *)
(*   parts    the heights with their block parts                           *)
(*   commits  the heights h with the commit that block h + 1 carries       *)
(*   seen     the height of the seen commit, 0 when there is none          *)
(*   hashes   the heights found by the hash of their block                 *)
(* All calls go to one RocksDB session, where a write is visible at once   *)
(* and commit() does nothing.                                              *)
(***************************************************************************)
EmptyBlockStore == [metas |-> {}, parts |-> {}, commits |-> {}, seen |-> 0, hashes |-> {}]

(* base and height: the first and the last key with a block meta.          *)
Base(bs) == IF bs.metas = {} THEN 0 ELSE Min(bs.metas)
Height(bs) == IF bs.metas = {} THEN 0 ELSE Max(bs.metas)

(* load_block: the meta and all its parts.                                 *)
LoadBlock(bs, h) == h \in bs.metas /\ h \in bs.parts

(* load_block_by_hash goes by way of the height.                           *)
LoadBlockByHash(bs, h) == h \in bs.hashes /\ LoadBlock(bs, h)

(* The check of save_block: only the next height is taken.                 *)
Contiguous(bs, h) == Base(bs) = 0 \/ h = Height(bs) + 1

(* save_block: one batch with the parts, the meta, the hash, the commit of *)
(* the block before and the seen commit.                                   *)
SaveBlock(bs, h) ==
  [metas |-> bs.metas \cup {h},
   parts |-> bs.parts \cup {h},
   commits |-> bs.commits \cup {h - 1},
   seen |-> h,
   hashes |-> bs.hashes \cup {h}]

(* prune_blocks: prune_range deletes one key after the other, first the    *)
(* metas below retain, then the parts, then the commits.  The hook of the  *)
(* first pass erases the hash under the prefix of the metas, where it is   *)
(* not: hashes keeps it.                                                   *)
PruneStep(bs, retain) ==
  LET Below(S) == {h \in S : h < retain}
  IN IF Below(bs.metas) # {} THEN [bs EXCEPT !.metas = @ \ {Min(Below(bs.metas))}]
     ELSE IF Below(bs.parts) # {} THEN [bs EXCEPT !.parts = @ \ {Min(Below(bs.parts))}]
     ELSE [bs EXCEPT !.commits = @ \ Below(bs.commits)]

(* The three passes are over.                                              *)
Pruned(bs, retain) == \A h \in bs.metas \cup bs.parts \cup bs.commits : h >= retain

-----------------------------------------------------------------------------
(***************************************************************************)
(* db_store (consensus/store/state_store.h), in the same database as the   *)
(* block store.  A validator set is the number of its version and of the   *)
(* turns its proposer priorities were advanced; the consensus parameters   *)
(* are the number of their version.  The store is a record:                *)
(*   vals    the ValidatorsInfo by height: last_height_changed, and the    *)
(*           set or NotStored                                              *)
(*   params  the consensus_params_info by height, likewise                 *)
(*   abci    the heights with ABCI responses                               *)
(*   state   the state, or NotStored                                       *)
(*   wiped   a pruning deleted everything, see PruneRange                  *)
(***************************************************************************)
CONSTANTS NotStored, CheckpointInterval, InitialHeight

EmptyStateStore ==
  [vals |-> [h \in {} |-> 0], params |-> [h \in {} |-> 0], abci |-> {}, state |-> NotStored, wiped |-> FALSE]

Put(f, h, v) == [x \in DOMAIN f \cup {h} |-> IF x = h THEN v ELSE f[x]]

(* save_validators_info: the set itself only where it changed, and at the  *)
(* checkpoints.                                                            *)
ValidatorsInfo(h, changed, set) ==
  [changed |-> changed, set |-> IF h = changed \/ h % CheckpointInterval = 0 THEN set ELSE NotStored]

(* save_consensus_params_info *)
ParamsInfo(h, changed, params) ==
  [changed |-> changed, params |-> IF h = changed THEN params ELSE NotStored]

NextHeight(st) == IF st.last + 1 = 1 THEN InitialHeight ELSE st.last + 1


(* save_internal: one batch.  The next validators are those of the height  *)
(* after the next.                                                         *)
SaveState(ss, st) ==
  LET next == NextHeight(st)
      vals0 == IF st.last = 0 THEN Put(ss.vals, next, ValidatorsInfo(next, next, st.vals)) ELSE ss.vals
  IN [ss EXCEPT !.vals = Put(vals0, next + 1, ValidatorsInfo(next + 1, st.vals_changed, st.next_vals)),
                !.params = Put(ss.params, next, ParamsInfo(next, st.params_changed, st.params)),
                !.state = st]

(* last_stored_height_for *)
LastStoredHeightFor(h, changed) == Max({h - (h % CheckpointInterval), changed})

(* load_validators; the priorities are advanced from the last change, not  *)
(* from the checkpoint the set was read at.                                *)
LoadValidators(ss, h) ==
  IF h \notin DOMAIN ss.vals THEN NotStored
  ELSE IF ss.vals[h].set # NotStored THEN ss.vals[h].set
  ELSE LET stored == LastStoredHeightFor(h, ss.vals[h].changed)
       IN IF stored \notin DOMAIN ss.vals \/ ss.vals[stored].set = NotStored THEN NotStored
          ELSE [version |-> ss.vals[stored].set.version,
                turns |-> ss.vals[stored].set.turns + (h - ss.vals[stored].changed)]

(* load_consensus_params *)
LoadConsensusParams(ss, h) ==
  IF h \notin DOMAIN ss.params THEN NotStored
  ELSE IF ss.params[h].params # NotStored THEN ss.params[h].params
  ELSE LET changed == ss.params[h].changed
       IN IF changed \in DOMAIN ss.params THEN ss.params[changed].params ELSE NotStored

(* prune_range and reverse_batch_delete delete backwards from the key      *)
(* before `to` until they meet the first key at or after `from`.  With no  *)
(* key between the two they start below that key: they run down to the     *)
(* first key of the database, go on from its last key, and stop when all   *)
(* is deleted.                                                             *)
EmptyRange(keys, from, to) == from # to /\ \A h \in keys : ~(from <= h /\ h < to)

Keys(keys, from, to) == {h \in keys : ~(from <= h /\ h < to)}

(* prune_consensus_param *)
PruneParams(ss, retain) ==
  LET here == ss.params[retain]
      at == IF here.params = NotStored THEN here.changed ELSE retain
      ks == IF here.params = NotStored THEN Keys(DOMAIN ss.params, at + 1, retain) ELSE DOMAIN ss.params
      changed == ss.params[at].changed
  IN IF retain \notin DOMAIN ss.params \/ at \notin DOMAIN ss.params \/ ss.params[at].params = NotStored THEN ss
     ELSE [ss EXCEPT !.params = Restrict(ss.params, Keys(ks, 1, changed)),
                     !.wiped = \/ here.params = NotStored /\ EmptyRange(DOMAIN ss.params, at + 1, retain)
                               \/ EmptyRange(ks, 1, changed)]

(* prune_validator_sets *)
PruneValidators(ss, retain) ==
  LET here == ss.vals[retain]
      at == LastStoredHeightFor(retain, here.changed)
      inner == here.set = NotStored /\ at < retain
      ks == IF inner THEN Keys(DOMAIN ss.vals, at + 1, retain) ELSE DOMAIN ss.vals
  IN IF retain \notin DOMAIN ss.vals \/ at \notin DOMAIN ss.vals \/ ss.vals[at].set = NotStored THEN ss
     ELSE [ss EXCEPT !.vals = Restrict(ss.vals, Keys(ks, 1, at)),
                     !.wiped = \/ @
                               \/ inner /\ EmptyRange(DOMAIN ss.vals, at + 1, retain)
                               \/ EmptyRange(ks, 1, at)]

(* prune_abci_response *)
PruneResponses(ss, retain) ==
  [ss EXCEPT !.abci = Keys(@, 1, retain), !.wiped = @ \/ EmptyRange(ss.abci, 1, retain)]

(* prune_states *)
PruneStates(ss, retain) ==
  LET s == PruneResponses(PruneValidators(PruneParams(ss, retain), retain), retain)
  IN IF s.wiped THEN [EmptyStateStore EXCEPT !.wiped = TRUE] ELSE s

-----------------------------------------------------------------------------
CONSTANTS MaxHeight,     \* heights are decided up to this bound
          MaxVersion,    \* changes of the validators and of the parameters
          AppHashes      \* the hashes the application may answer with

VARIABLES bs, ss,        \* the stores
          state,         \* local_state, the state in memory
          cache,         \* the blocks validate_block has accepted
          block,         \* the block that is applied
          next_state,    \* new_state_ of apply_block
          phase,         \* where finalize_commit and apply_block are
          retain,        \* the retain height the application asked for
          force          \* the validator set of every height (history)

vars == <<bs, ss, state, cache, block, next_state, phase, retain, force>>

Set(v, t) == [version |-> v, turns |-> t]

(* make_genesis_state *)
GenesisState ==
  [last |-> 0, vals |-> Set(0, 0), next_vals |-> Set(0, 1), last_vals |-> Set(0, 0),
   vals_changed |-> InitialHeight, params |-> 0, params_changed |-> InitialHeight, app |-> 0]

(* The fields of a header that the checks look at.                         *)
Blocks == [height : 1..MaxHeight + 1, app : AppHashes, params : 0..MaxVersion]

IdleBlock == [height |-> 0, app |-> 0, params |-> 0]

Init ==
  /\ bs = EmptyBlockStore
  /\ ss = SaveState(EmptyStateStore, GenesisState)
  /\ state = GenesisState
  /\ cache = {}
  /\ block = IdleBlock
  /\ next_state = GenesisState
  /\ phase = "idle"
  /\ retain = 0
  /\ force = (InitialHeight :> Set(0, 0)) @@ (InitialHeight + 1 :> Set(0, 1))

(* The checks of validate_block that are active.                           *)
ValidFor(st, b) ==
  /\ IF st.last = 0 THEN b.height = InitialHeight ELSE b.height = st.last + 1
  /\ b.app = st.app
  /\ b.params = st.params

(* validate_block, called for a proposal.                                  *)
ValidateBlock(b) ==
  /\ phase = "idle" /\ b \notin cache
  /\ ValidFor(state, b)
  /\ cache' = cache \cup {b}
  /\ UNCHANGED <<bs, ss, state, block, next_state, phase, retain, force>>

(* finalize_commit saves the decided block, once.  save_block refuses a    *)
(* height that is not the next one, and the process ends.                  *)
StoreBlock(b) ==
  /\ phase = "idle" /\ b.height = NextHeight(state) /\ b.height <= MaxHeight
  /\ ValidFor(state, b)
  /\ IF Height(bs) >= b.height
     THEN UNCHANGED bs /\ phase' = "stored"
     ELSE IF Contiguous(bs, b.height)
     THEN bs' = SaveBlock(bs, b.height) /\ phase' = "stored"
     ELSE UNCHANGED bs /\ phase' = "panic"
  /\ block' = b
  /\ UNCHANGED <<ss, state, cache, next_state, retain, force>>

(* get_begin_block_validator_info needs the validators of the height       *)
(* before, as many as the commit has signatures.                           *)
CommitInfo(h) ==
  h > InitialHeight =>
    /\ LoadValidators(ss, h - 1) # NotStored
    /\ LoadValidators(ss, h - 1).version = state.last_vals.version

(* exec_block_on_proxy_app and save_abci_responses.                        *)
Execute ==
  /\ phase = "stored"
  /\ IF CommitInfo(block.height)
     THEN /\ ss' = [ss EXCEPT !.abci = @ \cup {block.height}]
          /\ cache' = cache \cup {block}
          /\ phase' = "executed"
     ELSE UNCHANGED <<ss, cache>> /\ phase' = "panic"
  /\ UNCHANGED <<bs, state, block, next_state, retain, force>>

(* The application answered with an update that validate_validator_update  *)
(* or validate_consensus_params refuses: apply_block gives up, and         *)
(* finalize_commit returns.                                                *)
RefuseUpdates ==
  /\ phase = "executed"
  /\ phase' = "failed"
  /\ UNCHANGED <<bs, ss, state, cache, block, next_state, retain, force>>

(* update_state.  The height of the last change of the parameters starts   *)
(* from that of the validators.                                            *)
Updated(st, h, vals_change, params_change) ==
  [last |-> h,
   vals |-> st.next_vals,
   next_vals |-> IF vals_change THEN Set(st.next_vals.version + 1, 1)
                 ELSE Set(st.next_vals.version, st.next_vals.turns + 1),
   last_vals |-> st.vals,
   vals_changed |-> IF vals_change THEN h + 2 ELSE st.vals_changed,
   params |-> IF params_change THEN st.params + 1 ELSE st.params,
   params_changed |-> IF params_change THEN h + 1 ELSE st.vals_changed,
   app |-> 0]

(* update_state and the commit of the application.                         *)
CommitApp ==
  /\ phase = "executed"
  /\ \E vals_change, params_change \in BOOLEAN, app \in AppHashes, r \in 0..block.height :
       /\ vals_change => state.next_vals.version < MaxVersion
       /\ params_change => state.params < MaxVersion
       /\ next_state' = [Updated(state, block.height, vals_change, params_change) EXCEPT !.app = app]
       /\ retain' = r
  /\ phase' = "committed"
  /\ UNCHANGED <<bs, ss, state, cache, block, force>>

(* db_store::save *)
SaveNextState ==
  /\ phase = "committed"
  /\ ss' = SaveState(ss, next_state)
  /\ force' = Put(force, block.height + 2, next_state.next_vals)
  /\ phase' = IF retain > 0 /\ retain > Base(bs) THEN "pruning" ELSE "saved"
  /\ UNCHANGED <<bs, state, cache, block, next_state, retain>>

(* prune_blocks: first the block store, then the state store; a pruning    *)
(* that runs out of its range takes the block store with it.               *)
Prune ==
  /\ phase = "pruning"
  /\ IF ~Pruned(bs, retain)
     THEN bs' = PruneStep(bs, retain) /\ UNCHANGED <<ss, phase>>
     ELSE /\ ss' = PruneStates(ss, retain)
          /\ bs' = IF ss'.wiped THEN EmptyBlockStore ELSE bs
          /\ phase' = "saved"
  /\ UNCHANGED <<state, cache, block, next_state, retain, force>>

(* The end of apply_block and update_to_state.                             *)
Finish ==
  /\ phase = "saved"
  /\ cache' = {}
  /\ state' = next_state
  /\ phase' = "idle"
  /\ block' = IdleBlock
  /\ UNCHANGED <<bs, ss, next_state, retain, force>>

(* load_state_from_db_or_genesis *)
LoadState == IF ss.state = NotStored THEN GenesisState ELSE ss.state

(* reconstruct_last_commit finds the seen commit of the last block, or the *)
(* commit that the next block carried.                                     *)
HasLastCommit ==
  LoadState.last > 0 => bs.seen = LoadState.last \/ LoadState.last \in bs.commits

(* The process is killed and starts again.  Past the end marker of the     *)
(* height (phases after "stored") catch-up replay refuses, and the         *)
(* consensus of the node does not start: see Recovery.                     *)
Restart ==
  /\ phase \notin {"idle", "panic", "halted"}
  /\ cache' = {}
  /\ block' = IdleBlock
  /\ IF phase = "stored"
     THEN state' = LoadState /\ phase' = IF HasLastCommit THEN "idle" ELSE "panic"
     ELSE UNCHANGED state /\ phase' = "halted"
  /\ UNCHANGED <<bs, ss, next_state, retain, force>>

Next ==
  \/ \E b \in Blocks : ValidateBlock(b) \/ StoreBlock(b)
  \/ Execute
  \/ RefuseUpdates
  \/ CommitApp
  \/ SaveNextState
  \/ Prune
  \/ Finish
  \/ Restart

Spec == Init /\ [][Next]_vars

-------------------------------------------------------------------------------

TypeOK ==
  /\ bs.metas \cup bs.parts \cup bs.hashes \subseteq 1..MaxHeight
  /\ bs.commits \subseteq 0..MaxHeight /\ bs.seen \in 0..MaxHeight
  /\ state.last \in 0..MaxHeight
  /\ cache \subseteq Blocks /\ block \in Blocks \cup {IdleBlock}
  /\ phase \in {"idle", "stored", "executed", "failed", "committed", "pruning", "saved", "panic", "halted"}
  /\ retain \in 0..MaxHeight

(* A block that base and height announce is complete, found by its height  *)
(* and by its hash, and its commit is there for the peers that ask for it: *)
(* at every moment, also between two deletions of prune_blocks and after a *)
(* kill (block_store.h).                                                   *)
BlocksComplete ==
  \A h \in Base(bs)..Height(bs) : h > 0 =>
    LoadBlockByHash(bs, h) /\ (h < Height(bs) => h \in bs.commits)

(* Once a pruning is over nothing below its retain height is left in the   *)
(* block store, not even of an earlier pruning that was cut short.         *)
PruningIsComplete ==
  phase = "saved" /\ retain > InitialHeight /\ Base(bs) >= retain =>
    \A h \in bs.metas \cup bs.parts \cup bs.commits : h >= Base(bs)

(* As long as no pruning wiped the database, the process can start from    *)
(* what it holds, whenever it is killed: the commit of the last height is  *)
(* found (reconstruct_last_commit), the next block is accepted by          *)
(* save_block, and the validators that BeginBlock reports are loaded.      *)
CanRestart ==
  ~ss.wiped =>
    /\ HasLastCommit
    /\ Height(bs) \in {LoadState.last, LoadState.last + 1}
    /\ phase # "panic"

(* load_validators gives, for every height from the base of the block      *)
(* store up to two above the last one, the set that was in force there,    *)
(* however often it changed and whatever was pruned; its priorities are    *)
(* those of that height where no checkpoint lies between.                  *)
ValidatorsRecoverable ==
  ~ss.wiped =>
    \A h \in DOMAIN force :
      /\ h >= IF Base(bs) = 0 THEN InitialHeight ELSE Base(bs)
      /\ ss.state # NotStored /\ h <= ss.state.last + 2
      => LET got == LoadValidators(ss, h)
             checkpoint == h - (h % CheckpointInterval)
         IN /\ got # NotStored
            /\ got.version = force[h].version
            /\ (h % CheckpointInterval = 0 \/ checkpoint <= ss.vals[h].changed) => got = force[h]

(* The verification cache never answers for a block that the state of the  *)
(* node would refuse (validate_block returns early on a hit).              *)
CacheIsFresh ==
  phase = "idle" => \A b \in cache : ValidFor(state, b)

(* "LoadConsensusParams loads the consensus params for a given height"     *)
(* (state_store.h:40): those of the next height are the state's.           *)
ParamsRecoverable ==
  ~ss.wiped /\ ss.state # NotStored => LoadConsensusParams(ss, NextHeight(ss.state)) = ss.state.params
==============================================================================
