-------------------------------- MODULE MCChain --------------------------------
(***************************************************************************)
(* The chain of a node, for TLC: blocks fetched from peers, the signer     *)
(* whose state file outlives the process, blocks applied to the state, the *)
(* log and the stores that a restart starts from, and the validator set.   *)
(* They share no state: each behaviour explores the component that its     *)
(* focus names.                                                            *)
(***************************************************************************)
EXTENDS BlockSync, PrivVal, Integers, Sequences, TLC

CONSTANTS NotStored

VARIABLES
  exec_bs, exec_ss, exec_state, exec_cache, exec_block, exec_next_state,
  exec_phase, exec_retain, exec_force,
  restart_wal, restart_store, restart_saved, restart_flushed,
  restart_height, restart_phase, restart_spare, restart_kills, restart_lost,
  vals_vals, vals_proposer, vals_total, vals_updates, vals_steps,
  focus                          \* the component that moves

(* What peers report of their chains                                       *)
WholeChain == {[base |-> 1, height |-> MaxHeight]}


Exec == INSTANCE BlockExecutor WITH
  CheckpointInterval <- 3, InitialHeight <- 1, MaxHeight <- 4,
  MaxVersion <- 1, AppHashes <- {0}, bs <- exec_bs, ss <- exec_ss,
  state <- exec_state, cache <- exec_cache, block <- exec_block,
  next_state <- exec_next_state, phase <- exec_phase,
  retain <- exec_retain, force <- exec_force

Restart == INSTANCE Recovery WITH
  RotateSize <- 3, NumFile <- 2, MaxHeight <- 2, MaxKills <- 2,
  MaxFiles <- 3, wal <- restart_wal, store <- restart_store,
  saved <- restart_saved, flushed <- restart_flushed,
  height <- restart_height, phase <- restart_phase,
  spare <- restart_spare, kills <- restart_kills, lost <- restart_lost

Vals == INSTANCE ValidatorSet WITH
  Addresses <- {1, 2, 3}, Powers <- {0, 1, 8}, MaxTotalVotingPower <- 16,
  MaxChanges <- 3, MaxUpdates <- 1, MaxSteps <- 9, vals <- vals_vals,
  proposer <- vals_proposer, total <- vals_total, updates <- vals_updates,
  steps <- vals_steps

execVars == <<exec_bs, exec_ss, exec_state, exec_cache, exec_block,
           exec_next_state, exec_phase, exec_retain, exec_force>>
restartVars == <<restart_wal, restart_store, restart_saved, restart_flushed,
           restart_height, restart_phase, restart_spare, restart_kills,
           restart_lost>>
valsVars == <<vals_vals, vals_proposer, vals_total, vals_updates, vals_steps>>
allVars == <<syncVars, signerVars, execVars, restartVars, valsVars, focus>>

-----------------------------------------------------------------------------
Init ==
  /\ focus \in {"sync", "signer", "exec", "restart", "vals"}
  /\ SyncInit
  /\ SignerInit
  /\ IF focus = "exec" THEN Exec!Init ELSE exec_bs = <<>> /\ exec_ss = <<>> /\ exec_state = <<>> /\ exec_cache = <<>> /\ exec_block = <<>> /\ exec_next_state = <<>> /\ exec_phase = <<>> /\ exec_retain = <<>> /\ exec_force = <<>>
  /\ IF focus = "restart" THEN Restart!Init ELSE restart_wal = <<>> /\ restart_store = <<>> /\ restart_saved = <<>> /\ restart_flushed = <<>> /\ restart_height = <<>> /\ restart_phase = <<>> /\ restart_spare = <<>> /\ restart_kills = <<>> /\ restart_lost = <<>>
  /\ IF focus = "vals" THEN Vals!ValSetInit ELSE vals_vals = <<>> /\ vals_proposer = <<>> /\ vals_total = <<>> /\ vals_updates = <<>> /\ vals_steps = <<>>

SyncMoves == focus = "sync" /\ SyncNext /\ UNCHANGED <<signerVars, execVars, restartVars, valsVars, focus>>
SignerMoves == focus = "signer" /\ SignerNext /\ UNCHANGED <<syncVars, execVars, restartVars, valsVars, focus>>
ExecMoves == focus = "exec" /\ Exec!Next /\ UNCHANGED <<syncVars, signerVars, restartVars, valsVars, focus>>
RestartMoves == focus = "restart" /\ Restart!Next /\ UNCHANGED <<syncVars, signerVars, execVars, valsVars, focus>>
ValsMoves == focus = "vals" /\ Vals!ValSetNext /\ UNCHANGED <<syncVars, signerVars, execVars, restartVars, focus>>

Next == SyncMoves \/ SignerMoves \/ ExecMoves \/ RestartMoves \/ ValsMoves

Spec == Init /\ [][Next]_allVars /\ (focus = "sync" => SyncFairness)

-----------------------------------------------------------------------------
(* A node that syncs gets to consensus in the end (BlockSync).             *)
NodeSwitches == focus = "sync" => SwitchesInTheEnd


(* "LoadConsensusParams loads the consensus params for a given height"     *)
(* (state_store.h:40): those of the next height are the state's            *)
(* (BlockExecutor).                                                        *)
ParamsRecoverable == focus = "exec" => Exec!ParamsRecoverable

(* The block store is level with the saved state or one ahead; a height    *)
(* has one #ENDHEIGHT, after its block, and the search finds it;           *)
(* catchup_replay applies records of its height only; and a node that was  *)
(* killed once finds its place in the log (Recovery).                      *)
RestartsWhereItStopped ==
  focus = "restart" =>
    /\ Restart!TypeOK /\ Restart!StoreAndStateAgree
    /\ Restart!EndHeightAfterBlock /\ Restart!EndedOnce /\ Restart!SearchFindsMarkers
    /\ Restart!ReplaysThisHeight /\ Restart!FirstRestartSucceeds

(* After any accepted changes the set is sound, a node that skips rounds   *)
(* agrees on the proposer with one that does not, and members propose as   *)
(* often as they have power (ValidatorSet).                                *)
ProposersAgree ==
  focus = "vals" => Vals!SetIsSound /\ Vals!SkippingAgrees /\ Vals!TurnsFollowPower

(* The priorities of the members stay within twice the total voting power  *)
(* (ValidatorSet).                                                         *)
PrioritiesInWindow == focus = "vals" => Vals!PrioritiesInWindow

==============================================================================
