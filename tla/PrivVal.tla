------------------------------- MODULE PrivVal -------------------------------
(***************************************************************************)
(* file_pv (consensus/privval/file.h, file.cpp): the signer that must      *)
(* never sign two different messages for one height, round and step, also  *)
(* when the process is killed between any two of its writes and restarted. *)
(*                                                                         *)
(*   lss         last_sign_state, in memory                                *)
(*   key_file    the key file: missing, torn (being written) or saved      *)
(*   state_file  the file of last_sign_state: Missing, Torn or its content *)
(*   process     what the process is doing                                 *)
(*   signed      every signed message handed to the caller so far          *)
(***************************************************************************)
EXTENDS Integers, FiniteSets

CONSTANTS SignHeights, SignRounds, Contents, Times, NoBytes, Missing, Torn, MaxSigned

(* Heights and rounds are int64_t and int32_t, never negative.             *)
ASSUME SignAssumption == SignHeights \subseteq Nat /\ SignRounds \subseteq Nat

VARIABLES lss, key_file, state_file, process, signed

signerVars == <<lss, key_file, state_file, process, signed>>

(* sign_step: propose, prevote and precommit; none is 0.                   *)
Steps == 1 .. 3

(* What the sign bytes of a vote or proposal hold besides the height, the  *)
(* round and the step.                                                     *)
SignBytes == [content: Contents, time: Times]

LastSignStates ==
  [height: SignHeights \cup {0}, round: SignRounds \cup {0}, step: Steps \cup {0}, signbytes: SignBytes \cup {NoBytes}]

Messages == [height: SignHeights, round: SignRounds, step: Steps, signbytes: SignBytes]

EmptyState == [height |-> 0, round |-> 0, step |-> 0, signbytes |-> NoBytes]

SignerInit ==
  /\ lss = EmptyState
  /\ key_file = "missing"
  /\ state_file = Missing
  /\ process = "down"
  /\ signed = {}

-----------------------------------------------------------------------------
(* Variant: a step may follow a later step of its round.                   *)
StepRegressionNever(l, h, r, s) == FALSE

(* check_hrs: what the last signature says of a height, round and step.    *)
HeightRegression(l, h) == l.height > h
RoundRegression(l, h, r) == l.height = h /\ l.round > r
StepRegression(l, h, r, s) == l.height = h /\ l.round = r /\ l.step > s
Regression(l, h, r, s) == HeightRegression(l, h) \/ RoundRegression(l, h, r) \/ StepRegression(l, h, r, s)
SameHRS(l, h, r, s) == l.height = h /\ l.round = r /\ l.step = s

(* check_only_differ_by_timestamp *)
OnlyDifferByTimestamp(a, b) == a.content = b.content

(* sign_internal with an error: nothing is signed.                         *)
Refuse(h, r, s, bytes) ==
  /\ \/ Regression(lss, h, r, s)
     \/ SameHRS(lss, h, r, s) /\ ~OnlyDifferByTimestamp(bytes, lss.signbytes)
  /\ UNCHANGED signerVars

(* sign_internal for the height, round and step signed last: the old       *)
(* signature is given again, with the old timestamp.                       *)
SignAgain(h, r, s, bytes) ==
  /\ SameHRS(lss, h, r, s)
  /\ OnlyDifferByTimestamp(bytes, lss.signbytes)
  /\ signed' = signed \cup {[height |-> h, round |-> r, step |-> s, signbytes |-> lss.signbytes]}
  /\ UNCHANGED <<lss, key_file, state_file, process>>

(* sign_internal for a new height, round or step.  save_signed sets        *)
(* last_sign_state and opens its file for writing, which empties it.       *)
SignNew(h, r, s, bytes) ==
  /\ ~Regression(lss, h, r, s)
  /\ ~SameHRS(lss, h, r, s)
  /\ lss' = [height |-> h, round |-> r, step |-> s, signbytes |-> bytes]
  /\ state_file' = Torn
  /\ process' = "saving"
  /\ UNCHANGED <<key_file, signed>>

(* sign_vote and sign_proposal                                             *)
Sign(h, r, s, bytes) ==
  /\ process = "idle"
  /\ Cardinality(signed) < MaxSigned
  /\ Refuse(h, r, s, bytes) \/ SignAgain(h, r, s, bytes) \/ SignNew(h, r, s, bytes)

(* The end of last_sign_state::save; sign_internal then returns the new    *)
(* signature, if it was called for one.                                    *)
EndSave ==
  /\ process = "saving"
  /\ state_file' = lss
  /\ process' = "idle"
  /\ signed' = signed \cup (IF lss.step = 0 THEN {} ELSE {lss})
  /\ UNCHANGED <<lss, key_file>>

-----------------------------------------------------------------------------
(* load_or_gen_file_pv when the key file exists: both files must load, or  *)
(* the node is not made.                                                   *)
Load ==
  /\ process = "down"
  /\ key_file # "missing"
  /\ IF key_file = "saved" /\ state_file \notin {Missing, Torn}
     THEN process' = "idle" /\ lss' = state_file
     ELSE process' = "refused" /\ UNCHANGED lss
  /\ UNCHANGED <<key_file, state_file, signed>>

(* load_or_gen_file_pv otherwise: gen_file_pv, then file_pv::save writes   *)
(* the key file before the state file.                                     *)
Generate ==
  /\ process = "down"
  /\ key_file = "missing"
  /\ key_file' = "torn"
  /\ lss' = EmptyState
  /\ process' = "generating"
  /\ UNCHANGED <<state_file, signed>>

SaveKey ==
  /\ process = "generating"
  /\ key_file' = "saved"
  /\ process' = "keyed"
  /\ UNCHANGED <<lss, state_file, signed>>

SaveFirstState ==
  /\ process = "keyed"
  /\ state_file' = Torn
  /\ process' = "saving"
  /\ UNCHANGED <<lss, key_file, signed>>

(* The process is killed: what it had in memory is gone.                   *)
Crash ==
  /\ process # "down"
  /\ process' = "down"
  /\ lss' = EmptyState
  /\ UNCHANGED <<key_file, state_file, signed>>

SignerNext ==
  \/ \E h \in SignHeights, r \in SignRounds, s \in Steps, bytes \in SignBytes : Sign(h, r, s, bytes)
  \/ EndSave
  \/ Load
  \/ Generate
  \/ SaveKey
  \/ SaveFirstState
  \/ Crash

SignerSpec == SignerInit /\ [][SignerNext]_signerVars

-----------------------------------------------------------------------------
SignerTypeOK ==
  /\ lss \in LastSignStates
  /\ key_file \in {"missing", "torn", "saved"}
  /\ state_file \in LastSignStates \cup {Missing, Torn}
  /\ process \in {"down", "generating", "keyed", "saving", "idle", "refused"}
  /\ signed \subseteq Messages

(* The signer never gives away two different signed messages for one       *)
(* height, round and step (sign_internal in privval/file.cpp), whatever it *)
(* is asked for, wherever it is killed and however often it is restarted.  *)
NoDoubleSign ==
  \A m, n \in signed :
    m.height = n.height /\ m.round = n.round /\ m.step = n.step => m = n

Covers(l, m) ==
  \/ l.height > m.height
  \/ l.height = m.height /\ l.round > m.round
  \/ l.height = m.height /\ l.round = m.round /\ l.step >= m.step

(* A readable state file is at least as far as every signature given away  *)
(* (save_signed comes before the signature is returned): a restart starts  *)
(* from all that was signed, or not at all.                                *)
FileCoversSigned ==
  state_file \in {Missing, Torn} \/ \A m \in signed : Covers(state_file, m)
==============================================================================
