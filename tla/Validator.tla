------------------------------ MODULE Validator ------------------------------
(***************************************************************************)
(* The abstract specification of a validator at one height: it sees polkas *)
(* and commits, and keeps the promise of ValidatorRules in every step.     *)
(***************************************************************************)
EXTENDS ValidatorRules

VARIABLES val, polkas, commits

vars == <<val, polkas, commits>>

Init == val = NewVal /\ polkas = {} /\ commits = {}

(* Until the decision, after which the votes are dropped, what was seen    *)
(* stays seen.                                                             *)
See ==
  \/ val'.decided # None
  \/ polkas \subseteq polkas' /\ commits \subseteq commits'

Next == See /\ Promise(val, val', polkas \cup polkas', commits \cup commits')

Spec == Init /\ [][Next]_vars
===============================================================================
