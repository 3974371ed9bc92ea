----------------------------- MODULE MCTendermint -----------------------------
(* Four validators of equal power, one of them faulty.  A step is what one *)
(* handler can do: sign a prevote or a precommit or both, for one round,   *)
(* lock or unlock, and decide.                                             *)
EXTENDS Tendermint, TLC, FiniteSets

CONSTANTS v1, v2, v3, v4, A, B

EqualPower == [S \in SUBSET Validators |-> Cardinality(S)]

(* A vote that is signed stays. *)
Fresh(id, ids) == IF id = None THEN ids ELSE {id}

Voted(w, polkas) ==
  UNION {{[w EXCEPT !.prevote[r] = a, !.precommit[r] = b,
                    !.locked_round = l[1], !.locked_block = l[2]] :
            a \in Fresh(w.prevote[r], Ids),
            b \in Fresh(w.precommit[r], {None, Nil} \cup {p[2] : p \in polkas}),
            l \in {<<w.locked_round, w.locked_block>>, <<-1, None>>}
                    \cup {p \in polkas : p[1] >= r}} :
         r \in Rounds}

(* A handler may also decide, after which the height is over. *)
Outcomes(w, polkas, commits) ==
  IF w.decided # None
  THEN {w}
  ELSE Voted(w, polkas)
         \cup {[z EXCEPT !.locked_round = -1, !.locked_block = None, !.decided = c[2]] :
                 z \in Voted(w, polkas), c \in commits}

Handle(v) ==
  LET polkas == Polkas
      commits == Commits
  IN \E z \in Outcomes(vals[v], polkas, commits) :
        /\ Promise(vals[v], z, polkas, commits)
        /\ vals' = [vals EXCEPT ![v] = z]

MCNext == \E v \in Correct : Handle(v)

MCSpec == Init /\ [][MCNext]_vals

(* A nil precommit binds nobody, as no precommit does, so the states with  *)
(* one are not explored.                                                   *)
NoNilPrecommit == \A v \in Correct, r \in Rounds : vals[v].precommit[r] # Nil

Symmetry == Permutations({v1, v2, v3}) \cup Permutations({A, B})
===============================================================================
