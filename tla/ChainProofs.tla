---------------------------- MODULE ChainProofs ----------------------------
(***************************************************************************)
(* Proofs about the parts around consensus that write the chain of a node  *)
(* and what it signed: the private validator (PrivVal), for all heights,   *)
(* rounds, contents and times, any number of signatures, kills and         *)
(* restarts; and block sync (BlockSync), for all peers and chains.         *)
(***************************************************************************)
EXTENDS BlockSync, PrivVal, FiniteSetTheorems, TLAPS

-----------------------------------------------------------------------------
(* The private validator.                                                  *)
(*                                                                         *)
(* NoDoubleSign is not inductive: the next signature is compared with      *)
(* last_sign_state alone, which a restart reads from its file.  The        *)
(* invariant SignerInv says that whatever may become last_sign_state, the  *)
(* one in memory or a file that loads, is at least as far as all that was  *)
(* signed, and is the very message signed if it is level with it.          *)

(* A last_sign_state that is level with or past every signature given      *)
(* away, and equal to the one it is level with.                            *)
Backs(l) ==
  \A m \in signed : Covers(l, m) /\ (SameHRS(l, m.height, m.round, m.step) => l = m)

(* What save wrote is the empty state or a message.                        *)
Wellformed(l) == l \in LastSignStates /\ (l.step # 0 => l \in Messages)

(* The inductive invariant.  Until the key file exists nothing is signed;  *)
(* in an idle process the file is what is in memory.                       *)
SignerInv ==
  /\ SignerTypeOK
  /\ NoDoubleSign
  /\ Wellformed(lss)
  /\ state_file \notin {Missing, Torn} => Wellformed(state_file) /\ Backs(state_file)
  /\ process \in {"idle", "saving"} => Backs(lss)
  /\ process = "idle" => state_file = lss
  /\ process \in {"generating", "keyed"} => signed = {}
  /\ key_file = "missing" => signed = {} /\ process = "down"

-----------------------------------------------------------------------------
LEMMA SignerInitInv == SignerInit => SignerInv
PROOF
  BY DEF SignerInit, SignerInv, SignerTypeOK, NoDoubleSign, Wellformed, EmptyState, LastSignStates

(* Past a regression and not level: strictly later than what was covered.  *)
LEMMA NewIsLater ==
  ASSUME NEW l \in LastSignStates, NEW h \in SignHeights, NEW r \in SignRounds, NEW s \in Steps,
         NEW bytes \in SignBytes, NEW m \in Messages, NEW n,
         n = [height |-> h, round |-> r, step |-> s, signbytes |-> bytes],
         ~Regression(l, h, r, s), ~SameHRS(l, h, r, s), Covers(l, m)
  PROVE  Covers(n, m) /\ ~SameHRS(n, m.height, m.round, m.step)
PROOF
<1>1. /\ h \in Int /\ r \in Int /\ s \in Int
      /\ l.height \in Int /\ l.round \in Int /\ l.step \in Int
      /\ m.height \in Int /\ m.round \in Int /\ m.step \in Int
  <2>1. /\ l.height \in SignHeights \cup {0} /\ l.round \in SignRounds \cup {0} /\ l.step \in Steps \cup {0}
        /\ m.height \in SignHeights /\ m.round \in SignRounds /\ m.step \in Steps
    BY DEF LastSignStates, Messages
  <2>2. \A x \in SignHeights \cup SignRounds \cup Steps \cup {0} : x \in Int
    BY SignAssumption DEF Steps
  <2> QED
    BY <2>1, <2>2
<1>2. n.height = h /\ n.round = r /\ n.step = s
  OBVIOUS
<1>3. \/ l.height < h
      \/ (l.height = h /\ (l.round < r \/ (l.round = r /\ l.step < s)))
  BY <1>1 DEF Regression, HeightRegression, RoundRegression, StepRegression, SameHRS
<1> QED
  BY <1>1, <1>2, <1>3 DEF Covers, SameHRS

(* A message covers itself.                                                *)
LEMMA CoversItself ==
  ASSUME NEW m \in Messages
  PROVE  Covers(m, m)
PROOF
  BY SignAssumption DEF Covers, Messages, Steps

LEMMA SignKeepsInv ==
  ASSUME SignerInv, NEW h \in SignHeights, NEW r \in SignRounds, NEW s \in Steps,
         NEW bytes \in SignBytes, Sign(h, r, s, bytes)
  PROVE  SignerInv'
PROOF
<1>1. process = "idle" /\ state_file = lss /\ Backs(lss) /\ lss \in LastSignStates /\ signed \subseteq Messages
  BY DEF Sign, SignerInv, SignerTypeOK
<1>2. CASE Refuse(h, r, s, bytes)
  BY <1>2 DEF Refuse, signerVars, SignerInv, SignerTypeOK, NoDoubleSign, Wellformed, Backs
<1>3. CASE SignAgain(h, r, s, bytes)
  <2>1. lss = [height |-> h, round |-> r, step |-> s, signbytes |-> lss.signbytes] /\ lss \in Messages
    BY <1>3 DEF SignAgain, SameHRS, SignerInv, Wellformed, LastSignStates, Steps
  <2>2. /\ signed' = signed \cup {lss}
        /\ UNCHANGED <<lss, key_file, state_file, process>>
    BY <1>3, <2>1 DEF SignAgain
  <2>3. Backs(lss)'
    BY <1>1, <2>1, <2>2, CoversItself DEF Backs
  <2>4. NoDoubleSign'
    BY <1>1, <2>1, <2>2 DEF SignerInv, NoDoubleSign, Backs, SameHRS
  <2> QED
    BY <1>1, <2>1, <2>2, <2>3, <2>4 DEF SignerInv, SignerTypeOK, Wellformed
<1>4. CASE SignNew(h, r, s, bytes)
  <2> DEFINE new == [height |-> h, round |-> r, step |-> s, signbytes |-> bytes]
  <2>1. /\ lss' = new /\ state_file' = Torn /\ process' = "saving"
        /\ UNCHANGED <<key_file, signed>>
        /\ ~Regression(lss, h, r, s) /\ ~SameHRS(lss, h, r, s)
    BY <1>4 DEF SignNew
  <2>2. new \in Messages /\ new \in LastSignStates
    BY DEF Messages, LastSignStates
  <2>3. Backs(new)'
    BY <1>1, <2>1, NewIsLater DEF Backs
  <2> QED
    BY <1>1, <2>1, <2>2, <2>3 DEF SignerInv, SignerTypeOK, NoDoubleSign, Wellformed
<1> QED
  BY <1>2, <1>3, <1>4 DEF Sign

LEMMA EndSaveKeepsInv ==
  ASSUME SignerInv, EndSave
  PROVE  SignerInv'
PROOF
<1>1. /\ process = "saving" /\ Backs(lss) /\ Wellformed(lss) /\ signed \subseteq Messages
      /\ state_file' = lss /\ process' = "idle" /\ UNCHANGED <<lss, key_file>>
  BY DEF EndSave, SignerInv, SignerTypeOK
<1>2. CASE lss.step = 0
  <2>1. signed' = signed
    BY <1>2 DEF EndSave
  <2> QED
    BY <1>1, <2>1 DEF SignerInv, SignerTypeOK, NoDoubleSign, Wellformed, Backs
<1>3. CASE lss.step # 0
  <2>1. signed' = signed \cup {lss} /\ lss \in Messages
    BY <1>1, <1>3 DEF EndSave, Wellformed
  <2>2. Backs(lss)'
    BY <1>1, <2>1, CoversItself DEF Backs
  <2>3. NoDoubleSign'
    BY <1>1, <2>1 DEF SignerInv, NoDoubleSign, Backs, SameHRS
  <2> QED
    BY <1>1, <2>1, <2>2, <2>3 DEF SignerInv, SignerTypeOK, Wellformed, Backs
<1> QED
  BY <1>2, <1>3

(* Starting, generating and being killed.                                  *)
LEMMA StartKeepsInv ==
  ASSUME SignerInv, Load \/ Generate \/ SaveKey \/ SaveFirstState \/ Crash
  PROVE  SignerInv'
PROOF
<1>1. EmptyState \in LastSignStates /\ Wellformed(EmptyState)
  BY DEF EmptyState, LastSignStates, Wellformed
<1>2. CASE Load
  BY <1>2 DEF Load, SignerInv, SignerTypeOK, NoDoubleSign, Wellformed, Backs
<1>3. CASE Generate
  BY <1>1, <1>3 DEF Generate, SignerInv, SignerTypeOK, NoDoubleSign, Wellformed, Backs
<1>4. CASE SaveKey
  BY <1>4 DEF SaveKey, SignerInv, SignerTypeOK, NoDoubleSign, Wellformed, Backs
<1>5. CASE SaveFirstState
  BY <1>5 DEF SaveFirstState, SignerInv, SignerTypeOK, NoDoubleSign, Wellformed, Backs
<1>6. CASE Crash
  BY <1>1, <1>6 DEF Crash, SignerInv, SignerTypeOK, NoDoubleSign, Wellformed, Backs
<1> QED
  BY <1>2, <1>3, <1>4, <1>5, <1>6

LEMMA SignerStep == SignerInv /\ [SignerNext]_signerVars => SignerInv'
PROOF
<1> SUFFICES ASSUME SignerInv, [SignerNext]_signerVars PROVE SignerInv'
  OBVIOUS
<1>1. CASE \E h \in SignHeights, r \in SignRounds, s \in Steps, bytes \in SignBytes : Sign(h, r, s, bytes)
  BY <1>1, SignKeepsInv
<1>2. CASE EndSave
  BY <1>2, EndSaveKeepsInv
<1>3. CASE Load \/ Generate \/ SaveKey \/ SaveFirstState \/ Crash
  BY <1>3, StartKeepsInv
<1>4. CASE UNCHANGED signerVars
  BY <1>4 DEF signerVars, SignerInv, SignerTypeOK, NoDoubleSign, Wellformed, Backs
<1> QED
  BY <1>1, <1>2, <1>3, <1>4 DEF SignerNext

(* Whatever may become last_sign_state backs all that file_pv has signed.  *)
THEOREM SignerSafe == SignerSpec => []SignerInv
PROOF
  BY SignerInitInv, SignerStep, PTL DEF SignerSpec

(* file_pv never gives away two different signed messages for one height,  *)
(* round and step, whatever sign_vote and sign_proposal are asked for,     *)
(* wherever the process is killed and however often it is restarted.       *)
THEOREM NeverDoubleSigns == SignerSpec => []NoDoubleSign
PROOF
<1>1. SignerInv => NoDoubleSign
  BY DEF SignerInv
<1> QED
  BY <1>1, SignerSafe, PTL

(* A state file that loads is at least as far as every signature: a        *)
(* restart starts from all that was signed, or not at all.                 *)
THEOREM FileCovers == SignerSpec => []FileCoversSigned
PROOF
<1>1. SignerInv => FileCoversSigned
  BY DEF SignerInv, Backs, FileCoversSigned
<1> QED
  BY <1>1, SignerSafe, PTL

(* What file_pv signs next is later, by height, round and step, than all   *)
(* it has signed: sign_internal gives nothing away for a point it has      *)
(* passed, except the very message it signed there last.                   *)
SignsForward ==
  [][\A m \in signed' \ signed, n \in signed :
       Covers(m, n) /\ ~SameHRS(m, n.height, n.round, n.step)]_signerVars

LEMMA SignsForwardStep ==
  ASSUME SignerInv, SignerNext, NEW m \in signed' \ signed, NEW n \in signed
  PROVE  Covers(m, n) /\ ~SameHRS(m, n.height, n.round, n.step)
PROOF
<1>1. m = lss /\ process \in {"idle", "saving"}
  <2>1. CASE EndSave
    BY <2>1 DEF EndSave
  <2>2. ASSUME NEW h \in SignHeights, NEW r \in SignRounds, NEW s \in Steps, NEW bytes \in SignBytes,
               Sign(h, r, s, bytes)
        PROVE  m = lss /\ process \in {"idle", "saving"}
    <3>1. SignAgain(h, r, s, bytes) /\ process = "idle"
      BY <2>2 DEF Sign, Refuse, SignNew, signerVars
    <3> QED
      BY <3>1 DEF SignAgain, SameHRS, SignerInv, SignerTypeOK, LastSignStates
  <2> QED
    BY <2>1, <2>2 DEF SignerNext, Load, Generate, SaveKey, SaveFirstState, Crash
<1> QED
  BY <1>1 DEF SignerInv, Backs

(* The signer only moves forward, across kills and restarts.               *)
THEOREM OnlyForward == SignerSpec => SignsForward
PROOF
<1>1. SignerInv /\ [SignerNext]_signerVars =>
        [\A m \in signed' \ signed, n \in signed :
           Covers(m, n) /\ ~SameHRS(m, n.height, n.round, n.step)]_signerVars
  BY SignsForwardStep
<1> QED
  BY <1>1, SignerSafe, PTL DEF SignerSpec, SignsForward

-----------------------------------------------------------------------------
(* Block sync.                                                             *)
(*                                                                         *)
(* SyncsDecidedChain is not inductive: a block is saved long after it was  *)
(* taken from a requester, which may have got another block since.  The    *)
(* invariant follows the block through the steps of try_sync_ticker: until *)
(* it is popped it is of the height of the pool, then it is decided and of *)
(* the height below, and the store ends there or just before.  That a      *)
(* peeked block is of the height it was taken for needs that requesters    *)
(* keep blocks of their own height only.                                   *)

Requesters == [peer: Peers \cup {NoPeer}, block: Blocks \cup {NoBlock}]

SyncTyped ==
  /\ DOMAIN peers \subseteq Peers
  /\ DOMAIN requesters \subseteq Heights
  /\ requesters \in [DOMAIN requesters -> Requesters]
  /\ making \in [height: Heights \cup {0}, peer: Peers \cup {NoPeer}]
  /\ height \in Nat \ {0}
  /\ mutex \in {"free", "dead"} /\ is_running \in BOOLEAN
  /\ last \in 0..MaxHeight /\ handed \in -1..MaxHeight
  /\ store \in Seq(Blocks)
  /\ trying \in [step: {"peek", "verify", "redo", "save", "apply"},
                 first: Blocks \cup {NoBlock}, second: Blocks \cup {NoBlock}]

(* The block being tried, by what try_sync_ticker does with it.            *)
TryingInv ==
  /\ trying.step = "verify" => trying.first \in Blocks /\ trying.first.height = height
  /\ trying.step \in {"save", "apply"} =>
       trying.first \in Blocks /\ trying.first.decided /\ trying.first.height = height - 1
  /\ Len(store) = IF trying.step = "save" THEN height - 2 ELSE height - 1

SyncInv == SyncTyped /\ RequestersContiguous /\ TryingInv /\ SyncsDecidedChain

(* A pool that is new.                                                     *)
LEMMA SyncInitInv == SyncInit => SyncInv
<1> SUFFICES ASSUME SyncInit PROVE SyncInv
  OBVIOUS
<1>1. DOMAIN peers = {} /\ DOMAIN requesters = {}
  BY DEF SyncInit
<1>2. Cardinality({}) = 0
  BY FS_EmptySet
<1>3. SyncTyped
  <2>1. requesters \in [DOMAIN requesters -> Requesters]
    BY <1>1 DEF SyncInit
  <2> QED BY <1>1, <2>1, SyncAssumption DEF SyncInit, SyncTyped, NotMaking, NotTrying
<1>4. RequestersContiguous
  <2>1. height = 1 /\ 1 .. 1 + 0 - 1 = {}
    BY DEF SyncInit
  <2> QED BY <1>1, <1>2, <2>1 DEF RequestersContiguous
<1>5. TryingInv /\ SyncsDecidedChain
  BY DEF SyncInit, TryingInv, SyncsDecidedChain, NotTrying
<1> QED BY <1>3, <1>4, <1>5 DEF SyncInv

(* The requesters are finitely many, and which heights they are for.       *)
LEMMA RequestersCounted ==
  ASSUME SyncTyped, RequestersContiguous
  PROVE  /\ IsFiniteSet(DOMAIN requesters) /\ Cardinality(DOMAIN requesters) \in Nat
         /\ DOMAIN requesters = height .. NextRequest - 1
         /\ NextRequest \in Nat /\ height \in Nat
<1>1. IsFiniteSet(Heights)
  BY FS_Interval, SyncAssumption DEF Heights
<1>2. IsFiniteSet(DOMAIN requesters)
  BY <1>1, FS_Subset DEF SyncTyped
<1>3. Cardinality(DOMAIN requesters) \in Nat
  BY <1>2, FS_CardinalityType
<1> QED BY <1>2, <1>3 DEF SyncTyped, RequestersContiguous, NextRequest

(* Removing peers (remove_peer), or picking one, adds none.                *)
LEMMA PeersStay ==
  /\ \A p : ErasePeer(p) => DOMAIN peers' \subseteq DOMAIN peers
  /\ \A p : RemovePeerLocked(p) =>
        DOMAIN peers' \subseteq DOMAIN peers /\ (mutex' = mutex \/ mutex' = "dead")
  /\ \A h, p : PickIncrAvailablePeer(h, p) =>
        DOMAIN peers' \subseteq DOMAIN peers /\ (mutex' = mutex \/ mutex' = "dead")
<1>1. \A p : ErasePeer(p) => DOMAIN peers' \subseteq DOMAIN peers
  BY DEF ErasePeer, Without, Restrict
<1>2. \A p : RemovePeerLocked(p) =>
        DOMAIN peers' \subseteq DOMAIN peers /\ (mutex' = mutex \/ mutex' = "dead")
  BY <1>1 DEF RemovePeerLocked
<1>3. ASSUME NEW h, NEW p, PickIncrAvailablePeer(h, p)
      PROVE  DOMAIN peers' \subseteq DOMAIN peers /\ (mutex' = mutex \/ mutex' = "dead")
  <2> DEFINE left == Restrict(peers, DOMAIN peers \ TimedOutBefore(p))
  <2>1. DOMAIN left \subseteq DOMAIN peers
    BY DEF Restrict
  <2>2. \/ mutex' = "dead" /\ peers' = peers
        \/ mutex' = mutex /\ peers' = IF p = NoPeer THEN left ELSE [left EXCEPT ![p] = IncrPending(@)]
    BY <1>3 DEF PickIncrAvailablePeer
  <2> HIDE DEF left
  <2> QED BY <2>1, <2>2
<1> QED BY <1>1, <1>2, <1>3

(* What the steps of the main thread and of the tickers that move no block *)
(* change.                                                                 *)
LEMMA AsideKeepsInv ==
  ASSUME SyncInv, UNCHANGED <<requesters, height, trying, last, store>>,
         DOMAIN peers' \subseteq Peers, mutex' \in {"free", "dead"}, is_running' \in BOOLEAN,
         making' \in [height: Heights \cup {0}, peer: Peers \cup {NoPeer}],
         handed' \in -1..MaxHeight
  PROVE  SyncInv'
<1>1. SyncTyped'
  BY DEF SyncInv, SyncTyped
<1>2. RequestersContiguous'
  BY DEF SyncInv, RequestersContiguous
<1>3. TryingInv' /\ SyncsDecidedChain'
  BY DEF SyncInv, TryingInv, SyncsDecidedChain
<1> QED BY <1>1, <1>2, <1>3 DEF SyncInv

(* A requester that gets a block, or another peer (set_block, redo,        *)
(* request_routine).                                                       *)
LEMMA RequesterKeepsInv ==
  ASSUME SyncInv, UNCHANGED <<height, trying, last, store, is_running, handed>>,
         NEW h \in DOMAIN requesters, NEW r \in Requesters,
         requesters' = [requesters EXCEPT ![h] = r],
         r.block # NoBlock => r.block.height = h,
         DOMAIN peers' \subseteq Peers, mutex' \in {"free", "dead"},
         making' \in [height: Heights \cup {0}, peer: Peers \cup {NoPeer}]
  PROVE  SyncInv'
<1>1. /\ DOMAIN requesters' = DOMAIN requesters
      /\ \A x \in DOMAIN requesters : requesters'[x] = IF x = h THEN r ELSE requesters[x]
      /\ requesters' \in [DOMAIN requesters -> Requesters]
  BY DEF SyncInv, SyncTyped
<1>2. SyncTyped'
  BY <1>1 DEF SyncInv, SyncTyped
<1>3. RequestersContiguous'
  BY <1>1 DEF SyncInv, RequestersContiguous
<1>4. TryingInv' /\ SyncsDecidedChain'
  BY DEF SyncInv, TryingInv, SyncsDecidedChain
<1> QED BY <1>2, <1>3, <1>4 DEF SyncInv

(* add_block: the block is of the height of its requester, whatever peer   *)
(* it comes from.                                                          *)
LEMMA AddBlockKeepsInv ==
  ASSUME SyncInv, NEW p \in Peers, NEW b \in SentBy(p), AddBlock(p, b)
  PROVE  SyncInv'
<1> DEFINE r == [peer |-> p, block |-> b]
<1>1. b \in Blocks
  BY DEF SentBy
<1>2. r \in Requesters /\ r.block = b
  BY <1>1 DEF Requesters
<1>3. requesters' = [requesters EXCEPT ![b.height] = r]
  <2>1. [[peer |-> p, block |-> NoBlock] EXCEPT !.block = b] = r
    OBVIOUS
  <2>2. /\ requesters[b.height] = [peer |-> p, block |-> NoBlock]
        /\ requesters' = [requesters EXCEPT ![b.height] = [requesters[b.height] EXCEPT !.block = b]]
    BY DEF AddBlock
  <2> QED BY Zenon, <2>1, <2>2
<1>4. DOMAIN peers' \subseteq Peers
  BY DEF AddBlock, SyncInv, SyncTyped
<1>5. /\ b.height \in DOMAIN requesters
      /\ UNCHANGED <<height, trying, last, store, is_running, handed, mutex, making>>
  BY DEF AddBlock
<1>6. mutex' \in {"free", "dead"} /\ making' \in [height: Heights \cup {0}, peer: Peers \cup {NoPeer}]
  BY <1>5 DEF SyncInv, SyncTyped
<1> HIDE DEF r
<1>7. r.block # NoBlock => r.block.height = b.height
  BY <1>2
<1> QED BY Zenon, <1>2, <1>3, <1>4, <1>5, <1>6, <1>7, RequesterKeepsInv

(* redo of a requester, by the main thread in remove_peer.                 *)
LEMMA RedoRequesterKeepsInv ==
  ASSUME SyncInv, RedoRequester
  PROVE  SyncInv'
<1> DEFINE h == NextOf({x \in DOMAIN requesters : x >= removing.from})
<1>1. /\ UNCHANGED <<is_running, making, trying, last, store, handed>>
      /\ \/ UNCHANGED pool
         \/ /\ UNCHANGED height
            /\ \E p \in DOMAIN peers \cup {NoPeer} :
                 /\ PickIncrAvailablePeer(h, p)
                 /\ requesters' = [requesters EXCEPT ![h] = [peer |-> p, block |-> NoBlock]]
  BY Zenon DEF RedoRequester
<1> HIDE DEF h
<1>2. /\ making \in [height: Heights \cup {0}, peer: Peers \cup {NoPeer}]
      /\ mutex \in {"free", "dead"} /\ is_running \in BOOLEAN /\ DOMAIN peers \subseteq Peers
      /\ handed \in -1..MaxHeight /\ requesters \in [DOMAIN requesters -> Requesters]
  BY DEF SyncInv, SyncTyped
<1>3. CASE UNCHANGED pool
  <2>1. UNCHANGED <<requesters, height, peers, mutex>>
    BY <1>3 DEF pool
  <2> QED BY <1>1, <1>2, <2>1, AsideKeepsInv
<1>4. CASE ~UNCHANGED pool
  <2>1. PICK p \in DOMAIN peers \cup {NoPeer} :
          /\ PickIncrAvailablePeer(h, p)
          /\ requesters' = [requesters EXCEPT ![h] = [peer |-> p, block |-> NoBlock]]
          /\ UNCHANGED height
    BY <1>1, <1>4
  <2> DEFINE r == [peer |-> p, block |-> NoBlock]
  <2>2. DOMAIN peers' \subseteq Peers /\ mutex' \in {"free", "dead"}
    BY <1>2, <2>1, PeersStay
  <2>3. r \in Requesters /\ r.block = NoBlock /\ requesters' = [requesters EXCEPT ![h] = r]
    BY <1>2, <2>1 DEF Requesters
  <2> HIDE DEF r
  <2>4. CASE h \in DOMAIN requesters
    BY ZenonT(30), <1>1, <1>2, <2>1, <2>2, <2>3, <2>4, RequesterKeepsInv
  <2>5. CASE h \notin DOMAIN requesters
    <3>1. requesters' = requesters
      BY <1>2, <2>3, <2>5
    <3> QED BY <1>1, <1>2, <2>1, <2>2, <3>1, AsideKeepsInv
  <2> QED BY <2>4, <2>5
<1> QED BY <1>3, <1>4

(* request_routine: the peer is given to the requester, if it is still     *)
(* there.                                                                  *)
LEMMA AssignPeerKeepsInv ==
  ASSUME SyncInv, AssignPeer
  PROVE  SyncInv'
<1> DEFINE h == making.height
           r == [requesters[h] EXCEPT !.peer = making.peer]
<1>1. /\ making \in [height: Heights \cup {0}, peer: Peers \cup {NoPeer}]
      /\ mutex \in {"free", "dead"} /\ is_running \in BOOLEAN /\ DOMAIN peers \subseteq Peers
      /\ handed \in -1..MaxHeight /\ requesters \in [DOMAIN requesters -> Requesters]
  BY DEF SyncInv, SyncTyped
<1>2. /\ UNCHANGED <<peers, height, mutex, is_running, trying, last, store, handed>>
      /\ requesters' = IF h \in DOMAIN requesters THEN [requesters EXCEPT ![h] = r] ELSE requesters
      /\ making' = NotMaking
  BY DEF AssignPeer
<1>3. making' \in [height: Heights \cup {0}, peer: Peers \cup {NoPeer}]
  BY <1>2 DEF NotMaking
<1>4. CASE h \in DOMAIN requesters
  <2>1. making.peer \in Peers \cup {NoPeer} /\ requesters[h] \in Requesters
    BY <1>1, <1>4
  <2>2. r \in Requesters /\ r.block = requesters[h].block
    BY <2>1 DEF Requesters
  <2>3. requesters[h].block # NoBlock => requesters[h].block.height = h
    BY <1>4 DEF SyncInv, RequestersContiguous
  <2>4. requesters' = [requesters EXCEPT ![h] = r]
    BY <1>2, <1>4
  <2> HIDE DEF r, h
  <2> QED BY ZenonT(30), <1>1, <1>2, <1>3, <1>4, <2>2, <2>3, <2>4, RequesterKeepsInv
<1>5. CASE h \notin DOMAIN requesters
  BY ZenonT(30), <1>1, <1>2, <1>3, <1>5, AsideKeepsInv
<1> QED BY <1>4, <1>5

(* make_next_requester: the new requester is for the height after the      *)
(* others.                                                                 *)
LEMMA MakeNextRequesterKeepsInv ==
  ASSUME SyncInv, MakeNextRequester
  PROVE  SyncInv'
<1> DEFINE r == [peer |-> NoPeer, block |-> NoBlock]
           k == NextRequest
           D == DOMAIN requesters
<1>1. /\ IsFiniteSet(D) /\ Cardinality(D) \in Nat /\ D = height .. k - 1
      /\ k \in Nat /\ height \in Nat /\ k = height + Cardinality(D)
  BY RequestersCounted DEF SyncInv, NextRequest
<1>2. /\ UNCHANGED <<peers, height, mutex, is_running, trying, last, store, handed>>
      /\ requesters' = [y \in D \cup {k} |-> IF y = k THEN r ELSE requesters[y]]
      /\ making' = [height |-> k, peer |-> NoPeer] /\ k \in Heights
  BY DEF MakeNextRequester, With
<1> HIDE DEF r, k, D
<1>3. DOMAIN requesters' = D \cup {k} /\ k \notin D
  <2>1. k \notin D
    BY <1>1
  <2>2. DOMAIN requesters' = D \cup {k}
    BY <1>2
  <2> QED BY <2>1, <2>2
<1>4. Cardinality(D \cup {k}) = Cardinality(D) + 1
  BY Zenon, <1>1, <1>3, FS_AddElement
<1>5. D \cup {k} = height .. height + Cardinality(D \cup {k}) - 1
  BY <1>1, <1>4
<1>6. r \in Requesters /\ r.block = NoBlock
  BY DEF Requesters, r
<1>7. SyncTyped'
  <2>1. requesters' \in [DOMAIN requesters' -> Requesters]
    BY <1>2, <1>3, <1>6 DEF SyncInv, SyncTyped, D
  <2>2. DOMAIN requesters' \subseteq Heights
    BY <1>2, <1>3 DEF SyncInv, SyncTyped, D
  <2>3. making' \in [height: Heights \cup {0}, peer: Peers \cup {NoPeer}]
    BY <1>2
  <2> QED BY Zenon, <1>2, <2>1, <2>2, <2>3 DEF SyncInv, SyncTyped
<1>8. RequestersContiguous'
  <2>1. \A y \in DOMAIN requesters' : requesters'[y].block # NoBlock => requesters'[y].block.height = y
    BY <1>2, <1>3, <1>6 DEF SyncInv, RequestersContiguous, D
  <2> QED BY Zenon, <1>2, <1>3, <1>5, <2>1 DEF RequestersContiguous
<1>9. TryingInv' /\ SyncsDecidedChain'
  BY <1>2 DEF SyncInv, TryingInv, SyncsDecidedChain
<1> QED BY <1>7, <1>8, <1>9 DEF SyncInv

(* pop_request: the block that was verified is of the height that is       *)
(* popped, also when its requester was redone since it was peeked.         *)
LEMMA PopRequestKeepsInv ==
  ASSUME SyncInv, PopRequest
  PROVE  SyncInv'
<1> DEFINE D == DOMAIN requesters
<1>1. /\ IsFiniteSet(D) /\ Cardinality(D) \in Nat /\ height \in Nat
      /\ D = height .. height + Cardinality(D) - 1
  BY RequestersCounted DEF SyncInv, RequestersContiguous
<1>2. /\ UNCHANGED <<peers, mutex, is_running, making, last, store, handed>>
      /\ requesters' = [x \in D \ {height} |-> requesters[x]] /\ height' = height + 1
      /\ trying' = [trying EXCEPT !.step = "save"]
      /\ trying.step = "verify" /\ trying.first.decided
  BY DEF PopRequest, Without, Restrict, Verified
<1> HIDE DEF D
<1>3. DOMAIN requesters' = D \ {height}
  BY <1>2
<1>4. D \ {height} = height + 1 .. height + 1 + Cardinality(D \ {height}) - 1
  <2>1. CASE height \in D
    <3>1. Cardinality(D \ {height}) = Cardinality(D) - 1
      BY Zenon, <1>1, <2>1, FS_RemoveElement
    <3> QED BY <1>1, <3>1
  <2>2. CASE height \notin D
    <3>1. Cardinality(D) = 0 /\ D = {}
      BY <1>1, <2>2
    <3>2. D \ {height} = {} /\ Cardinality({}) = 0
      BY <3>1, FS_EmptySet
    <3>3. height + 1 .. height + 1 + 0 - 1 = {}
      BY <1>1
    <3> QED BY Zenon, <3>2, <3>3
  <2> QED BY <2>1, <2>2
<1>5. RequestersContiguous'
  <2>1. \A x \in DOMAIN requesters' : requesters'[x].block # NoBlock => requesters'[x].block.height = x
    BY <1>2, <1>3 DEF SyncInv, RequestersContiguous, D
  <2> QED BY Zenon, <1>2, <1>3, <1>4, <2>1 DEF RequestersContiguous
<1>6. /\ trying'.step = "save" /\ trying'.first = trying.first
      /\ trying' \in [step: {"peek", "verify", "redo", "save", "apply"},
                      first: Blocks \cup {NoBlock}, second: Blocks \cup {NoBlock}]
  BY <1>2 DEF SyncInv, SyncTyped
<1>7. SyncTyped'
  <2>1. requesters' \in [DOMAIN requesters' -> Requesters] /\ DOMAIN requesters' \subseteq Heights
    BY <1>2, <1>3 DEF SyncInv, SyncTyped, D
  <2>2. height' \in Nat \ {0}
    BY <1>1, <1>2
  <2> QED BY <1>2, <1>6, <2>1, <2>2 DEF SyncInv, SyncTyped
<1>8. TryingInv'
  <2>1. trying.first \in Blocks /\ trying.first.height = height /\ Len(store) = height - 1
    BY <1>2 DEF SyncInv, TryingInv
  <2>2. height' - 1 = height /\ height' - 2 = height - 1
    BY <1>1, <1>2
  <2> QED BY <1>2, <1>6, <2>1, <2>2 DEF TryingInv
<1>9. SyncsDecidedChain'
  BY <1>2, <1>6 DEF SyncInv, SyncsDecidedChain
<1> QED BY <1>5, <1>7, <1>8, <1>9 DEF SyncInv

(* The other steps of try_sync_ticker leave the requesters and the height. *)
LEMMA TryingKeepsInv ==
  ASSUME SyncInv, UNCHANGED <<requesters, height, is_running, making, handed>>,
         DOMAIN peers' \subseteq Peers, mutex' \in {"free", "dead"},
         last' \in 0..MaxHeight, store' \in Seq(Blocks),
         trying' \in [step: {"peek", "verify", "redo", "save", "apply"},
                      first: Blocks \cup {NoBlock}, second: Blocks \cup {NoBlock}],
         TryingInv', SyncsDecidedChain'
  PROVE  SyncInv'
<1>1. SyncTyped'
  BY DEF SyncInv, SyncTyped
<1>2. RequestersContiguous'
  BY DEF SyncInv, RequestersContiguous
<1> QED BY <1>1, <1>2 DEF SyncInv

(* peek_two_blocks: what is peeked is of the height of the pool.           *)
LEMMA PeekTwoBlocksKeepsInv ==
  ASSUME SyncInv, PeekTwoBlocks
  PROVE  SyncInv'
<1>1. /\ UNCHANGED <<peers, requesters, height, mutex, is_running, making, last, store, handed>>
      /\ trying.step = "peek" /\ BlockAt(height) # NoBlock /\ BlockAt(height + 1) # NoBlock
      /\ trying' = [step |-> "verify", first |-> BlockAt(height), second |-> BlockAt(height + 1)]
  BY DEF PeekTwoBlocks, pool
<1>2. \A h : BlockAt(h) # NoBlock => BlockAt(h) \in Blocks /\ BlockAt(h).height = h
  <2>1. \A h \in DOMAIN requesters :
           requesters[h].block # NoBlock => requesters[h].block \in Blocks /\ requesters[h].block.height = h
    BY DEF SyncInv, SyncTyped, RequestersContiguous, Requesters
  <2> QED BY <2>1 DEF BlockAt
<1>3. BlockAt(height) \in Blocks /\ BlockAt(height).height = height /\ BlockAt(height + 1) \in Blocks
  BY <1>1, <1>2
<1>4. TryingInv'
  <2>1. Len(store) = height - 1
    BY <1>1 DEF SyncInv, TryingInv
  <2> QED BY <1>1, <1>3, <2>1 DEF TryingInv
<1>5. SyncsDecidedChain'
  BY <1>1 DEF SyncInv, SyncsDecidedChain
<1>6. trying' \in [step: {"peek", "verify", "redo", "save", "apply"},
                   first: Blocks \cup {NoBlock}, second: Blocks \cup {NoBlock}]
  BY <1>1, <1>3
<1>7. DOMAIN peers' \subseteq Peers /\ mutex' \in {"free", "dead"} /\ last' \in 0..MaxHeight /\ store' \in Seq(Blocks)
  BY <1>1 DEF SyncInv, SyncTyped
<1> QED BY Zenon, <1>1, <1>4, <1>5, <1>6, <1>7, TryingKeepsInv

(* save_block: the decided block of the next height is appended.           *)
LEMMA SaveFirstKeepsInv ==
  ASSUME SyncInv, SaveFirst
  PROVE  SyncInv'
<1> DEFINE b == trying.first
<1>1. /\ UNCHANGED <<peers, requesters, height, mutex, is_running, making, last, handed>>
      /\ trying.step = "save" /\ store' = Append(store, b) /\ trying' = [trying EXCEPT !.step = "apply"]
  BY DEF SaveFirst, pool
<1>2. /\ b \in Blocks /\ b.decided /\ b.height = height - 1 /\ Len(store) = height - 2
      /\ height \in Nat /\ store \in Seq(Blocks)
  BY <1>1 DEF SyncInv, SyncTyped, TryingInv
<1> HIDE DEF b
<1>3. /\ store' \in Seq(Blocks) /\ Len(store') = height - 1 /\ DOMAIN store' = 1..(height - 1)
      /\ \A i \in 1..(height - 1) : store'[i] = IF i = height - 1 THEN b ELSE store[i]
      /\ DOMAIN store = 1..(height - 2)
  BY <1>1, <1>2
<1>4. /\ trying'.step = "apply" /\ trying'.first = b
      /\ trying' \in [step: {"peek", "verify", "redo", "save", "apply"},
                      first: Blocks \cup {NoBlock}, second: Blocks \cup {NoBlock}]
  BY Zenon, <1>1 DEF SyncInv, SyncTyped, b
<1>5. TryingInv'
  BY <1>1, <1>2, <1>3, <1>4 DEF TryingInv
<1>6. SyncsDecidedChain'
  <2>1. last = Len(store) /\ \A i \in 1..(height - 2) : store[i].height = i /\ store[i].decided
    BY <1>1, <1>3 DEF SyncInv, SyncsDecidedChain
  <2>2. ASSUME NEW i \in 1..(height - 1) PROVE store'[i].height = i /\ store'[i].decided
    <3>1. CASE i = height - 1
      BY <1>2, <1>3, <3>1
    <3>2. CASE i # height - 1
      <4>1. i \in 1..(height - 2)
        BY <1>2, <3>2
      <4> QED BY <1>3, <2>1, <3>2, <4>1
    <3> QED BY <3>1, <3>2
  <2>3. last' = Len(store') - 1
    BY <1>1, <1>2, <1>3, <2>1
  <2> QED BY <1>3, <1>4, <2>2, <2>3 DEF SyncsDecidedChain
<1>7. DOMAIN peers' \subseteq Peers /\ mutex' \in {"free", "dead"} /\ last' \in 0..MaxHeight
  BY <1>1 DEF SyncInv, SyncTyped
<1> QED BY Zenon, <1>1, <1>3, <1>4, <1>5, <1>6, <1>7, TryingKeepsInv

(* apply_block: the state is level with the store again.                   *)
LEMMA ApplyFirstKeepsInv ==
  ASSUME SyncInv, ApplyFirst
  PROVE  SyncInv'
<1>1. /\ UNCHANGED <<peers, requesters, height, mutex, is_running, making, store, handed>>
      /\ trying.step = "apply" /\ last' = trying.first.height /\ trying' = NotTrying
  BY DEF ApplyFirst, pool
<1>2. /\ trying.first \in Blocks /\ trying.first.height = height - 1 /\ Len(store) = height - 1
  BY <1>1 DEF SyncInv, TryingInv
<1>3. trying'.step = "peek" /\ trying' \in [step: {"peek", "verify", "redo", "save", "apply"},
                   first: Blocks \cup {NoBlock}, second: Blocks \cup {NoBlock}]
  BY <1>1 DEF NotTrying
<1>4. TryingInv'
  BY <1>1, <1>2, <1>3 DEF TryingInv
<1>5. SyncsDecidedChain'
  BY <1>1, <1>2, <1>3 DEF SyncInv, SyncsDecidedChain
<1>6. last' \in 0..MaxHeight
  BY <1>1, <1>2, SyncAssumption DEF Blocks, Heights
<1>7. DOMAIN peers' \subseteq Peers /\ mutex' \in {"free", "dead"} /\ store' \in Seq(Blocks)
  BY <1>1 DEF SyncInv, SyncTyped
<1> QED BY Zenon, <1>1, <1>3, <1>4, <1>5, <1>6, <1>7, TryingKeepsInv

(* redo_request: a block that is not verified is dropped, and its peer     *)
(* removed.                                                                *)
LEMMA RedoRequestKeepsInv ==
  ASSUME SyncInv, RedoFirst \/ RedoSecond
  PROVE  SyncInv'
<1>1. /\ UNCHANGED <<requesters, height, is_running, making, last, store, handed>>
      /\ trying.step \in {"verify", "redo"}
      /\ trying' = [trying EXCEPT !.step = "redo"] \/ trying' = NotTrying
      /\ (\E p : RemovePeerLocked(p)) \/ UNCHANGED <<mutex, peers>>
  BY DEF RedoFirst, RedoSecond, RedoRequest
<1>2. trying'.step \in {"redo", "peek"} /\ trying' \in [step: {"peek", "verify", "redo", "save", "apply"},
                   first: Blocks \cup {NoBlock}, second: Blocks \cup {NoBlock}]
  BY <1>1 DEF SyncInv, SyncTyped, NotTrying
<1>3. DOMAIN peers' \subseteq Peers /\ mutex' \in {"free", "dead"}
  BY <1>1, PeersStay DEF SyncInv, SyncTyped
<1>4. TryingInv'
  BY <1>1, <1>2 DEF SyncInv, TryingInv
<1>5. SyncsDecidedChain'
  BY <1>1, <1>2 DEF SyncInv, SyncsDecidedChain
<1>6. last' \in 0..MaxHeight /\ store' \in Seq(Blocks)
  BY <1>1 DEF SyncInv, SyncTyped
<1> QED BY Zenon, <1>1, <1>2, <1>3, <1>4, <1>5, <1>6, TryingKeepsInv

(* Every step of the four threads keeps the invariant.                     *)
LEMMA SyncStep == SyncInv /\ [SyncNext]_syncVars => SyncInv'
<1> SUFFICES ASSUME SyncInv, [SyncNext]_syncVars PROVE SyncInv'
  OBVIOUS
<1>1. /\ making \in [height: Heights \cup {0}, peer: Peers \cup {NoPeer}]
      /\ mutex \in {"free", "dead"} /\ is_running \in BOOLEAN /\ DOMAIN peers \subseteq Peers
      /\ handed \in -1..MaxHeight /\ last \in 0..MaxHeight
  BY DEF SyncInv, SyncTyped
<1>2. ASSUME NEW p \in Peers, NEW r \in Ranges, SetPeerRange(p, r.base, r.height) PROVE SyncInv'
  <2>1. DOMAIN peers' \subseteq Peers
    BY <1>1, <1>2 DEF SetPeerRange, With
  <2>2. UNCHANGED <<requesters, height, trying, last, store, mutex, is_running, making, handed>>
    BY <1>2 DEF SetPeerRange
  <2> QED BY Zenon, <1>1, <2>1, <2>2, AsideKeepsInv
<1>3. ASSUME NEW p \in Peers, PeerDown(p) \/ PeerTimeout(p) PROVE SyncInv'
  <2>1. DOMAIN peers' \subseteq Peers
    BY <1>1, <1>3 DEF PeerDown, PeerTimeout, pool
  <2>2. UNCHANGED <<requesters, height, trying, last, store, mutex, is_running, making, handed>>
    BY <1>3 DEF PeerDown, PeerTimeout, pool
  <2> QED BY Zenon, <1>1, <2>1, <2>2, AsideKeepsInv
<1>4. CASE PeerErased
  <2>1. DOMAIN peers' \subseteq Peers
    BY <1>1, <1>4, PeersStay DEF PeerErased
  <2>2. UNCHANGED <<requesters, height, trying, last, store, mutex, is_running, making, handed>>
    BY <1>4 DEF PeerErased
  <2> QED BY Zenon, <1>1, <2>1, <2>2, AsideKeepsInv
<1>5. CASE RequestRoutine
  <2>1. UNCHANGED <<requesters, height, trying, last, store, is_running, handed>>
    BY <1>5 DEF RequestRoutine
  <2>2. \/ UNCHANGED <<peers, mutex>> /\ making' = NotMaking
        \/ \E p \in DOMAIN peers \cup {NoPeer} :
             /\ PickIncrAvailablePeer(making.height, p)
             /\ making' = NotMaking \/ making' = [making EXCEPT !.peer = p]
    BY <1>5 DEF RequestRoutine
  <2>3. DOMAIN peers' \subseteq Peers /\ mutex' \in {"free", "dead"}
    BY <1>1, <2>2, PeersStay
  <2>4. making' \in [height: Heights \cup {0}, peer: Peers \cup {NoPeer}]
    BY <1>1, <2>2 DEF NotMaking
  <2> QED BY Zenon, <1>1, <2>1, <2>3, <2>4, AsideKeepsInv
<1>6. CASE RemoveTimedOutPeer
  <2>1. DOMAIN peers' \subseteq Peers /\ mutex' \in {"free", "dead"}
    BY <1>1, <1>6, PeersStay DEF RemoveTimedOutPeer
  <2>2. UNCHANGED <<requesters, height, trying, last, store, is_running, making, handed>>
    BY <1>6 DEF RemoveTimedOutPeer
  <2> QED BY Zenon, <1>1, <2>1, <2>2, AsideKeepsInv
<1>7. ASSUME NEW stalled, StopPool(stalled) PROVE SyncInv'
  <2>1. UNCHANGED <<peers, requesters, height, trying, last, store, mutex, making, handed>> /\ is_running' = FALSE
    BY <1>7 DEF StopPool, pool
  <2> QED BY Zenon, <1>1, <2>1, AsideKeepsInv
<1>8. CASE SwitchToConsensus
  <2>1. UNCHANGED <<peers, requesters, height, trying, last, store, mutex, making, is_running>> /\ handed' = last
    BY <1>8 DEF SwitchToConsensus, pool
  <2>2. last \in -1..MaxHeight
    BY <1>1, SyncAssumption
  <2> QED BY Zenon, <1>1, <2>1, <2>2, AsideKeepsInv
<1>9. CASE UNCHANGED syncVars
  <2>1. UNCHANGED <<peers, requesters, height, trying, last, store, mutex, making, is_running, handed>>
    BY <1>9 DEF syncVars
  <2> QED BY Zenon, <1>1, <2>1, AsideKeepsInv
<1> QED BY Zenon, <1>2, <1>3, <1>4, <1>5, <1>6, <1>7, <1>8, <1>9, AddBlockKeepsInv,
           RedoRequesterKeepsInv, AssignPeerKeepsInv, MakeNextRequesterKeepsInv, PopRequestKeepsInv,
           PeekTwoBlocksKeepsInv, SaveFirstKeepsInv, ApplyFirstKeepsInv, RedoRequestKeepsInv
        DEF SyncNext

(* SyncInv is an invariant of block sync, whatever the peers send and      *)
(* however the threads interleave.                                         *)
THEOREM SyncSafe == SyncSpec => []SyncInv
BY SyncInitInv, SyncStep, PTL DEF SyncSpec

(* The blocks that try_sync_ticker saves and applies are the decided ones, *)
(* each once and in order, for any number of peers, faulty ones among      *)
(* them, and any length of the chain.                                      *)
THEOREM SavesDecidedChain == SyncSpec => []SyncsDecidedChain
<1>1. SyncInv => SyncsDecidedChain
  BY DEF SyncInv
<1> QED BY <1>1, SyncSafe, PTL

(* The requesters are for consecutive heights from that of the pool, so    *)
(* that make_next_requester may count them to find the next height, and    *)
(* the pool is typed.                                                      *)
THEOREM RequestersInOrder == SyncSpec => [](SyncTypeOK /\ RequestersContiguous)
<1>1. SyncInv => SyncTypeOK /\ RequestersContiguous
  <2>1. SyncTyped => \A h \in DOMAIN requesters : requesters[h] \in Requesters
    BY DEF SyncTyped
  <2> QED BY <2>1 DEF SyncInv, SyncTyped, SyncTypeOK, Requesters
<1> QED BY <1>1, SyncSafe, PTL
=============================================================================
