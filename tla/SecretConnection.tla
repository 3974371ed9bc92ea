-------------------------- MODULE SecretConnection --------------------------
(***************************************************************************)
(* The handshake and the framing of one p2p session, seen from both ends   *)
(* (p2p.cpp start_handshake to task_process_message, and                   *)
(* conn/secret_connection.cpp).                                            *)
(*                                                                         *)
(* Each end sends its ephemeral key in the clear and reads the other's;    *)
(* from then on everything is cut into frames sealed with a key and a      *)
(* nonce that counts the frames: the signature of the challenge ("auth"),  *)
(* the node information ("info"), then packets.  A read takes what the     *)
(* socket has, so the read of the ephemeral key may also take frames that  *)
(* follow it: they stay in pending_message_buffer, and the next read still *)
(* waits for a whole frame of new bytes.                                   *)
(*                                                                         *)
(* A byte of the decrypted stream is a unit, the pair of the kind of its   *)
(* message and the number of that message: a message is a sequence of      *)
(* Sizes[kind] units.  The cryptography is ideal.                          *)
(***************************************************************************)
EXTENDS Integers, Sequences, SequencesExt

CONSTANTS Ends,      \* the two ends
          Lower,     \* the end with the lower ephemeral key
          Sizes,     \* units of an "auth", "info", "ping", "pong" and "msg" message
          DataMax,   \* data_max_size
          MinBytes,  \* what process_next_message wants before it looks
          MaxPings, MaxMsgs  \* bounds on what an end sends by itself

VARIABLES task,       \* what the end does with the next message
          sendKey, recvKey, sendNonce, recvNonce,
          wire,       \* bytes on their way to the end
          pend,       \* frames in pending_message_buffer
          busy,       \* the read handler is in its loop
          buf,        \* decrypted_message_buffer
          sent,       \* messages the end has written
          got,        \* messages the end has handled
          dead,       \* a frame did not decrypt
          early       \* a ping was sent before the node information

secretVars == <<task, sendKey, recvKey, sendNonce, recvNonce, wire, pend,
                busy, buf, sent, got, dead, early>>

Peer(e) == CHOOSE o \in Ends : o # e

Eph == [key |-> "clear", nonce |-> 0, data |-> <<>>]

\* The units of the n-th message of an end, its length header included.
Units(kind, n) == [i \in 1..Sizes[kind] |-> <<kind, n>>]

Chunk(data, i) ==
  SubSeq(data, (i - 1) * DataMax + 1,
         IF i * DataMax < Len(data) THEN i * DataMax ELSE Len(data))

Frames(data, key, nonce) ==
  [i \in 1..((Len(data) + DataMax - 1) \div DataMax) |->
     [key |-> key, nonce |-> nonce + i - 1, data |-> Chunk(data, i)]]

\* write_msg on the secret connection, with the keys the end has now.
WriteMsg(e, kind, key) ==
  LET frames == Frames(Units(kind, Len(sent[e]) + 1), key, sendNonce[e])
  IN  /\ wire' = [wire EXCEPT ![Peer(e)] = @ \o frames]
      /\ sendNonce' = [sendNonce EXCEPT ![e] = @ + Len(frames)]
      /\ sent' = [sent EXCEPT ![e] = Append(@, kind)]

\* What shared_eph_pub_key derives: the two directions have keys of their own.
SendSecret(e) == IF e = Lower THEN "second" ELSE "first"
RecvSecret(e) == IF e = Lower THEN "first" ELSE "second"

SecretInit ==
  /\ task = [e \in Ends |-> "eph"]
  /\ sendKey = [e \in Ends |-> "zero"]
  /\ recvKey = [e \in Ends |-> "zero"]
  /\ sendNonce = [e \in Ends |-> 0]
  /\ recvNonce = [e \in Ends |-> 0]
  /\ wire = [e \in Ends |-> <<Eph>>]
  /\ pend = [e \in Ends |-> <<>>]
  /\ busy = [e \in Ends |-> FALSE]
  /\ buf = [e \in Ends |-> <<>>]
  /\ sent = [e \in Ends |-> <<>>]
  /\ got = [e \in Ends |-> <<>>]
  /\ dead = FALSE
  /\ early = FALSE

-----------------------------------------------------------------------------

\* What a read leaves in pending_message_buffer once the key is taken out.
TakenWithKey(stream, k) == SubSeq(stream, 2, k + 1)

\* The read of the ephemeral key; k frames come in with it.
SharedEphPubKey(e) ==
  /\ ~dead
  /\ task[e] = "eph"
  /\ wire[e] # <<>>
  /\ \E k \in 0..(Len(wire[e]) - 1) :
       /\ pend' = [pend EXCEPT ![e] = TakenWithKey(wire[e], k)]
       /\ LET frames == Frames(Units("auth", Len(sent[e]) + 1), SendSecret(e), sendNonce[e])
          IN  /\ wire' = [wire EXCEPT ![e] = SubSeq(@, k + 2, Len(@)),
                                      ![Peer(e)] = @ \o frames]
              /\ sendNonce' = [sendNonce EXCEPT ![e] = @ + Len(frames)]
  /\ sent' = [sent EXCEPT ![e] = Append(@, "auth")]
  /\ sendKey' = [sendKey EXCEPT ![e] = SendSecret(e)]
  /\ recvKey' = [recvKey EXCEPT ![e] = RecvSecret(e)]
  /\ task' = [task EXCEPT ![e] = "auth"]
  /\ UNCHANGED <<recvNonce, busy, buf, got, dead, early>>

\* read_a_secret_message: at least one frame of new bytes, whatever is
\* already in pending_message_buffer.
ReadASecretMessage(e) ==
  /\ ~dead
  /\ task[e] # "eph"
  /\ ~busy[e]
  /\ \E k \in 1..Len(wire[e]) :
       /\ pend' = [pend EXCEPT ![e] = @ \o SubSeq(wire[e], 1, k)]
       /\ wire' = [wire EXCEPT ![e] = SubSeq(@, k + 1, Len(@))]
  /\ busy' = [busy EXCEPT ![e] = TRUE]
  /\ UNCHANGED <<task, sendKey, recvKey, sendNonce, recvNonce, buf, sent, got,
                 dead, early>>


\* Does process_next_message find a whole message?
HasMessage(b) ==
  /\ Len(b) >= MinBytes
  /\ Len(b) >= Sizes[Head(b)[1]]

Decrypts(e, frame) == frame.key = recvKey[e] /\ frame.nonce = recvNonce[e]

\* One turn of the loop over the frames, or its end.
NextFrame(e) ==
  /\ ~dead
  /\ busy[e]
  /\ ~HasMessage(buf[e])
  /\ IF pend[e] = <<>>
     THEN /\ busy' = [busy EXCEPT ![e] = FALSE]
          /\ UNCHANGED <<pend, buf, recvNonce, dead>>
     ELSE LET frame == Head(pend[e])
          IN  /\ dead' = ~Decrypts(e, frame)
              /\ pend' = [pend EXCEPT ![e] = Tail(@)]
              /\ buf' = [buf EXCEPT ![e] = IF Decrypts(e, frame) THEN @ \o frame.data ELSE @]
              /\ recvNonce' = [recvNonce EXCEPT ![e] = @ + 1]
              /\ UNCHANGED busy
  /\ UNCHANGED <<task, sendKey, recvKey, sendNonce, wire, sent, got, early>>

\* Variant: an end sends its node information once it has the other's.
AnswerLate(doing, kind) ==
  CASE doing = "info" -> "info"
    [] doing = "run" /\ kind = "ping" -> "pong"
    [] OTHER -> "none"

\* What the task writes: task_authenticate the node information, and
\* task_process_message a pong for a ping.
Answer(doing, kind) ==
  CASE doing = "auth" -> "info"
    [] doing = "run" /\ kind = "ping" -> "pong"
    [] OTHER -> "none"

\* The task that is installed next (cb_current_task).
NextTask(doing) == IF doing = "auth" THEN "info" ELSE "run"

\* process_next_message: the current task takes the message.
ProcessNextMessage(e) ==
  /\ ~dead
  /\ HasMessage(buf[e])
  /\ LET unit == Head(buf[e])
         answer == Answer(task[e], unit[1])
     IN  /\ buf' = [buf EXCEPT ![e] = SubSeq(@, Sizes[unit[1]] + 1, Len(@))]
         /\ got' = [got EXCEPT ![e] = Append(@, unit)]
         /\ task' = [task EXCEPT ![e] = NextTask(@)]
         /\ IF answer = "none"
            THEN UNCHANGED <<wire, sendNonce, sent>>
            ELSE WriteMsg(e, answer, sendKey[e])
  /\ UNCHANGED <<sendKey, recvKey, recvNonce, pend, busy, dead, early>>

\* check_heartbeat on a peer that is not late: a ping, at any time in a
\* session, sealed with whatever key and nonce there are.
Ping(e) ==
  /\ ~dead
  /\ ~busy[e]
  /\ Len(SelectSeq(sent[e], LAMBDA kind : kind = "ping")) < MaxPings
  /\ WriteMsg(e, "ping", sendKey[e])
  /\ early' = (early \/ task[e] \in {"eph", "auth"})
  /\ UNCHANGED <<task, sendKey, recvKey, recvNonce, pend, busy, buf, got, dead>>

\* A packet for the peer (transmit_message to a connection with a node id).
Send(e) ==
  /\ ~dead
  /\ ~busy[e]
  /\ task[e] = "run"
  /\ Len(SelectSeq(sent[e], LAMBDA kind : kind = "msg")) < MaxMsgs
  /\ WriteMsg(e, "msg", sendKey[e])
  /\ UNCHANGED <<task, sendKey, recvKey, recvNonce, pend, busy, buf, got, dead, early>>

SecretNext ==
  \E e \in Ends :
    \/ SharedEphPubKey(e)
    \/ ReadASecretMessage(e)
    \/ NextFrame(e)
    \/ ProcessNextMessage(e)
    \/ Ping(e)
    \/ Send(e)

\* The handlers of a connection run; nobody has to ping or to send.
SecretFairness ==
  \A e \in Ends : WF_secretVars(\/ SharedEphPubKey(e)
                                \/ ReadASecretMessage(e)
                                \/ NextFrame(e)
                                \/ ProcessNextMessage(e))

SecretSpec == SecretInit /\ [][SecretNext]_secretVars /\ SecretFairness

-----------------------------------------------------------------------------

\* Every frame decrypts (p2p.cpp:1083, where one that does not ends the
\* process with a bare throw), in every interleaving of the two ends and of
\* the packets with the handshake, unless the heartbeat pinged a session that
\* was still in its handshake: such a ping may be sealed with the empty key.
FramesDecrypt == dead => early


\* Each task meets the message it was installed for (task_authenticate the
\* signature, task_node_info the node information): none of the two looks at
\* what kind of message it is given, and a ping in the handshake is taken for
\* the node information.
TasksMeetTheirMessage ==
  early \/ \A e \in Ends :
    /\ task[e] \in {"info", "run"} => Len(got[e]) >= 1 /\ got[e][1][1] = "auth"
    /\ task[e] = "run" => Len(got[e]) >= 2 /\ got[e][2][1] = "info"

\* The handshake ends on both sides although a read may take the first
\* sealed frame together with the key and then wait for another one, unless
\* the heartbeat pinged in the middle of it.
HandshakeCompletes == <>(early \/ \A e \in Ends : task[e] = "run")
=============================================================================
