-------------------------------- MODULE MCNetwork --------------------------------
(***************************************************************************)
(* The connections of a node, for TLC: those it dials, those it accepts,   *)
(* and the buffer that is read into.  They share no state: each behaviour  *)
(* explores the component that its focus names.                            *)
(***************************************************************************)
EXTENDS Integers, Sequences, TLC

CONSTANTS Junk

VARIABLES
  dial_conn, dial_strand, dial_ops, dial_timers, dial_inFlight,
  dial_monitors, dial_up, dial_listening, dial_twice, dial_events,
  listen_conn, listen_strand, listen_ops, listen_timers, listen_inFlight,
  listen_monitors, listen_up, listen_listening, listen_twice, listen_events,
  buffer_user, buffer_buf, buffer_pending, buffer_wanted, buffer_got,
  focus                          \* the component that moves

Dial == INSTANCE Connections WITH
  Outbound <- {"o"}, Inbound <- {}, NodeOf <- ("o" :> 1), MaxClients <- 1,
  MaxWrites <- 1, MaxTwice <- 0, MaxEvents <- 2, conn <- dial_conn,
  strand <- dial_strand, ops <- dial_ops, timers <- dial_timers,
  inFlight <- dial_inFlight, monitors <- dial_monitors, up <- dial_up,
  listening <- dial_listening, twice <- dial_twice, events <- dial_events

Listen == INSTANCE Connections WITH
  Outbound <- {}, Inbound <- {"i", "j"}, NodeOf <- ("i" :> 2) @@ ("j" :>
  3), MaxClients <- 1, MaxWrites <- 1, MaxTwice <- 0, MaxEvents <- 1,
  conn <- listen_conn, strand <- listen_strand, ops <- listen_ops,
  timers <- listen_timers, inFlight <- listen_inFlight,
  monitors <- listen_monitors, up <- listen_up,
  listening <- listen_listening, twice <- listen_twice,
  events <- listen_events

Buffer == INSTANCE MessageBuffer WITH
  BufferLen <- 2, Bytes <- {0, 1}, MaxBuffers <- 3, MaxRead <- 3,
  user <- buffer_user, buf <- buffer_buf, pending <- buffer_pending,
  wanted <- buffer_wanted, got <- buffer_got

dialVars == <<dial_conn, dial_strand, dial_ops, dial_timers, dial_inFlight,
           dial_monitors, dial_up, dial_listening, dial_twice, dial_events>>
listenVars == <<listen_conn, listen_strand, listen_ops, listen_timers,
           listen_inFlight, listen_monitors, listen_up, listen_listening,
           listen_twice, listen_events>>
bufferVars == <<buffer_user, buffer_buf, buffer_pending, buffer_wanted, buffer_got>>
allVars == <<dialVars, listenVars, bufferVars, focus>>

-----------------------------------------------------------------------------
Init ==
  /\ focus \in {"dial", "listen", "buffer"}
  /\ Dial!ConnInit
  /\ Listen!ConnInit
  /\ IF focus = "buffer" THEN Buffer!BufferInit ELSE buffer_user = <<>> /\ buffer_buf = <<>> /\ buffer_pending = <<>> /\ buffer_wanted = <<>> /\ buffer_got = <<>>

DialMoves == focus = "dial" /\ Dial!ConnNext /\ UNCHANGED <<listenVars, bufferVars, focus>>
ListenMoves == focus = "listen" /\ Listen!ConnNext /\ UNCHANGED <<dialVars, bufferVars, focus>>
BufferMoves == focus = "buffer" /\ Buffer!BufferNext /\ UNCHANGED <<dialVars, listenVars, focus>>

Next == DialMoves \/ ListenMoves \/ BufferMoves

(* ConnFairness of the connections that are dialled; written out, it costs *)
(* TLC half of what an implication would.                                  *)
Fairness ==
  /\ WF_dialVars(focus = "dial" /\ Dial!Expire)
  /\ WF_dialVars(focus = "dial" /\ Dial!TimerHandler)
  /\ WF_dialVars(focus = "dial" /\ Dial!ConnectionMonitor)
  /\ WF_dialVars(focus = "dial" /\ Dial!Handlers("o"))
  /\ WF_dialVars(focus = "dial" /\ Dial!Complete("o", Dial!DialOps))

Spec == Init /\ [][Next]_allVars /\ Fairness

-----------------------------------------------------------------------------

(* A closed outbound connection is opened again (Connections).             *)
OpensAgain == focus = "dial" => Dial!OpensAgain

(* The chain of buffers is sound and holds what was written and not read;  *)
(* read, peek and Conn::read give the stream (MessageBuffer).              *)
ReadsTheStream ==
  focus = "buffer" => Buffer!ChainIsSound /\ Buffer!HoldsThePending /\ Buffer!ReadsTheStream

==============================================================================
