---------------------------- MODULE Connections ----------------------------
(***************************************************************************)
(* The connections of a node (p2p.cpp, queued_buffer.h): dialling,         *)
(* accepting, closing, the connection monitor and its timer, the write     *)
(* queue, and what the reactors are told of the peers.                     *)
(*                                                                         *)
(* Every connection has a strand, a queue of handlers that run one after   *)
(* the other: the operations post handlers to it, and so does the end of   *)
(* an asynchronous resolve, connect, read or write.  A handler of the last *)
(* three holds the socket it was started on, and _close gives the          *)
(* connection another one: "same" tells whether the two are still equal.   *)
(* _close also ends what is pending on the old socket.                     *)
(***************************************************************************)
EXTENDS Integers, Sequences, FiniteSets, SequencesExt

CONSTANTS Outbound,   \* connections to the peers of the configuration
          Inbound,    \* connection objects for the peers that dial
          NodeOf,     \* the node id at the other end of a connection
          MaxClients, \* max_client_count
          MaxWrites,  \* the limit of the write queue
          MaxTwice,   \* bound on the connections dialled twice
          MaxEvents   \* bound on the errors, late peers, disconnections, sends

VARIABLES conn,       \* the state of a connection
          strand,     \* the handlers posted to its strand
          ops,        \* its asynchronous operations
          timers,     \* waits on the timer of the monitor, by what became of them
          inFlight,   \* connector_checks_in_flight
          monitors,   \* monitor calls under way, with and without "reschedule"
          up,         \* node ids the reactors believe connected
          listening,  \* an accept is outstanding
          twice,      \* connections dialled while a dial was under way
          events

connVars == <<conn, strand, ops, timers, inFlight, monitors, up, listening,
              twice, events>>

Conns == Outbound \union Inbound

\* listed: in p2p_impl::connections; out: buffers in the out queue; queued:
\* buffers in the write queue; task: what the session is doing.
Fresh == [listed |-> FALSE, open |-> FALSE, connecting |-> TRUE,
          task |-> "none", known |-> FALSE, out |-> 0, queued |-> 0]

Handler(op) == [op |-> op, same |-> TRUE, res |-> "ok"]
Closing(res) == [op |-> "close", same |-> TRUE, res |-> res]
Operation(op) == [op |-> op, same |-> TRUE]

\* plugin_startup: the configured peers are dialled, the monitor's timer
\* and the listen loop are started.
ConnInit ==
  /\ conn = [c \in Conns |-> [Fresh EXCEPT !.listed = (c \in Outbound)]]
  /\ strand = [c \in Conns |-> IF c \in Outbound THEN <<Handler("dial")>> ELSE <<>>]
  /\ ops = [c \in Conns |-> <<>>]
  /\ timers = [waiting |-> 1, expired |-> 0, aborted |-> 0]
  /\ inFlight = 1
  /\ monitors = [last |-> 0, other |-> 0]
  /\ up = {}
  /\ listening = TRUE
  /\ twice = {}
  /\ events = 0

-----------------------------------------------------------------------------
\* The monitor and its timer.

\* start_conn_timer: expires_from_now cancels the waits that are pending.
StartConnTimer(ts) ==
  [waiting |-> 1, expired |-> ts.expired, aborted |-> ts.aborted + ts.waiting]

\* The time is up: the handler of the wait will run without an error.  The
\* delays are long enough for the handlers and the monitor to be done.
Expire ==
  /\ timers.waiting = 1 /\ timers.expired = 0 /\ timers.aborted = 0
  /\ monitors.last = 0 /\ monitors.other = 0
  /\ timers' = [timers EXCEPT !.waiting = 0, !.expired = @ + 1]
  /\ UNCHANGED <<conn, strand, ops, inFlight, monitors, up, listening, twice, events>>

\* Should the chain of checks go on from here?
LastInFlight(left) == left = 0

\* The handler of a wait, up to the unlock of connector_check_timer_mtx
\* when it was not cancelled.
TimerHandler ==
  /\ LET last == LastInFlight(inFlight - 1)
         rest == [timers EXCEPT !.aborted = @ - 1]
     IN  \/ /\ timers.expired > 0
            /\ timers' = [timers EXCEPT !.expired = @ - 1]
            /\ inFlight' = inFlight - 1
            /\ monitors' = IF last THEN [monitors EXCEPT !.last = @ + 1]
                           ELSE [monitors EXCEPT !.other = @ + 1]
         \/ /\ timers.aborted > 0
            /\ timers' = IF last THEN StartConnTimer(rest) ELSE rest
            /\ inFlight' = IF last THEN inFlight ELSE inFlight - 1
            /\ UNCHANGED monitors
  /\ UNCHANGED <<conn, strand, ops, up, listening, twice, events>>

\* Connections the monitor finds closed.
Idle(c) == conn[c].listed /\ ~conn[c].open /\ ~conn[c].connecting

\* A dial that has not come to connect() yet: it leaves "connecting" false.
Dialling(c) ==
  \/ \E i \in DOMAIN strand[c] : strand[c][i].op \in {"dial", "resolved"}
  \/ \E i \in DOMAIN ops[c] : ops[c][i].op = "resolved"

\* connection_monitor: the closed outbound connections are dialled again
\* and the closed inbound ones are forgotten.  A name that takes longer to
\* resolve than the monitor takes to come back is met MaxTwice times.
ConnectionMonitor ==
  /\ \/ /\ monitors.last > 0
        /\ monitors' = [monitors EXCEPT !.last = @ - 1]
        /\ timers' = StartConnTimer(timers)
        /\ inFlight' = inFlight + 1
     \/ /\ monitors.other > 0
        /\ monitors' = [monitors EXCEPT !.other = @ - 1]
        /\ UNCHANGED <<timers, inFlight>>
  /\ strand' = [c \in Conns |-> IF Idle(c) /\ c \in Outbound
                                THEN Append(strand[c], Handler("dial"))
                                ELSE strand[c]]
  /\ conn' = [c \in Conns |-> IF Idle(c) /\ c \in Inbound
                              THEN [conn[c] EXCEPT !.listed = FALSE]
                              ELSE conn[c]]
  /\ LET again == {c \in Outbound : Idle(c) /\ Dialling(c)}
     IN  /\ twice' = twice \union again /\ again \intersect twice = {}
         /\ Cardinality(twice') <= MaxTwice
  /\ UNCHANGED <<ops, up, listening, events>>

-----------------------------------------------------------------------------
\* The write queue (queued_buffer.h).


ReadyToSend(k) == k.queued > 0 /\ k.out = 0

\* do_queue_write: fill_out_buffer, and the write is posted.
Filled(k) == IF ReadyToSend(k) THEN [k EXCEPT !.out = k.queued, !.queued = 0] ELSE k
WritePosts(k) == IF ReadyToSend(k) THEN <<Handler("write")>> ELSE <<>>

\* enqueue_buffer of one message: the connection and what it posts.
Enqueued(k) ==
  LET q == [k EXCEPT !.queued = @ + 1]
  IN  IF q.queued > 2 * MaxWrites
      THEN [conn |-> q, posts |-> <<Closing("reconnect")>>]
      ELSE [conn |-> Filled(q), posts |-> WritePosts(q)]

-----------------------------------------------------------------------------
\* The handlers of a strand.

\* The handler at the head of the strand is op.
Runs(c, op) == strand[c] # <<>> /\ Head(strand[c]).op = op

\* The handler ends: the connection's new state, what it posts, what it starts.
Done(c, k, posts, started) ==
  /\ conn' = [conn EXCEPT ![c] = k]
  /\ strand' = [strand EXCEPT ![c] = Tail(@) \o posts]
  /\ ops' = [ops EXCEPT ![c] = @ \o started]

\* Operations that end with an error because their socket was closed.
OnSocket(o) == o.op \in {"connected", "read", "wrote"}
Aborted(os, same) ==
  LET cut == SelectSeq(os, OnSocket)
  IN  [i \in DOMAIN cut |-> [op |-> cut[i].op, same |-> same /\ cut[i].same, res |-> "error"]]
OffSocket(os) == SelectSeq(os, LAMBDA o : ~OnSocket(o))

\* resolve_and_connect, on the strand.
Dial(c) ==
  /\ Runs(c, "dial")
  /\ Done(c, conn[c], <<>>, <<Operation("resolved")>>)
  /\ UNCHANGED <<timers, inFlight, monitors, up, listening, twice, events>>

\* connect(): async_connect closes the socket before it connects it.
Resolved(c) ==
  /\ Runs(c, "resolved")
  /\ IF Head(strand[c]).res = "ok"
     THEN /\ conn' = [conn EXCEPT ![c].connecting = TRUE, ![c].out = 0]
          /\ strand' = [strand EXCEPT ![c] = Tail(@) \o Aborted(ops[c], TRUE)]
          /\ ops' = [ops EXCEPT ![c] = Append(OffSocket(@), Operation("connected"))]
     ELSE Done(c, [conn[c] EXCEPT !.connecting = FALSE], <<>>, <<>>)
  /\ UNCHANGED <<timers, inFlight, monitors, up, listening, twice, events>>

\* start_session and start_handshake: the ephemeral key is written, the
\* other's is read.
Started(k) == Enqueued([k EXCEPT !.open = TRUE, !.task = "eph"])

Connected(c) ==
  /\ Runs(c, "connected")
  /\ LET h == Head(strand[c])
         session == Started(conn[c])
     IN  IF h.res = "ok" /\ h.same
         THEN Done(c, session.conn, session.posts, <<Operation("read")>>)
         ELSE Done(c, conn[c], <<Closing("stay")>>, <<>>)
  /\ UNCHANGED <<timers, inFlight, monitors, up, listening, twice, events>>

\* What the message does in each phase of the session.  The two sealed
\* messages of the handshake are one here (SecretConnection has both).
Handled(k) ==
  CASE k.task = "eph" -> Enqueued([k EXCEPT !.task = "auth"])
    [] k.task = "auth" -> Enqueued([k EXCEPT !.task = "run", !.known = TRUE])
    [] OTHER -> [conn |-> k, posts |-> <<>>]

\* read_a_secret_message: no read when the write queue is too long.
NextRead(k) == IF k.queued > MaxWrites THEN <<>> ELSE <<Operation("read")>>
NextReadPosts(k) == IF k.queued > MaxWrites THEN <<Closing("stay")>> ELSE <<>>

\* The read handler.  An error in the handshake before the secrets is not
\* looked at (read_a_message); after it the connection is closed and the
\* reactors are told, by the node id the connection has.
Read(c) ==
  /\ Runs(c, "read")
  /\ LET h == Head(strand[c])
         k == conn[c]
         then == Handled(k)
     IN  CASE ~k.open \/ ~h.same \/ (h.res = "error" /\ k.task = "eph") ->
                /\ Done(c, k, <<>>, <<>>)
                /\ UNCHANGED up
           [] h.res = "error" /\ k.open /\ h.same /\ k.task # "eph" ->
                /\ Done(c, k, <<Closing("reconnect")>>, <<>>)
                /\ up' = IF k.known THEN up \ {NodeOf[c]} ELSE up
           [] h.res = "refused" /\ k.open /\ h.same ->
                /\ Done(c, k, <<Closing("reconnect")>> \o NextReadPosts(k), NextRead(k))
                /\ UNCHANGED up
           [] OTHER ->
                /\ Done(c, then.conn, then.posts \o NextReadPosts(then.conn), NextRead(then.conn))
                /\ up' = IF then.conn.known THEN up \union {NodeOf[c]} ELSE up
  /\ UNCHANGED <<timers, inFlight, monitors, listening, twice, events>>

\* The posted async_write.
Write(c) ==
  /\ Runs(c, "write")
  /\ Done(c, conn[c], <<>>, <<Operation("wrote")>>)
  /\ UNCHANGED <<timers, inFlight, monitors, up, listening, twice, events>>

\* Its callback.
Wrote(c) ==
  /\ Runs(c, "wrote")
  /\ LET h == Head(strand[c])
         k == [conn[c] EXCEPT !.out = 0]
     IN  IF ~k.open \/ ~h.same \/ h.res = "error"
         THEN Done(c, k, <<Closing("reconnect")>>, <<>>)
         ELSE Done(c, Filled(k), WritePosts(k), <<>>)
  /\ UNCHANGED <<timers, inFlight, monitors, up, listening, twice, events>>

\* A packet to send, or a ping: nobody looks whether the socket is open.
Enqueue(c) ==
  /\ Runs(c, "send")
  /\ LET sent == Enqueued(conn[c]) IN Done(c, sent.conn, sent.posts, <<>>)
  /\ UNCHANGED <<timers, inFlight, monitors, up, listening, twice, events>>

\* check_heartbeat of a peer that has been silent for too long.
Late(c) ==
  /\ Runs(c, "late")
  /\ Done(c, conn[c], <<Closing(IF c \in Outbound THEN "reconnect" ELSE "stay")>>, <<>>)
  /\ UNCHANGED <<timers, inFlight, monitors, up, listening, twice, events>>

\* Variant: "connecting" is left as it was.
ClosedStillConnecting(k) ==
  [k EXCEPT !.open = FALSE, !.known = FALSE, !.task = "none", !.queued = 0]

\* The state _close leaves.
Closed(k) == [k EXCEPT !.open = FALSE, !.connecting = FALSE, !.known = FALSE,
                       !.task = "none", !.queued = 0]

\* _close: another socket; what was pending on the old one ends with an error.
Close(c) ==
  /\ Runs(c, "close")
  /\ LET reconnect == Head(strand[c]).res = "reconnect"
         rest == Tail(strand[c])
     IN  /\ conn' = [conn EXCEPT ![c] = Closed(@)]
         /\ strand' = [strand EXCEPT ![c] =
              [i \in DOMAIN rest |-> IF OnSocket(rest[i]) THEN [rest[i] EXCEPT !.same = FALSE]
                                     ELSE rest[i]] \o Aborted(ops[c], FALSE)]
         /\ ops' = [ops EXCEPT ![c] = OffSocket(@)]
         /\ timers' = IF reconnect THEN StartConnTimer(timers) ELSE timers
         /\ inFlight' = IF reconnect THEN inFlight + 1 ELSE inFlight
  /\ UNCHANGED <<monitors, up, listening, twice, events>>

-----------------------------------------------------------------------------
\* What comes from outside: the network, the other plug-ins, the clock.

Event == events < MaxEvents /\ events' = events + 1

DialOps == {"resolved", "connected"}
SessionOps == {"read", "wrote"}

\* An asynchronous operation ends.
Complete(c, which) ==
  /\ \E i \in DOMAIN ops[c] :
       LET o == ops[c][i]
       IN  /\ o.op \in which
           /\ \E res \in {"ok", "error", "refused"} :
             /\ res = "refused" => o.op = "read" /\ conn[c].task \in {"auth", "run"}
             /\ o.op = "wrote" /\ ~conn[c].open => res = "error"
             /\ IF res = "ok" \/ (o.op = "wrote" /\ ~conn[c].open) THEN UNCHANGED events ELSE Event
             /\ ops' = [ops EXCEPT ![c] = RemoveAt(@, i)]
             /\ strand' = [strand EXCEPT ![c] =
                  Append(@, [op |-> o.op, same |-> o.same, res |-> res])]
  /\ UNCHANGED <<conn, timers, inFlight, monitors, up, listening, twice>>

\* start_listen_loop: a peer dials.
Visitors == {c \in Inbound : conn[c].listed /\ conn[c].open}

MayVisit(c) ==
  /\ MaxClients = 0 \/ Cardinality(Visitors) < MaxClients
  /\ \A d \in Visitors : NodeOf[d] # NodeOf[c]

Accept(c) ==
  /\ listening
  /\ ~conn[c].listed /\ strand[c] = <<>> /\ ops[c] = <<>>
  /\ MayVisit(c)
  /\ LET session == Started(Fresh)
     IN  /\ conn' = [conn EXCEPT ![c] = [session.conn EXCEPT !.listed = TRUE]]
         /\ strand' = [strand EXCEPT ![c] = session.posts]
         /\ ops' = [ops EXCEPT ![c] = <<Operation("read")>>]
  /\ UNCHANGED <<timers, inFlight, monitors, up, listening, twice, events>>

\* An accept that fails for a reason that is not in the list ends the loop.
AcceptFails ==
  /\ listening
  /\ Event
  /\ listening' \in BOOLEAN
  /\ UNCHANGED <<conn, strand, ops, timers, inFlight, monitors, up, twice>>

Post(c, h) ==
  /\ strand' = [strand EXCEPT ![c] = Append(@, h)]
  /\ UNCHANGED <<conn, ops, timers, inFlight, monitors, up, listening, twice>>

\* ticker: the connection has been silent for too long, or is pinged.
Tick(c) ==
  /\ conn[c].listed /\ conn[c].open
  /\ Event
  /\ \E op \in {"late", "send"} : Post(c, Handler(op))

\* transmit_message, send_peer_error.
Transmit(c) ==
  /\ conn[c].listed /\ conn[c].open /\ conn[c].known
  /\ Event
  /\ Post(c, Handler("send"))

\* p2p_impl::disconnect, for a peer that complained.
Disconnect(c) ==
  /\ conn[c].listed /\ conn[c].open /\ conn[c].known
  /\ Event
  /\ Post(c, Closing("stay"))

\* p2p::disconnect and p2p::connect of a host: the first forgets the
\* connection before it is closed, the second makes another one.
DisconnectHost(c) ==
  /\ conn[c].listed
  /\ Event
  /\ conn' = [conn EXCEPT ![c].listed = FALSE]
  /\ strand' = [strand EXCEPT ![c] = Append(@, Closing("reconnect"))]
  /\ UNCHANGED <<ops, timers, inFlight, monitors, up, listening, twice>>

ConnectHost(c) ==
  /\ ~conn[c].listed /\ strand[c] = <<>> /\ ops[c] = <<>>
  /\ conn' = [conn EXCEPT ![c] = [Fresh EXCEPT !.listed = TRUE]]
  /\ strand' = [strand EXCEPT ![c] = <<Handler("dial")>>]
  /\ UNCHANGED <<ops, timers, inFlight, monitors, up, listening, twice, events>>

Handlers(c) ==
  \/ Dial(c)
  \/ Resolved(c)
  \/ Connected(c)
  \/ Read(c)
  \/ Write(c)
  \/ Wrote(c)
  \/ Enqueue(c)
  \/ Late(c)
  \/ Close(c)

ConnNext ==
  \/ Expire
  \/ TimerHandler
  \/ ConnectionMonitor
  \/ AcceptFails
  \/ \E c \in Conns :
       \/ Handlers(c)
       \/ Complete(c, DialOps)
       \/ Complete(c, SessionOps)
       \/ Tick(c)
       \/ Transmit(c)
       \/ Disconnect(c)
  \/ \E c \in Inbound : Accept(c)
  \/ \E c \in Outbound : DisconnectHost(c) \/ ConnectHost(c)

\* The executor runs what is posted, timers expire, and the network answers a
\* resolve and a connect with something.
ConnFairness ==
  /\ WF_connVars(Expire)
  /\ WF_connVars(TimerHandler)
  /\ WF_connVars(ConnectionMonitor)
  /\ \A c \in Conns : WF_connVars(Handlers(c)) /\ WF_connVars(Complete(c, DialOps))

ConnSpec == ConnInit /\ [][ConnNext]_connVars /\ ConnFairness

-----------------------------------------------------------------------------

\* The connection checks never stop (start_conn_timer, connection_monitor):
\* whatever cancels, expires and restarts the timer, some wait is pending or
\* some monitor is about to start one, and the counter counts the waits.
MonitorAlive ==
  /\ inFlight = timers.waiting + timers.expired + timers.aborted
  /\ inFlight > 0 \/ monitors.last > 0

\* At most max_client_count visitors have a session, and one per host.
ClientLimit ==
  /\ MaxClients = 0 \/ Cardinality({c \in Inbound : conn[c].open}) <= MaxClients
  /\ \A c, d \in Inbound : conn[c].open /\ conn[d].open /\ NodeOf[c] = NodeOf[d] => c = d

Count(s, T(_)) == Len(SelectSeq(s, T))

\* At most one write is under way on the socket of a connection: two would
\* interleave their frames.  A connection that the monitor dialled while an
\* earlier dial was still resolving the name is the exception: connect()
\* empties the out queue of the session the first dial has started.
OneWrite ==
  \A c \in Conns \ twice :
    Count(ops[c], LAMBDA o : o.op = "wrote" /\ o.same)
      + Count(strand[c], LAMBDA h : h.op = "write" \/ (h.op = "wrote" /\ h.same)) <= 1

\* A connection with a running session is one the reactors know to be up,
\* unless its close is already posted.
SessionIsUp ==
  \A c \in Conns :
    conn[c].open /\ conn[c].task = "run" =>
      \/ NodeOf[c] \in up
      \/ \E i \in DOMAIN strand[c] : strand[c][i].op = "close"

\* An outbound connection that is closed is opened again, whichever of the
\* many ways to close it was taken and whatever became of the timer, unless
\* the host is removed.
OpensAgain ==
  \A c \in Outbound :
    [](conn[c].listed /\ ~conn[c].open => <>(conn[c].open \/ ~conn[c].listed))
=============================================================================
