------------------------------ MODULE AbciClient ------------------------------
(***************************************************************************)
(* The socket client of the application (tendermint/abci/client): callers  *)
(* put requests into a queue, one routine sends them in order and notes    *)
(* them as sent, another reads the responses and gives each one to the     *)
(* oldest request that was sent.  A synchronous call queues its request,   *)
(* then a flush, and waits until the flush is done.                        *)
(*                                                                         *)
(* A request is [caller, call, kind]; a response carries the request it    *)
(* answers, of which the client compares the kind only.  The application   *)
(* answers in order.  Three details of the code are kept:                  *)
(*  - WaitGroup::done changes the counter and notifies without the lock of *)
(*    wait, so that a waiter may test the counter before, and go to sleep  *)
(*    after, the notification;                                             *)
(*  - write_message does not look at the results of the writes;            *)
(*  - stop_for_error assigns through err.error() while err holds success,  *)
(*    which Boost.Outcome answers with an exception: the routine ends      *)
(*    there, err stays success and the service goes on as running.         *)
(***************************************************************************)
EXTENDS Integers, Sequences

CONSTANTS
  Callers,
  MaxCalls,              \* bound: calls of each caller
  ReqQueueSize,          \* req_queue_size
  NoRequest,             \* nothing in hand, no response
  MaxFaults              \* bound: broken connections and calls of stop()

VARIABLES
  pc,                    \* where each caller is in its call
  calls,                 \* calls each caller has begun
  reqQueue,              \* req_queue
  reqSent,               \* req_sent
  sending,               \* noted as sent, being written
  toApp, fromApp,        \* the two directions of the connection
  reading,               \* read, not yet handled by did_recv_response
  receiver,              \* recv_response_routine is running
  open,                  \* the connection is open
  running,               \* is_running()
  wg,                    \* the counter of each request's wait group
  response,              \* the response of each request
  missed,                \* history: callers whose notification came before their sleep
  faults

abciVars == <<pc, calls, reqQueue, reqSent, sending, toApp, fromApp, reading, receiver, open, running, wg, response, missed, faults>>

Kinds == {"sync", "async", "flush"}
Requests == [caller : Callers, call : 1..MaxCalls, kind : Kinds]

Req(c, kind) == [caller |-> c, call |-> calls[c], kind |-> kind]

-----------------------------------------------------------------------------
(* The callers *)

(* queue_request: blocks while the queue is full.                          *)
QueueRequest(req) ==
  /\ Len(reqQueue) < ReqQueueSize
  /\ reqQueue' = Append(reqQueue, req)

(* An *_async call: error() is success, whatever happened.                 *)
CallAsync(c) ==
  /\ pc[c] = "idle" /\ calls[c] < MaxCalls
  /\ QueueRequest([caller |-> c, call |-> calls[c] + 1, kind |-> "async"])
  /\ calls' = [calls EXCEPT ![c] = @ + 1]
  /\ UNCHANGED <<pc, reqSent, sending, toApp, fromApp, reading, receiver, open, running, wg, response, missed, faults>>

(* A *_sync call: queue_request_and_flush_sync ...                         *)
CallSync(c) ==
  /\ pc[c] = "idle" /\ calls[c] < MaxCalls
  /\ QueueRequest([caller |-> c, call |-> calls[c] + 1, kind |-> "sync"])
  /\ calls' = [calls EXCEPT ![c] = @ + 1]
  /\ pc' = [pc EXCEPT ![c] = "flush"]
  /\ missed' = missed \ {c}
  /\ UNCHANGED <<reqSent, sending, toApp, fromApp, reading, receiver, open, running, wg, response, faults>>

(* ... then flush_sync: queue the flush and wait for it.                   *)
FlushSync(c) ==
  /\ pc[c] = "flush"
  /\ QueueRequest(Req(c, "flush"))
  /\ pc' = [pc EXCEPT ![c] = "test"]
  /\ UNCHANGED <<calls, reqSent, sending, toApp, fromApp, reading, receiver, open, running, wg, response, missed, faults>>

(* WaitGroup::wait: the predicate is tested ...                            *)
TestDone(c) ==
  /\ pc[c] = "test"
  /\ pc' = [pc EXCEPT ![c] = IF wg[Req(c, "flush")] = 0 THEN "got" ELSE "tested"]
  /\ UNCHANGED <<calls, reqQueue, reqSent, sending, toApp, fromApp, reading, receiver, open, running, wg, response, missed, faults>>

(* ... and only then does the thread sleep.                                *)
Sleep(c) ==
  /\ pc[c] = "tested"
  /\ pc' = [pc EXCEPT ![c] = "asleep"]
  /\ UNCHANGED <<calls, reqQueue, reqSent, sending, toApp, fromApp, reading, receiver, open, running, wg, response, missed, faults>>

(* The flush is done: the call returns the response of its request, whose  *)
(* content is taken without a look at whether there is one.                *)
Return(c) ==
  /\ pc[c] = "got"
  /\ pc' = [pc EXCEPT ![c] = "idle"]
  /\ UNCHANGED <<calls, reqQueue, reqSent, sending, toApp, fromApp, reading, receiver, open, running, wg, response, missed, faults>>

Waits(c, where, S) == pc[c] = where /\ Req(c, "flush") \in S


(* done() of the requests in S: count down and wake who sleeps.            *)
Done(S) ==
  /\ wg' = [r \in Requests |-> IF r \in S THEN wg[r] - 1 ELSE wg[r]]
  /\ pc' = [c \in Callers |-> IF Waits(c, "asleep", S) THEN "test" ELSE pc[c]]
  /\ missed' = missed \cup {c \in Callers : Waits(c, "tested", S)}

-----------------------------------------------------------------------------
(* send_requests_routine: the quit channel is never closed, so the routine *)
(* goes on after stop().                                                   *)
(* will_send_req notes the request, and write_message writes it: nothing   *)
(* is sent if the connection is closed, and nothing is said about it.      *)
SendRequestsRoutine ==
  /\ \/ /\ sending = NoRequest /\ reqQueue # <<>>
        /\ sending' = Head(reqQueue)
        /\ reqQueue' = Tail(reqQueue)
        /\ reqSent' = Append(reqSent, sending')
        /\ UNCHANGED toApp
     \/ /\ sending # NoRequest
        /\ toApp' = IF open THEN Append(toApp, sending) ELSE toApp
        /\ sending' = NoRequest
        /\ UNCHANGED <<reqQueue, reqSent>>
  /\ UNCHANGED <<pc, calls, fromApp, reading, receiver, open, running, wg, response, missed, faults>>

-----------------------------------------------------------------------------
(* recv_response_routine *)

ReadMessage ==
  /\ receiver /\ open /\ reading = NoRequest /\ fromApp # <<>>
  /\ reading' = Head(fromApp)
  /\ fromApp' = Tail(fromApp)
  /\ UNCHANGED <<pc, calls, reqQueue, reqSent, sending, toApp, receiver, open, running, wg, response, missed, faults>>

(* The connection is closed, or the response is an exception.              *)
ReadFails ==
  /\ receiver /\ ~open /\ reading = NoRequest
  /\ receiver' = FALSE
  /\ UNCHANGED <<pc, calls, reqQueue, reqSent, sending, toApp, fromApp, reading, open, running, wg, response, missed, faults>>

(* Variant: the response goes to the request that was sent last.           *)
OldestSentLast == reqSent[Len(reqSent)]

OldestSent == Head(reqSent)

(* res_matches_req *)
Matches(req, res) == req.kind = res.kind

Expected(res) == reqSent # <<>> /\ Matches(OldestSent, res)

DidRecvResponse ==
  /\ reading # NoRequest
  /\ IF Expected(reading)
     THEN /\ response' = [response EXCEPT ![OldestSent] = reading]
          /\ Done({OldestSent})
          /\ reqSent' = Tail(reqSent)
          /\ UNCHANGED receiver
     ELSE receiver' = FALSE /\ UNCHANGED <<response, wg, pc, missed, reqSent>>
  /\ reading' = NoRequest
  /\ UNCHANGED <<calls, reqQueue, sending, toApp, fromApp, open, running, faults>>

-----------------------------------------------------------------------------
(* The application, the connection, and the owner of the client *)

Answer ==
  /\ open /\ toApp # <<>>
  /\ fromApp' = Append(fromApp, Head(toApp))
  /\ toApp' = Tail(toApp)
  /\ UNCHANGED <<pc, calls, reqQueue, reqSent, sending, reading, receiver, open, running, wg, response, missed, faults>>

Break ==
  /\ open /\ faults < MaxFaults
  /\ open' = FALSE
  /\ faults' = faults + 1
  /\ UNCHANGED <<pc, calls, reqQueue, reqSent, sending, toApp, fromApp, reading, receiver, running, wg, response, missed>>

Elements(s) == {s[i] : i \in DOMAIN s}

(* stop(): on_stop closes the connection and drains the queues; what was   *)
(* sent stays in req_sent.                                                 *)
Stop ==
  /\ running /\ faults < MaxFaults
  /\ running' = FALSE
  /\ open' = FALSE
  /\ Done(Elements(reqSent) \cup Elements(reqQueue))
  /\ reqQueue' = <<>>
  /\ faults' = faults + 1
  /\ UNCHANGED <<calls, reqSent, sending, toApp, fromApp, reading, receiver, response>>

(* The client after start().                                               *)
AbciInit ==
  /\ pc = [c \in Callers |-> "idle"]
  /\ calls = [c \in Callers |-> 0]
  /\ reqQueue = <<>> /\ reqSent = <<>> /\ toApp = <<>> /\ fromApp = <<>>
  /\ sending = NoRequest /\ reading = NoRequest
  /\ receiver = TRUE /\ open = TRUE /\ running = TRUE
  /\ wg = [r \in Requests |-> 1]
  /\ response = [r \in Requests |-> NoRequest]
  /\ missed = {}
  /\ faults = 0

CallerStep(c) == FlushSync(c) \/ TestDone(c) \/ Sleep(c) \/ Return(c)
Routines == SendRequestsRoutine \/ ReadMessage \/ ReadFails \/ DidRecvResponse

AbciNext ==
  \/ \E c \in Callers : CallAsync(c) \/ CallSync(c) \/ CallerStep(c)
  \/ Routines
  \/ Answer
  \/ Break
  \/ Stop

(* The threads of the callers run, the routines are scheduled, and the     *)
(* application answers.                                                    *)
AbciFairness ==
  /\ \A c \in Callers : WF_abciVars(CallerStep(c))
  /\ WF_abciVars(SendRequestsRoutine)
  /\ WF_abciVars(ReadMessage) /\ WF_abciVars(DidRecvResponse)
  /\ WF_abciVars(Answer)

AbciSpec == AbciInit /\ [][AbciNext]_abciVars /\ AbciFairness

-----------------------------------------------------------------------------
(* Properties *)

(* A request is given its own response, though the client compares kinds   *)
(* only: requests are noted in the order in which they are written.        *)
OwnResponse == \A r \in Requests : response[r] \in {NoRequest, r}

(* When flush_sync returns, the request that was queued before the flush   *)
(* has its response, unless the client was stopped.                        *)
FlushedIsAnswered == running => \A c \in Callers : pc[c] = "got" => response[Req(c, "sync")] # NoRequest

(* No response finds nothing that expects it: a request is in req_sent     *)
(* before its response can arrive.                                         *)
NeverUnexpected == running /\ open => receiver

==============================================================================
