----------------------------- MODULE UnixSocket -----------------------------
(***************************************************************************)
(* The runtime behind a unix socket (plane/src/typed_unix_socket and       *)
(* plane/src/drone/runtime/unix_socket): the drone prepares, spawns and    *)
(* terminates backends by requests to another process, and hears of their  *)
(* ends by the events it sends.  Both processes may be restarted.          *)
(*                                                                         *)
(*   client        a task connects, and moves messages between the socket, *)
(*                 a broadcast channel of requests and the response_map;   *)
(*   server        a task accepts one connection after the other and moves *)
(*                 messages between it and a broadcast channel of          *)
(*                 responses and events;                                   *)
(*   program       what the server is for, outside this repository: it     *)
(*                 takes each request as it comes and responds in any      *)
(*                 order.                                                  *)
(*                                                                         *)
(* A request has an id of its own (random_token), which stands for it.  A  *)
(* line that was written to the socket can be read even after its writer   *)
(* has gone.                                                               *)
(***************************************************************************)
EXTENDS Naturals, Sequences

CONSTANTS
  Requests, Events,
  Capacity,     \* of the broadcast channels (1024)
  MaxTroubles   \* bound: restarts of either process

ASSUME UnixSocketAssumption ==
  /\ Requests \cap Events = {}
  /\ Capacity \in Nat \ {0} /\ MaxTroubles \in Nat

VARIABLES
  call,         \* where each call of send_request is
  response_map, \* the requests that have an entry
  client,       \* the client's task
  listening,    \* does the drone subscribe to events
  rx,           \* its receiver: the messages it has not sent
  link,         \* its connection: lines under way, and whether the server's end is closed
  server,       \* the server's task
  left,         \* lines of the connections the client has left, in the order of accept
  response_rx,  \* the server's receiver
  program,      \* the requests the program is busy with
  troubles,
  handled,      \* history: how often the program was given each request
  sent, seen,   \* history: events the program has sent, and the drone received
  disturbed     \* history: messages a restart or a full channel may have cost

callVars == <<call, response_map>>
clientVars == <<callVars, client, listening, rx>>
serverVars == <<server, left, response_rx, program>>
unixVars == <<clientVars, link, serverVars, troubles, handled, sent, seen, disturbed>>

Closed == [up |-> <<>>, down |-> <<>>, dead |-> TRUE]
Opened == [up |-> <<>>, down |-> <<>>, dead |-> FALSE]

UnixInit ==
  /\ call = [r \in Requests |-> "new"] /\ response_map = {}
  /\ client = "connecting" /\ listening = FALSE /\ rx = <<>> /\ link = Closed
  /\ server = "down" /\ left = <<>> /\ response_rx = <<>> /\ program = {}
  /\ troubles = 0
  /\ handled = [r \in Requests |-> 0]
  /\ sent = {} /\ seen = {} /\ disturbed = {}

Pending == {r \in Requests : call[r] = "waiting"}

\* A receiver that lags behind finds the oldest messages gone; the error of recv is only logged.
Broadcast(q, m) == Append(IF Len(q) < Capacity THEN q ELSE Tail(q), m)
Overwritten(q) == IF Len(q) < Capacity THEN {} ELSE {Head(q)}

-----------------------------------------------------------------------------
(* send_request, called by the methods of UnixSocketRuntime *)

InsertEntry(r) ==
  /\ client # "down" /\ call[r] = "new"
  /\ call' = [call EXCEPT ![r] = "inserted"]
  /\ response_map' = response_map \cup {r}
  /\ UNCHANGED <<client, listening, rx, link, serverVars, troubles, handled, sent, seen, disturbed>>

(***************************************************************************)
(* The channel has a receiver as long as the task has one.  Without, send  *)
(* fails and so does send_request; the entry in response_map stays.        *)
(***************************************************************************)
Send(r) ==
  /\ call[r] = "inserted"
  /\ \/ /\ client \in {"connecting", "connected"}
        /\ call' = [call EXCEPT ![r] = "waiting"]
        /\ rx' = Broadcast(rx, r)
        /\ disturbed' = disturbed \cup Overwritten(rx)
                          \cup {x \in {r} : client = "connected" /\ link.dead}
     \/ /\ client \in {"resubscribing", "over"}
        /\ call' = [call EXCEPT ![r] = "failed"]
        /\ UNCHANGED <<rx, disturbed>>
  /\ UNCHANGED <<response_map, client, listening, link, serverVars, troubles, handled, sent, seen>>

\* The manager's task that called the runtime is aborted (BackendManager).
Abort(r) ==
  /\ call[r] \in {"inserted", "waiting"}
  /\ call' = [call EXCEPT ![r] = "gone"]
  /\ UNCHANGED <<response_map, client, listening, rx, link, serverVars, troubles, handled, sent, seen,
                 disturbed>>

-----------------------------------------------------------------------------
(* The client's task *)

\* Mutant: the client subscribes to its channel when it has a connection.
ConnectThenSubscribe ==
  /\ client = "connecting" /\ server # "down"
  /\ client' = "connected" /\ link' = Opened /\ rx' = <<>>
  /\ UNCHANGED <<callVars, listening, serverVars, troubles, handled, sent, seen, disturbed>>

\* Once the server listens, a connection can be made, whether it accepts or not.
Connect ==
  /\ client = "connecting" /\ server # "down"
  /\ client' = "connected" /\ link' = Opened
  /\ UNCHANGED <<callVars, listening, rx, serverVars, troubles, handled, sent, seen, disturbed>>

\* No server for CONNECT_TIMEOUT: the task ends for good.
ConnectTimesOut ==
  /\ client = "connecting" /\ server = "down"
  /\ client' = "over" /\ rx' = <<>>
  /\ disturbed' = disturbed \cup Pending \cup (sent \ seen)
  /\ UNCHANGED <<callVars, listening, link, serverVars, troubles, handled, sent, seen>>

\* send_future.  An error of the writer is only logged.
WriteRequest ==
  /\ client = "connected" /\ rx # <<>>
  /\ rx' = Tail(rx)
  /\ link' = IF link.dead THEN link ELSE [link EXCEPT !.up = Append(@, Head(rx))]
  /\ UNCHANGED <<callVars, client, listening, serverVars, troubles, handled, sent, seen, disturbed>>

(***************************************************************************)
(* recv_future: a response goes to the call its id names, if there is an   *)
(* entry and the call still waits; what has no id goes to the stream of    *)
(* events, if there is one.                                                *)
(***************************************************************************)
ReceiveLine ==
  /\ client = "connected" /\ link.down # <<>>
  /\ LET m == Head(link.down) IN
       /\ link' = [link EXCEPT !.down = Tail(@)]
       /\ response_map' = response_map \ {m}
       /\ call' = [r \in Requests |-> IF r = m /\ r \in response_map \cap Pending
                                      THEN "returned" ELSE call[r]]
       /\ seen' = IF listening THEN seen \cup ({m} \cap Events) ELSE seen
       /\ disturbed' = IF listening THEN disturbed ELSE disturbed \cup ({m} \cap Events)
  /\ UNCHANGED <<client, listening, rx, serverVars, troubles, handled, sent>>

\* Mutant: the calls under way fail with the connection.
ConnectionFailsCalls ==
  /\ client = "connected" /\ link.dead /\ link.down = <<>>
  /\ client' = "resubscribing" /\ rx' = <<>>
  /\ call' = [r \in Requests |-> IF r \in Pending THEN "failed" ELSE call[r]]
  /\ response_map' = {}
  /\ UNCHANGED <<listening, link, serverVars, troubles, handled, sent, seen, disturbed>>

\* The end of the stream: handle_connection returns and drops the receiver, ...
ConnectionEnds ==
  /\ client = "connected" /\ link.dead /\ link.down = <<>>
  /\ client' = "resubscribing" /\ rx' = <<>>
  /\ UNCHANGED <<callVars, listening, link, serverVars, troubles, handled, sent, seen, disturbed>>

\* ... and the loop makes a new one.
Resubscribe ==
  /\ client = "resubscribing"
  /\ client' = "connecting"
  /\ UNCHANGED <<callVars, listening, rx, link, serverVars, troubles, handled, sent, seen, disturbed>>

\* Executor::new asks for the events when it has terminated what it found.
Listen ==
  /\ client # "down" /\ ~listening
  /\ listening' = TRUE
  /\ UNCHANGED <<callVars, client, rx, link, serverVars, troubles, handled, sent, seen, disturbed>>

-----------------------------------------------------------------------------
(* The server's task *)

\* TypedUnixSocketServer::new.
StartServer ==
  /\ server = "down"
  /\ server' = "accepting"
  /\ UNCHANGED <<clientVars, link, left, response_rx, program, troubles, handled, sent, seen, disturbed>>

\* Connections are accepted in the order they were made.
Accept ==
  /\ server = "accepting"
  /\ \/ left # <<>> /\ server' = "draining"
     \/ left = <<>> /\ client = "connected" /\ ~link.dead /\ server' = "serving"
  /\ UNCHANGED <<clientVars, link, left, response_rx, program, troubles, handled, sent, seen, disturbed>>

Handle(r) ==
  /\ program' = program \cup {r}
  /\ handled' = [handled EXCEPT ![r] = @ + 1]

\* recv_task, on the client's connection or one the client has left.
ReadLine ==
  /\ \/ /\ server = "serving" /\ link.up # <<>>
        /\ link' = [link EXCEPT !.up = Tail(@)]
        /\ Handle(Head(link.up))
        /\ UNCHANGED left
     \/ /\ server = "draining" /\ Head(left) # <<>>
        /\ left' = [left EXCEPT ![1] = Tail(@)]
        /\ Handle(Head(Head(left)))
        /\ UNCHANGED link
  /\ UNCHANGED <<clientVars, server, response_rx, troubles, sent, seen, disturbed>>

\* send_task.  On a connection the client has left the message is lost.
WriteLine ==
  /\ server \in {"serving", "draining"} /\ response_rx # <<>>
  /\ response_rx' = Tail(response_rx)
  /\ link' = IF server = "serving"
             THEN [link EXCEPT !.down = Append(@, Head(response_rx))] ELSE link
  /\ UNCHANGED <<clientVars, server, left, program, troubles, handled, sent, seen, disturbed>>

\* The end of the client's stream: the receiver goes with the connection, ...
ReadEnd ==
  /\ server = "draining" /\ Head(left) = <<>>
  /\ server' = "resubscribing" /\ left' = Tail(left) /\ response_rx' = <<>>
  /\ UNCHANGED <<clientVars, link, program, troubles, handled, sent, seen, disturbed>>

\* ... and the loop makes a new one before it accepts.
ServerResubscribes ==
  /\ server = "resubscribing"
  /\ server' = "accepting"
  /\ UNCHANGED <<clientVars, link, left, response_rx, program, troubles, handled, sent, seen, disturbed>>

\* send_response and send_message fail while there is no receiver.
Publish(m) ==
  response_rx' = IF server = "resubscribing" THEN response_rx ELSE Broadcast(response_rx, m)

Respond(r) ==
  /\ r \in program
  /\ program' = program \ {r}
  /\ Publish(r)
  /\ disturbed' = disturbed \cup Overwritten(response_rx)
  /\ UNCHANGED <<clientVars, link, server, left, troubles, handled, sent, seen>>

\* An event is sent to whoever is connected, or will be first.
SendEvent(e) ==
  /\ server # "down" /\ e \notin sent
  /\ sent' = sent \cup {e}
  /\ Publish(e)
  /\ disturbed' = disturbed \cup Overwritten(response_rx)
                    \cup {x \in {e} : \/ server \in {"draining", "resubscribing"} \/ left # <<>>
                                      \/ client = "over"}
  /\ UNCHANGED <<clientVars, link, server, left, program, troubles, handled, seen>>

-----------------------------------------------------------------------------
(* Restarts *)

Trouble == troubles < MaxTroubles /\ troubles' = troubles + 1

\* What the server's process knew is gone, and so is what it has not read.
StopServer ==
  /\ Trouble /\ server # "down"
  /\ server' = "down" /\ left' = <<>> /\ response_rx' = <<>> /\ program' = {}
  /\ link' = [up |-> <<>>, down |-> link.down, dead |-> TRUE]
  /\ disturbed' = disturbed \cup (sent \ seen) \cup (IF client = "connected" THEN Pending ELSE {})
  /\ UNCHANGED <<clientVars, handled, sent, seen>>

\* The drone stops; the server may still read what it has written.
StopClient ==
  /\ Trouble /\ client # "down"
  /\ client' = "down" /\ listening' = FALSE /\ rx' = <<>> /\ response_map' = {} /\ link' = Closed
  /\ call' = [r \in Requests |->
                IF call[r] \in {"inserted", "waiting"} THEN "gone" ELSE call[r]]
  /\ IF client = "connected" /\ ~link.dead
     THEN /\ left' = Append(left, link.up)
          /\ server' = IF server = "serving" THEN "draining" ELSE server
     ELSE UNCHANGED <<left, server>>
  /\ disturbed' = disturbed \cup (sent \ seen)
  /\ UNCHANGED <<response_rx, program, handled, sent, seen>>

\* UnixSocketRuntime::new.
StartClient ==
  /\ client = "down"
  /\ client' = "connecting"
  /\ UNCHANGED <<callVars, listening, rx, link, serverVars, troubles, handled, sent, seen, disturbed>>

-----------------------------------------------------------------------------
UnixNext ==
  \/ \E r \in Requests : InsertEntry(r) \/ Send(r) \/ Abort(r) \/ Respond(r)
  \/ \E e \in Events : SendEvent(e)
  \/ Connect \/ ConnectTimesOut \/ WriteRequest \/ ReceiveLine \/ ConnectionEnds
  \/ Resubscribe \/ Listen
  \/ StartServer \/ Accept \/ ReadLine \/ WriteLine \/ ReadEnd \/ ServerResubscribes
  \/ StopServer \/ StopClient \/ StartClient

UnixSpec == UnixInit /\ [][UnixNext]_unixVars

(***************************************************************************)
(* Both tasks run, the futures of each are polled, and the program         *)
(* responds.  Nobody has to start either process.                          *)
(***************************************************************************)
UnixFairness ==
  /\ \A r \in Requests : WF_unixVars(Send(r)) /\ WF_unixVars(Respond(r))
  /\ WF_unixVars(Connect \/ ConnectTimesOut) /\ WF_unixVars(WriteRequest) /\ WF_unixVars(ReceiveLine)
  /\ WF_unixVars(ConnectionEnds) /\ WF_unixVars(Resubscribe)
  /\ WF_unixVars(Accept) /\ WF_unixVars(ReadLine) /\ WF_unixVars(WriteLine)
  /\ WF_unixVars(ReadEnd) /\ WF_unixVars(ServerResubscribes)

UnixFairSpec == UnixSpec /\ UnixFairness

-----------------------------------------------------------------------------
\* Every variable has the type the code gives it.
UnixTypeOK ==
  /\ call \in [Requests -> {"new", "inserted", "waiting", "returned", "failed", "gone"}]
  /\ response_map \subseteq Requests /\ program \subseteq Requests
  /\ client \in {"connecting", "connected", "resubscribing", "over", "down"}
  /\ listening \in BOOLEAN
  /\ server \in {"down", "accepting", "serving", "draining", "resubscribing"}
  /\ rx \in Seq(Requests) /\ Len(rx) <= Capacity
  /\ response_rx \in Seq(Requests \cup Events) /\ Len(response_rx) <= Capacity
  /\ link \in [up : Seq(Requests), down : Seq(Requests \cup Events), dead : BOOLEAN]
  /\ left \in Seq(Seq(Requests))
  /\ troubles \in 0 .. MaxTroubles
  /\ handled \in [Requests -> Nat]
  /\ seen \subseteq sent /\ sent \subseteq Events
  /\ disturbed \subseteq Requests \cup Events

(***************************************************************************)
(* The program is given a request at most once, over all the connections,  *)
(* and never when send_request has returned an error: a manager that takes *)
(* a failed spawn for Terminated leaves no backend running, and none is    *)
(* started twice.                                                          *)
(***************************************************************************)
AtMostOnce ==
  \A r \in Requests : handled[r] <= (IF call[r] = "failed" THEN 0 ELSE 1)

(***************************************************************************)
(* A request returns, and an event arrives, unless the server's process    *)
(* ends while the client is connected to it, the client gives up, is       *)
(* restarted or does not listen yet, or more messages than the channels    *)
(* hold come between; those that are sent before there is a connection, or *)
(* before it is accepted, are not lost.                                    *)
(***************************************************************************)
Delivered ==
  /\ \A r \in Requests : (call[r] = "waiting") ~> (call[r] # "waiting" \/ r \in disturbed)
  /\ \A e \in Events : (e \in sent) ~> (e \in seen \cup disturbed \/ client = "down")
=============================================================================
