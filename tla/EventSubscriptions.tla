------------------------- MODULE EventSubscriptions -------------------------
(***************************************************************************)
(* How a controller hears of what happens in the database, and how a       *)
(* client hears of the status of its backend: rows of table "event" with   *)
(* their pg_notify, the EventSubscriptionManager that listens, catches up  *)
(* by id after a reconnect and fans out to broadcast channels, the status  *)
(* stream that joins table and notifications, and the SSE client that      *)
(* reconnects with Last-Event-ID.                                          *)
(*                                                                         *)
(* An event is a status of a backend: a number, 1 .. MaxStatus, in the     *)
(* order of BackendStatus.  Ids come from a sequence when the row is       *)
(* inserted; the notification is delivered when the transaction commits.   *)
(* The update of a backend holds its row lock until then, so one backend   *)
(* has at most one transaction open.  0 stands for None.                   *)
(***************************************************************************)
EXTENDS Naturals, Sequences, FiniteSets, Functions

CONSTANTS
  Backends,
  Clients,
  Watched,       \* the backend that each client streams the status of
  MaxStatus,     \* number of statuses
  MaxEvents,     \* bound on ids
  Limit,         \* rows per query of get_events_since (100)
  Capacity,      \* of a broadcast channel (1000)
  MaxBreaks      \* bound on broken connections and failed queries

ASSUME SubscriptionConstants ==
  /\ Watched \in [Clients -> Backends]
  /\ MaxStatus \in Nat
  /\ MaxEvents \in Nat
  /\ Limit \in Nat \ {0}
  /\ Capacity \in Nat \ {0}
  /\ MaxBreaks \in Nat

VARIABLES
  event,       \* event[id]: what was inserted with this id
  open,        \* ids of transactions that have not ended
  commits,     \* ids of committed rows, in the order of commit
  phase,       \* where the listener loop is
  conn,        \* is the PgListener's connection alive
  inbox,       \* notifications that it has received
  fetched,     \* rows of get_events_since that are yet to be sent
  last,        \* last_message
  listeners,   \* backends with an entry in the ListenerMap
  stream,      \* the status stream that serves each client
  dropping,    \* earlier streams of each client that are being dropped
  seen,        \* the statuses each client has received
  breaks,      \* number of faults so far
  sent         \* history: ids given to send_message, in order

table == <<event, open, commits>>
manager == <<phase, conn, inbox, fetched, last>>
vars == <<event, open, commits, phase, conn, inbox, fetched, last, listeners, stream, dropping,
          seen, breaks, sent>>

Ids == 1..Len(event)
Committed == Range(commits)

Event == [backend : Backends, status : 1..MaxStatus]

Stream == [pc : {"off", "subscribed", "streaming"},
           rows : SUBSET (1..MaxStatus), buffer : Seq(Ids), lagged : BOOLEAN,
           last_status : 0..MaxStatus, last_event_id : 0..MaxStatus]

NoStream == [pc |-> "off", rows |-> {}, buffer |-> <<>>, lagged |-> FALSE,
             last_status |-> 0, last_event_id |-> 0]

\* Does the stream of c hold a receiver?
Attached(c) == stream[c].pc \in {"subscribed", "streaming"}

TypeOK ==
  /\ event \in Seq(Event)
  /\ open \subseteq Ids
  /\ commits \in Seq(Ids)
  /\ phase \in {"down", "catchup", "live"}
  /\ conn \in BOOLEAN
  /\ inbox \in Seq(Ids)
  /\ fetched \subseteq Ids
  /\ last \in 0..Len(event)
  /\ listeners \subseteq Backends
  /\ stream \in [Clients -> Stream]
  /\ dropping \in [Clients -> Nat]
  /\ seen \in [Clients -> Seq(1..MaxStatus)]
  /\ breaks \in Nat
  /\ sent \in Seq(Ids)

Init ==
  /\ event = <<>>
  /\ open = {}
  /\ commits = <<>>
  /\ phase = "down"
  /\ conn = FALSE
  /\ inbox = <<>>
  /\ fetched = {}
  /\ last = 0
  /\ listeners = {}
  /\ stream = [c \in Clients |-> NoStream]
  /\ dropping = [c \in Clients |-> 0]
  /\ seen = [c \in Clients |-> <<>>]
  /\ breaks = 0
  /\ sent = <<>>

-----------------------------------------------------------------------------
(* Transactions *)

Statuses(b) == {event[i].status : i \in {j \in Committed : event[j].backend = b}}

\* update_state up to its emit: the row of the backend is locked and updated
\* if the status is higher, and the insert has taken an id.
Emit(b, status) ==
  /\ Len(event) < MaxEvents
  /\ \A i \in open : event[i].backend # b
  /\ \A s \in Statuses(b) : s < status
  /\ event' = Append(event, [backend |-> b, status |-> status])
  /\ open' = open \cup {Len(event) + 1}
  /\ UNCHANGED <<commits, manager, listeners, stream, dropping, seen, breaks, sent>>

\* The rows become visible and the notification goes to whoever listens.
Commit(i) ==
  /\ i \in open
  /\ open' = open \ {i}
  /\ commits' = Append(commits, i)
  /\ inbox' = IF conn THEN Append(inbox, i) ELSE inbox
  /\ UNCHANGED <<event, phase, conn, fetched, last>>
  /\ UNCHANGED <<listeners, stream, dropping, seen, breaks, sent>>

\* An error after the emit: the id is used up, nothing else remains.
Rollback(i) ==
  /\ i \in open
  /\ open' = open \ {i}
  /\ UNCHANGED <<event, commits, manager, listeners, stream, dropping, seen, breaks, sent>>

-----------------------------------------------------------------------------
(* EventSubscriptionManager *)

\* What a broadcast channel does to a receiver: the oldest value is given up
\* when it is full.
Push(st, i) ==
  IF Len(st.buffer) < Capacity
    THEN [st EXCEPT !.buffer = Append(@, i)]
    ELSE [st EXCEPT !.buffer = Append(Tail(@), i), !.lagged = TRUE]

\* send_message, to the channel of the event's backend.
send_message(i) ==
  /\ stream' = [c \in Clients |->
                  IF Attached(c) /\ Watched[c] = event[i].backend /\ Watched[c] \in listeners
                    THEN Push(stream[c], i)
                    ELSE stream[c]]
  /\ sent' = Append(sent, i)

\* connect_with and listen; without a last message there is nothing to catch
\* up with.
Listen ==
  /\ phase = "down"
  /\ phase' = IF last = 0 THEN "live" ELSE "catchup"
  /\ conn' = TRUE
  /\ inbox' = <<>>
  /\ UNCHANGED <<table, fetched, last, listeners, stream, dropping, seen, breaks, sent>>

\* The answer to the query: the rows after since by id, at most Limit of them
\* (a set with this one member).
get_events_since(since) ==
  LET after == {i \in Committed : i > since} IN
  {rows \in SUBSET after :
     /\ \A i \in rows, j \in after \ rows : i < j
     /\ \/ rows = after /\ Cardinality(rows) <= Limit
        \/ rows # after /\ Cardinality(rows) = Limit}

\* Mutant: one query is taken to be all that was missed.
FetchOnce ==
  /\ phase = "catchup"
  /\ fetched = {}
  /\ fetched' \in get_events_since(last)
  /\ phase' = "live"
  /\ UNCHANGED <<table, conn, inbox, last, listeners, stream, dropping, seen, breaks, sent>>

\* One query; an empty answer ends the catching up.
Fetch ==
  /\ phase = "catchup"
  /\ fetched = {}
  /\ fetched' \in get_events_since(last)
  /\ phase' = IF fetched' = {} THEN "live" ELSE phase
  /\ UNCHANGED <<table, conn, inbox, last, listeners, stream, dropping, seen, breaks, sent>>

\* The query fails: start over with a new listener.
FetchFails ==
  /\ phase = "catchup"
  /\ fetched = {}
  /\ breaks < MaxBreaks
  /\ breaks' = breaks + 1
  /\ phase' = "down"
  /\ conn' = FALSE
  /\ inbox' = <<>>
  /\ UNCHANGED <<table, fetched, last, listeners, stream, dropping, seen, sent>>

\* The rows of the answer are sent in the order of their ids.
SendFetched ==
  /\ \E i \in fetched :
       /\ \A j \in fetched : i <= j
       /\ send_message(i)
       /\ fetched' = fetched \ {i}
       /\ last' = i
  /\ UNCHANGED <<table, phase, conn, inbox, listeners, dropping, seen, breaks>>

\* Mutant: notifications are not compared with what was caught up with.
ReceiveAll ==
  /\ phase = "live"
  /\ fetched = {}
  /\ inbox # <<>>
  /\ inbox' = Tail(inbox)
  /\ last' = Head(inbox)
  /\ send_message(Head(inbox))
  /\ UNCHANGED <<table, phase, conn, fetched, listeners, dropping, seen, breaks>>

\* try_recv; an id that is not above the last message is skipped.
Receive ==
  /\ phase = "live"
  /\ fetched = {}
  /\ inbox # <<>>
  /\ inbox' = Tail(inbox)
  /\ IF Head(inbox) <= last
       THEN UNCHANGED <<last, stream, sent>>
       ELSE /\ last' = Head(inbox)
            /\ send_message(Head(inbox))
  /\ UNCHANGED <<table, phase, conn, fetched, listeners, dropping, seen, breaks>>

\* The connection of the listener breaks; some of what was under way to it has
\* arrived.
BreakListener(n) ==
  /\ conn
  /\ breaks < MaxBreaks
  /\ breaks' = breaks + 1
  /\ conn' = FALSE
  /\ inbox' = SubSeq(inbox, 1, n)
  /\ UNCHANGED <<table, phase, fetched, last, listeners, stream, dropping, seen, sent>>

\* try_recv returns None.
NoticeBreak ==
  /\ phase = "live"
  /\ fetched = {}
  /\ inbox = <<>>
  /\ ~conn
  /\ phase' = "down"
  /\ UNCHANGED <<table, conn, inbox, fetched, last>>
  /\ UNCHANGED <<listeners, stream, dropping, seen, breaks, sent>>

-----------------------------------------------------------------------------
(* Status streams *)

LastSeen(c) == IF seen[c] = <<>> THEN 0 ELSE seen[c][Len(seen[c])]

\* A request with the last id the client has seen reaches status_stream, which
\* subscribes before it reads.
Subscribe(c) ==
  /\ stream[c].pc = "off"
  /\ stream' = [stream EXCEPT ![c] =
       [NoStream EXCEPT !.pc = "subscribed", !.last_event_id = LastSeen(c)]]
  /\ listeners' = listeners \cup {Watched[c]}
  /\ UNCHANGED <<table, manager, dropping, seen, breaks, sent>>

\* The rows of backend_state.
ReadTable(c) ==
  /\ stream[c].pc = "subscribed"
  /\ stream' = [stream EXCEPT
       ![c].pc = "streaming",
       ![c].rows = Statuses(Watched[c])]
  /\ UNCHANGED <<table, manager, listeners, dropping, seen, breaks, sent>>

\* handle_backend_status_stream passes on what the client has not seen.
Pass(c, status) ==
  seen' = IF status > stream[c].last_event_id
            THEN [seen EXCEPT ![c] = Append(@, status)] ELSE seen

\* The rows come in the order of their ids, which is that of the statuses.
YieldRow(c) ==
  /\ stream[c].pc = "streaming"
  /\ \E status \in stream[c].rows :
       /\ \A s \in stream[c].rows : status <= s
       /\ stream' = [stream EXCEPT ![c].rows = @ \ {status}, ![c].last_status = status]
       /\ Pass(c, status)
  /\ UNCHANGED <<table, manager, listeners, dropping, breaks, sent>>

\* Mutant: notifications are yielded whatever the table had.
YieldEvery(c) ==
  /\ stream[c].pc = "streaming"
  /\ stream[c].rows = {}
  /\ ~stream[c].lagged
  /\ stream[c].buffer # <<>>
  /\ LET status == event[Head(stream[c].buffer)].status IN
     /\ stream' = [stream EXCEPT ![c].buffer = Tail(@), ![c].last_status = status]
     /\ Pass(c, status)
  /\ UNCHANGED <<table, manager, listeners, dropping, breaks, sent>>

YieldNotification(c) ==
  /\ stream[c].pc = "streaming"
  /\ stream[c].rows = {}
  /\ ~stream[c].lagged
  /\ stream[c].buffer # <<>>
  /\ LET status == event[Head(stream[c].buffer)].status IN
     IF status <= stream[c].last_status
       THEN /\ stream' = [stream EXCEPT ![c].buffer = Tail(@)]
            /\ UNCHANGED seen
       ELSE /\ stream' = [stream EXCEPT ![c].buffer = Tail(@), ![c].last_status = status]
            /\ Pass(c, status)
  /\ UNCHANGED <<table, manager, listeners, dropping, breaks, sent>>

\* Mutant: a receiver that lags goes on with what is left in the channel.
StreamGoesOn(c) ==
  /\ stream[c].pc = "streaming"
  /\ stream[c].rows = {}
  /\ stream[c].lagged
  /\ stream' = [stream EXCEPT ![c].lagged = FALSE]
  /\ UNCHANGED <<table, manager, listeners, dropping, seen, breaks, sent>>

\* Mutant: a receiver that lags is polled for ever.
StreamStalls(c) ==
  /\ stream[c].pc = "streaming"
  /\ stream[c].rows = {}
  /\ stream[c].lagged
  /\ UNCHANGED vars

\* The receiver of c is dropped; what is left of drop is a task of its own.
Abandon(c) ==
  /\ stream' = [stream EXCEPT ![c] = NoStream]
  /\ dropping' = [dropping EXCEPT ![c] = @ + 1]

\* next() turns the error of a receiver that lags into None: the stream ends.
StreamEnds(c) ==
  /\ stream[c].pc = "streaming"
  /\ stream[c].rows = {}
  /\ stream[c].lagged
  /\ Abandon(c)
  /\ UNCHANGED <<table, manager, listeners, seen, breaks, sent>>

\* The client's connection breaks, or the query for the rows fails.
BreakStream(c) ==
  /\ Attached(c)
  /\ breaks < MaxBreaks
  /\ breaks' = breaks + 1
  /\ Abandon(c)
  /\ UNCHANGED <<table, manager, listeners, seen, sent>>

\* Mutant: the entry goes with the first receiver.
DropEntry(c) ==
  /\ dropping[c] > 0
  /\ dropping' = [dropping EXCEPT ![c] = @ - 1]
  /\ listeners' = listeners \ {Watched[c]}
  /\ UNCHANGED <<table, manager, stream, seen, breaks, sent>>

\* The rest of drop: an entry without receivers is removed.  The client may
\* have subscribed again by then.
Drop(c) ==
  /\ dropping[c] > 0
  /\ dropping' = [dropping EXCEPT ![c] = @ - 1]
  /\ listeners' = IF \E d \in Clients : Attached(d) /\ Watched[d] = Watched[c]
                    THEN listeners ELSE listeners \ {Watched[c]}
  /\ UNCHANGED <<table, manager, stream, seen, breaks, sent>>

-----------------------------------------------------------------------------
Database ==
  \/ \E b \in Backends, s \in 1..MaxStatus : Emit(b, s)
  \/ \E i \in open : Commit(i) \/ Rollback(i)

Manager == Listen \/ Fetch \/ SendFetched \/ Receive \/ NoticeBreak

Serve(c) ==
  \/ Subscribe(c) \/ ReadTable(c) \/ YieldRow(c) \/ YieldNotification(c) \/ StreamEnds(c)

Faults ==
  \/ FetchFails
  \/ \E n \in 0..Len(inbox) : BreakListener(n)
  \/ \E c \in Clients : BreakStream(c)

Next == Database \/ Manager \/ (\E c \in Clients : Serve(c) \/ Drop(c)) \/ Faults

Spec == Init /\ [][Next]_vars

\* The listener's loop and the handlers of requests are tasks that run when
\* they can, and the SSE client asks again as long as it is polled.
FairSpec == Spec /\ WF_vars(Manager) /\ \A c \in Clients : WF_vars(Serve(c))

-----------------------------------------------------------------------------
(* Properties *)

\* Was i committed after an event with a higher id?
Overtaken(i) ==
  \E m, n \in 1..Len(commits) : m < n /\ commits[n] = i /\ commits[m] > i

\* Was i committed before the first message that this controller has sent on?
Early(i) ==
  \/ sent = <<>>
  \/ \E m, n \in 1..Len(commits) : m < n /\ commits[m] = i /\ commits[n] = sent[1]

\* Whatever the reconnects, no event is sent twice and none after a later one:
\* the catching up by id and the notifications that were received meanwhile
\* do not overlap (EventSubscriptionManager::new).
SentInOrder == \A m, n \in 1..Len(sent) : m < n => sent[m] < sent[n]

\* An event that this controller has not sent on can still arrive, as a
\* notification it has or by catching up, unless it is from before its first
\* message or was overtaken by the commit of a higher id
\* (EventSubscriptionManager::new, get_events_since).
NothingForgotten ==
  \A i \in Committed :
    \/ i \in Range(sent) \/ Overtaken(i) \/ Early(i)
    \/ i > last /\ (phase # "live" \/ ~conn \/ i \in Range(inbox) \cup fetched)

\* A subscription that is in use has an entry in the ListenerMap, also when
\* another one for the same backend is dropped in the meantime
\* (Subscription::drop, subscribe).
LiveIsListed == \A c \in Clients : Attached(c) => Watched[c] \in listeners

\* Over all its connections a client sees every status at most once and in
\* order (status_stream, handle_backend_status_stream, SseStream).
SeenInOrder == \A c \in Clients : \A m, n \in 1..Len(seen[c]) : m < n => seen[c][m] < seen[c][n]

\* A client that has seen a status has seen all earlier ones of its backend,
\* except for events that the manager itself never got to send: neither the
\* join of table and notifications nor a lagging channel nor a reconnect
\* loses one (status_stream, Subscription::next).
NoGaps ==
  \A c \in Clients : \A i \in Committed :
    (event[i].backend = Watched[c] /\ event[i].status < LastSeen(c))
      => event[i].status \in Range(seen[c]) \/ Overtaken(i) \/ Early(i)

\* Every status that was committed in order of its id, after the first message
\* of the controller, gets to every client that keeps asking.
StatusSeen ==
  \A c \in Clients : \A i \in 1..MaxEvents :
    (/\ i \in Committed
     /\ event[i].backend = Watched[c]
     /\ ~Overtaken(i)
     /\ ~Early(i)) ~> (i <= Len(event) /\ LastSeen(c) >= event[i].status)
=============================================================================
