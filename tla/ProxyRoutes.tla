---------------------------- MODULE ProxyRoutes ----------------------------
(***************************************************************************)
(* How a proxy finds the backend of a request, and forgets it again.       *)
(*                                                                         *)
(*   proxy         the request handler (proxy_server.rs), the route map    *)
(*                 (route_map.rs), the connection monitor and the task     *)
(*                 that owns the connection (proxy_connection.rs);         *)
(*   controller    the task that serves that connection                    *)
(*                 (controller/proxy.rs) and the tasks it spawns to wait   *)
(*                 for a backend that is not ready yet;                    *)
(*   database      the status of each backend and the notifications its    *)
(*                 changes cause (database/backend.rs); EventSubscriptions *)
(*                 says how those are delivered, here each subscription    *)
(*                 has them from the moment it is made, in order.          *)
(*                                                                         *)
(* A request is one of a fixed set of handlers, which serve one request    *)
(* after the other.  All the steps of a lookup that another task can come  *)
(* between are steps of their own.                                         *)
(***************************************************************************)
EXTENDS ConnectionMonitor, FiniteSets

CONSTANTS
  Backends, Tokens, Handlers,
  Target,       \* the backend a token was issued for
  CacheSize,    \* CACHE_SIZE of the route map
  MaxQueue,     \* bound: messages under way in one direction
  MaxTroubles   \* bound: lost connections, database errors, waits that time out
                \* and clients that leave while they wait, taken together

ASSUME RoutesAssumption ==
  /\ Target \in [Tokens -> Backends]
  /\ CacheSize \in Nat \ {0}
  /\ {MaxQueue, MaxTroubles} \subseteq Nat

\* None of an Option<RouteInfo>.
None == "none"

\* Fewer connections are open at a time than their counter can hold.
ASSUME HandlersAssumption ==
  /\ None \notin Backends
  /\ IsFiniteSet(Handlers) /\ Cardinality(Handlers) < CountBound

VARIABLES
  status,       \* last_status of each backend in the database
  connected,    \* the connection is up
  sender,       \* the route map has had a request sender
  toController, toProxy,
  handling,     \* the request the controller has found pending and not settled yet
  waiting,      \* the spawned tasks that wait for a backend to get ready
  removals,     \* Terminated notifications the connection's task has not read
  routes,       \* the LRU cache, most recently used first
  listeners,    \* tokens that have a watch channel in the route map
  signalling,   \* the token whose route is cached and whose channel is not signalled yet
  handler,      \* the request handlers
  monitor,      \* the connection monitor
  troubles

database == <<status>>
controller == <<handling, waiting, removals>>
routeMap == <<sender, routes, listeners, signalling>>
links == <<connected, toController, toProxy>>
vars == <<database, controller, routeMap, links, handler, monitor, troubles>>

Ended == {"terminating", "terminated"}
Statuses == {"pending", "ready"} \cup Ended

RouteRequest(t) == [type |-> "route", token |-> t]
KeepAlive(b) == [type |-> "keepalive", backend |-> b]
RouteResponse(t, r) == [type |-> "response", token |-> t, route |-> r]
BackendRemoved(b) == [type |-> "removed", backend |-> b]

(***************************************************************************)
(* A handler: where it is, the token of its request, what the lookup       *)
(* returned, whether its channel was signalled, and (for the properties)   *)
(* why it was told there is no route, and whether the request it waits on  *)
(* or the answer to it is lost.                                            *)
(***************************************************************************)
Idle ==
  [at |-> "idle", token |-> None, route |-> None, woken |-> FALSE,
   why |-> None, lost |-> FALSE]

Init ==
  /\ status = [b \in Backends |-> "pending"]
  /\ connected = FALSE /\ sender = FALSE
  /\ toController = <<>> /\ toProxy = <<>>
  /\ handling = <<>> /\ waiting = <<>> /\ removals = {}
  /\ routes = <<>> /\ listeners = {} /\ signalling = {}
  /\ handler = [h \in Handlers |-> Idle]
  /\ monitor = EmptyMonitor
  /\ troubles = 0

Room(queue) == Len(queue) < MaxQueue

\* A message sent on a connection that is down goes nowhere.
Send(queue, msg) == IF connected THEN Append(queue, msg) ELSE queue

(***************************************************************************)
(* The cache of the route map.                                             *)
(***************************************************************************)
Cached(t) == \E i \in DOMAIN routes : routes[i].token = t

Place(t) == IF Cached(t) THEN CHOOSE i \in DOMAIN routes : routes[i].token = t
                         ELSE Len(routes) + 1

Entry(t) == routes[Place(t)]

\* The entry e of t comes first, and the entries before its place move back by
\* one; without a place, the last one is evicted when the cache is full.
ToFront(t, e) ==
  [i \in 1 .. (IF Cached(t) \/ Len(routes) = CacheSize THEN Len(routes) ELSE Len(routes) + 1) |->
     IF i = 1 THEN e ELSE IF i <= Place(t) THEN routes[i - 1] ELSE routes[i]]

\* LruCache::push, and LruCache::get of a token that is there.
Push(t, r) == ToFront(t, [token |-> t, route |-> r])

Get(t) == ToFront(t, Entry(t))

Trouble == troubles < MaxTroubles /\ troubles' = troubles + 1

\* All tasks but the i-th.
Without(tasks, i) ==
  [j \in 1 .. (Len(tasks) - 1) |-> IF j < i THEN tasks[j] ELSE tasks[j + 1]]

Set(h, rec) == handler' = [handler EXCEPT ![h] = rec]

Answer(h, t, r, why) ==
  Set(h, [Idle EXCEPT !.at = "answered", !.token = t, !.route = r, !.why = why])

(***************************************************************************)
(* RouteMap::lookup, in the five parts between which it holds no lock.     *)
(***************************************************************************)
Lookup(h, t) ==
  /\ handler[h].at = "idle"
  /\ \/ /\ Cached(t)
        /\ Answer(h, t, Entry(t).route, "cached")
        /\ routes' = Get(t)
     \/ /\ ~Cached(t)
        /\ Set(h, [Idle EXCEPT !.at = "missed", !.token = t])
        /\ UNCHANGED routes
  /\ UNCHANGED <<database, controller, sender, listeners, signalling, links,
                 monitor, troubles>>

Listen(h) ==
  /\ handler[h].at = "missed"
  /\ Set(h, [handler[h] EXCEPT !.at = "listening"])
  /\ listeners' = listeners \cup {handler[h].token}
  /\ UNCHANGED <<database, controller, sender, routes, signalling, links,
                 monitor, troubles>>

Request(h) ==
  /\ handler[h].at = "listening"
  /\ \/ /\ ~sender
        /\ Answer(h, handler[h].token, None, "unconnected")
        /\ UNCHANGED toController
     \/ /\ sender /\ Room(toController)
        /\ toController' = Send(toController, RouteRequest(handler[h].token))
        /\ Set(h, [handler[h] EXCEPT !.at = "waiting", !.lost = ~connected])
  /\ UNCHANGED <<database, controller, routeMap, connected, toProxy, monitor,
                 troubles>>

Reread(h) ==
  LET t == handler[h].token IN
  /\ handler[h].at = "waiting" /\ handler[h].woken
  /\ IF Cached(t) THEN Answer(h, t, Entry(t).route, "cached") /\ routes' = Get(t)
                  ELSE Answer(h, t, None, "evicted") /\ UNCHANGED routes
  /\ UNCHANGED <<database, controller, sender, listeners, signalling, links,
                 monitor, troubles>>

(***************************************************************************)
(* The rest of the request handler (ProxyState::call).  Without a route    *)
(* the answer is 410; with one, the request may be refused for its host,   *)
(* or be proxied, and the monitor is told when the answer is there.        *)
(***************************************************************************)
Refuse(h) ==
  /\ handler[h].at = "answered"
  /\ Set(h, Idle)
  /\ UNCHANGED <<database, controller, routeMap, links, monitor, troubles>>

Forward(h, upgraded) ==
  LET b == handler[h].route IN
  /\ handler[h].at = "answered" /\ b # None
  /\ Room(toController)
  /\ monitor' = IF upgraded THEN inc_connection(monitor, b, 0)
                            ELSE touch_backend(monitor, b, 0)
  /\ toController' = IF Announces(monitor, b) THEN Send(toController, KeepAlive(b))
                                              ELSE toController
  /\ Set(h, IF upgraded THEN [Idle EXCEPT !.at = "open", !.route = b] ELSE Idle)
  /\ UNCHANGED <<database, controller, routeMap, connected, toProxy, troubles>>

\* The upgraded connection ends.
Close(h) ==
  /\ handler[h].at = "open"
  /\ monitor' = dec_connection(monitor, handler[h].route)
  /\ Set(h, Idle)
  /\ UNCHANGED <<database, controller, routeMap, links, troubles>>

\* The client goes away and its lookup is dropped where it awaits.
Cancel(h) ==
  /\ handler[h].at = "waiting"
  /\ Set(h, Idle)
  /\ Trouble
  /\ UNCHANGED <<database, controller, routeMap, links, monitor>>

\* A round of the monitor's visit loop.
VisitBackend ==
  /\ monitor.queue # <<>> /\ Room(toController)
  /\ monitor' = Visit(monitor, 0)
  /\ toController' = IF VisitAnnounces(monitor)
                     THEN Send(toController, KeepAlive(Head(monitor.queue).backend))
                     ELSE toController
  /\ UNCHANGED <<database, controller, routeMap, connected, toProxy, handler,
                 troubles>>

(***************************************************************************)
(* The task that owns the connection.  RouteMap::insert caches the route   *)
(* and signals the waiting lookups under two different locks.              *)
(***************************************************************************)
Connect ==
  /\ ~connected /\ signalling = {}
  /\ connected' = TRUE /\ sender' = TRUE
  /\ UNCHANGED <<database, controller, toController, toProxy, routes, listeners,
                 signalling, handler, monitor, troubles>>

\* Mutant of Signal: a lookup that has not sent its request yet is not signalled.
SignalWaiting ==
  /\ signalling # {}
  /\ listeners' = listeners \ signalling
  /\ handler' = [h \in Handlers |->
       IF handler[h].token \in signalling /\ handler[h].at = "waiting"
       THEN [handler[h] EXCEPT !.woken = TRUE]
       ELSE handler[h]]
  /\ signalling' = {}
  /\ UNCHANGED <<database, controller, sender, routes, links, monitor, troubles>>

ReceiveRoute ==
  /\ signalling = {} /\ toProxy # <<>> /\ Head(toProxy).type = "response"
  /\ routes' = Push(Head(toProxy).token, Head(toProxy).route)
  /\ signalling' = {Head(toProxy).token}
  /\ toProxy' = Tail(toProxy)
  /\ UNCHANGED <<database, controller, sender, listeners, connected, toController,
                 handler, monitor, troubles>>

Signal ==
  /\ signalling # {}
  /\ listeners' = listeners \ signalling
  /\ handler' = [h \in Handlers |->
       IF /\ handler[h].token \in signalling \cap listeners
          /\ handler[h].at \in {"listening", "waiting"}
       THEN [handler[h] EXCEPT !.woken = TRUE]
       ELSE handler[h]]
  /\ signalling' = {}
  /\ UNCHANGED <<database, controller, sender, routes, links, monitor, troubles>>

ReceiveRemoved ==
  LET b == Head(toProxy).backend IN
  /\ signalling = {} /\ toProxy # <<>> /\ Head(toProxy).type = "removed"
  /\ routes' = [i \in DOMAIN routes |->
       IF routes[i].route = b THEN [routes[i] EXCEPT !.route = None] ELSE routes[i]]
  /\ monitor' = remove_backend(monitor, b)
  /\ toProxy' = Tail(toProxy)
  /\ UNCHANGED <<database, controller, sender, listeners, signalling, connected,
                 toController, handler, troubles>>

(***************************************************************************)
(* The database.  A backend moves forward through its statuses, and the    *)
(* notification of a change reaches every subscription there is: the       *)
(* connection's own, which only acts on Terminated, and those on this      *)
(* backend of the tasks that wait for it.                                  *)
(***************************************************************************)
Later(s) ==
  CASE s = "pending" -> {"ready", "terminating", "terminated"}
    [] s = "ready" -> Ended
    [] s = "terminating" -> {"terminated"}
    [] s = "terminated" -> {}

Notify(tasks, b, s) ==
  [i \in DOMAIN tasks |->
     IF Target[tasks[i].token] = b /\ tasks[i].subscribed
     THEN [tasks[i] EXCEPT !.states = Append(@, s)]
     ELSE tasks[i]]

update_state(b, s) ==
  /\ s \in Later(status[b])
  /\ status' = [status EXCEPT ![b] = s]
  /\ handling' = Notify(handling, b, s)
  /\ waiting' = Notify(waiting, b, s)
  /\ removals' = IF connected /\ s = "terminated" THEN removals \cup {b} ELSE removals
  /\ UNCHANGED <<routeMap, links, handler, monitor, troubles>>

\* Mutant of route_info_for_token: a backend that is not ready is not found.
ReadyOrNotFound(t) ==
  IF status[Target[t]] = "ready" THEN Target[t] ELSE None

\* route_info_for_token, and what of its result can be sent at once.
route_info_for_token(t) ==
  CASE status[Target[t]] = "ready" -> Target[t]
    [] status[Target[t]] \in Ended -> None
    [] OTHER -> "pending"

(***************************************************************************)
(* The controller's task for the connection, which finishes one message or *)
(* notification before it takes the next: handle_route_info_request with   *)
(* its two queries, and handle_message_from_proxy.                         *)
(***************************************************************************)
Query ==
  LET t == Head(toController).token IN
  /\ handling = <<>> /\ toController # <<>> /\ Head(toController).type = "route"
  /\ toController' = Tail(toController)
  /\ \/ /\ route_info_for_token(t) # "pending" /\ Room(toProxy)
        /\ toProxy' = Send(toProxy, RouteResponse(t, route_info_for_token(t)))
        /\ UNCHANGED handling
     \/ /\ route_info_for_token(t) = "pending"
        /\ handling' = <<[token |-> t, subscribed |-> FALSE, states |-> <<>>]>>
        /\ UNCHANGED toProxy
  /\ UNCHANGED <<database, waiting, removals, routeMap, connected, handler, monitor,
                 troubles>>

\* Mutant of Requery: the first query is relied on.
WaitWithoutQuery ==
  /\ handling # <<>> /\ handling[1].subscribed
  /\ waiting' = Append(waiting, handling[1])
  /\ handling' = <<>>
  /\ UNCHANGED <<database, removals, routeMap, links, handler, monitor, troubles>>

SubscribeToState ==
  /\ handling # <<>> /\ ~handling[1].subscribed
  /\ handling' = [handling EXCEPT ![1].subscribed = TRUE]
  /\ UNCHANGED <<database, waiting, removals, routeMap, links, handler, monitor,
                 troubles>>

Requery ==
  LET t == handling[1].token IN
  /\ handling # <<>> /\ handling[1].subscribed
  /\ handling' = <<>>
  /\ \/ /\ route_info_for_token(t) # "pending" /\ Room(toProxy)
        /\ toProxy' = Send(toProxy, RouteResponse(t, route_info_for_token(t)))
        /\ UNCHANGED waiting
     \/ /\ route_info_for_token(t) = "pending"
        /\ waiting' = Append(waiting, handling[1])
        /\ UNCHANGED toProxy
  /\ UNCHANGED <<database, removals, routeMap, connected, toController, handler,
                 monitor, troubles>>

\* Mutant of HandleKeepAlive: a keepalive for a terminated backend is not answered.
KeepAliveUnanswered ==
  /\ handling = <<>> /\ toController # <<>> /\ Head(toController).type = "keepalive"
  /\ toController' = Tail(toController)
  /\ UNCHANGED <<database, controller, routeMap, connected, toProxy, handler, monitor,
                 troubles>>

\* One notification read by a spawned task: every status but "pending" settles it.
WaitOver(i) ==
  LET s == Head(waiting[i].states) IN
  /\ waiting[i].states # <<>> /\ Room(toProxy)
  /\ toProxy' = Send(toProxy,
       RouteResponse(waiting[i].token,
                     IF s = "ready" THEN Target[waiting[i].token] ELSE None))
  /\ waiting' = Without(waiting, i)
  /\ UNCHANGED <<database, handling, removals, routeMap, connected, toController,
                 handler, monitor, troubles>>

HandleKeepAlive ==
  LET b == Head(toController).backend IN
  /\ handling = <<>> /\ toController # <<>> /\ Head(toController).type = "keepalive"
  /\ Room(toProxy)
  /\ toController' = Tail(toController)
  /\ toProxy' = IF status[b] = "terminated" THEN Send(toProxy, BackendRemoved(b))
                                            ELSE toProxy
  /\ UNCHANGED <<database, controller, routeMap, connected, handler, monitor, troubles>>

HandleTerminated(b) ==
  /\ handling = <<>> /\ b \in removals /\ Room(toProxy)
  /\ toProxy' = Send(toProxy, BackendRemoved(b))
  /\ removals' = removals \ {b}
  /\ UNCHANGED <<database, handling, waiting, routeMap, connected, toController,
                 handler, monitor, troubles>>

(***************************************************************************)
(* What goes wrong.  The connection is lost, or replaced after a while: so *)
(* is all that was under way on it, and what is sent before the next one   *)
(* is made.  A database error leaves a message unanswered; in the second   *)
(* query it ends the connection.  A spawned task gives up after half an    *)
(* hour.                                                                   *)
(***************************************************************************)
Lose(Lost(_)) ==
  handler' = [h \in Handlers |->
    IF handler[h].at = "waiting" /\ Lost(handler[h].token)
    THEN [handler[h] EXCEPT !.lost = TRUE] ELSE handler[h]]

EndConnection ==
  /\ connected /\ connected' = FALSE
  /\ toController' = <<>> /\ toProxy' = <<>>
  /\ handling' = <<>> /\ waiting' = <<>> /\ removals' = {}
  /\ Lose(LAMBDA t : TRUE)
  /\ UNCHANGED <<database, routeMap, monitor>>

Break == Trouble /\ EndConnection

RequeryFails ==
  /\ handling # <<>> /\ handling[1].subscribed
  /\ Trouble /\ EndConnection

HandleFails ==
  LET msg == Head(toController) IN
  /\ Trouble
  /\ handling = <<>> /\ toController # <<>>
  /\ toController' = Tail(toController)
  /\ Lose(LAMBDA t : msg.type = "route" /\ msg.token = t)
  /\ UNCHANGED <<database, controller, routeMap, connected, toProxy, monitor>>

WaitTimesOut(i) ==
  /\ Trouble
  /\ waiting' = Without(waiting, i)
  /\ Lose(LAMBDA t : waiting[i].token = t)
  /\ UNCHANGED <<database, handling, removals, routeMap, links, monitor>>

ProxyStep ==
  \/ \E h \in Handlers :
       \/ Listen(h) \/ Request(h) \/ Reread(h)
       \/ Refuse(h) \/ \E upgraded \in BOOLEAN : Forward(h, upgraded)
  \/ VisitBackend \/ Connect \/ ReceiveRoute \/ Signal \/ ReceiveRemoved

ControllerStep ==
  \/ Query \/ SubscribeToState \/ Requery \/ HandleKeepAlive
  \/ \E b \in Backends : HandleTerminated(b)
  \/ \E i \in DOMAIN waiting : WaitOver(i)

EnvironmentStep ==
  \/ \E h \in Handlers : (\E t \in Tokens : Lookup(h, t)) \/ Close(h) \/ Cancel(h)
  \/ \E b \in Backends, s \in Statuses : update_state(b, s)
  \/ Break \/ RequeryFails \/ HandleFails
  \/ \E i \in DOMAIN waiting : WaitTimesOut(i)

Next == ProxyStep \/ ControllerStep \/ EnvironmentStep

Spec == Init /\ [][Next]_vars

(***************************************************************************)
(* Every task that can go on does: the lookup, the connection's task, the  *)
(* visit loop and the controller's tasks are polled when they are ready,   *)
(* and a proxied request has a timeout.  When requests come, connections   *)
(* close and statuses change is up to others.                              *)
(***************************************************************************)
Finish(h) == Refuse(h) \/ \E upgraded \in BOOLEAN : Forward(h, upgraded)

Fairness ==
  /\ \A h \in Handlers :
       WF_vars(Listen(h)) /\ WF_vars(Request(h)) /\ WF_vars(Reread(h)) /\ WF_vars(Finish(h))
  /\ WF_vars(VisitBackend) /\ WF_vars(Connect)
  /\ WF_vars(ReceiveRoute \/ Signal \/ ReceiveRemoved)
  /\ WF_vars(Query \/ SubscribeToState \/ Requery \/ HandleKeepAlive)
  /\ \A b \in Backends : WF_vars(HandleTerminated(b))
  /\ WF_vars(\E i \in DOMAIN waiting : WaitOver(i))

FairSpec == Spec /\ Fairness

-----------------------------------------------------------------------------
Routes == Backends \cup {None}
Tasks == [token : Tokens, subscribed : BOOLEAN, states : Seq(Statuses)]
ToController == [type : {"route"}, token : Tokens] \cup [type : {"keepalive"}, backend : Backends]
ToProxy == [type : {"response"}, token : Tokens, route : Routes]
             \cup [type : {"removed"}, backend : Backends]
HandlerStates ==
  [at : {"idle", "missed", "listening", "waiting", "answered", "open"},
   token : Tokens \cup {None}, route : Routes, woken : BOOLEAN,
   why : {None, "cached", "unconnected", "evicted"}, lost : BOOLEAN]
Monitors ==
  [backends : UNION {[S -> Entries] : S \in SUBSET Backends},
   queue : Seq([backend : Backends, due : {0}])]

\* Every variable has the type the code gives it.
TypeOK ==
  /\ status \in [Backends -> Statuses]
  /\ connected \in BOOLEAN /\ sender \in BOOLEAN
  /\ toController \in Seq(ToController)
  /\ toProxy \in Seq(ToProxy)
  /\ handling \in Seq(Tasks) /\ Len(handling) <= 1
  /\ waiting \in Seq(Tasks) /\ removals \subseteq Backends
  /\ routes \in Seq([token : Tokens, route : Routes]) /\ Len(routes) <= CacheSize
  /\ listeners \subseteq Tokens
  /\ signalling \subseteq Tokens
  /\ handler \in [Handlers -> HandlerStates]
  /\ monitor \in Monitors
  /\ troubles \in 0 .. MaxTroubles

(***************************************************************************)
(* A lookup that has not been signalled can be: the watch channel it holds *)
(* a receiver of is still in the route map.  Otherwise the sender would be *)
(* gone and the expect in lookup would panic.                              *)
(***************************************************************************)
ChannelKept ==
  \A h \in Handlers :
    handler[h].at \in {"listening", "waiting"} /\ ~handler[h].woken
      => handler[h].token \in listeners

(***************************************************************************)
(* A client is told 410 Gone from the cache only for a backend that is     *)
(* going away or gone, whatever order the requests, the answers, the       *)
(* removals and the reconnects come in.  (Two other Nones are possible:    *)
(* before the proxy first connects, and when the route is evicted between  *)
(* the signal and the second read.)                                        *)
(***************************************************************************)
GoneJustified ==
  \A h \in Handlers :
    handler[h].at = "answered" /\ handler[h].route = None /\ handler[h].why = "cached"
      => status[Target[handler[h].token]] \in Ended

(***************************************************************************)
(* While a backend lives, the monitor counts exactly its open connections  *)
(* and will visit it again: no removal and no duplicate visit makes it     *)
(* forget a connection, or count one it does not have.                     *)
(***************************************************************************)
KeptAlive ==
  \A b \in Backends :
    LET open == {h \in Handlers : handler[h].at = "open" /\ handler[h].route = b}
    IN status[b] # "terminated" =>
         /\ open # {} => HasEntry(monitor, b)
         /\ HasEntry(monitor, b) =>
              /\ monitor.backends[b].active = Cardinality(open)
              /\ \E i \in DOMAIN monitor.queue : monitor.queue[i].backend = b

(***************************************************************************)
(* A lookup whose request and answer are not lost with the connection or   *)
(* to a database error returns once the backend is no longer pending: no   *)
(* change of status falls between the controller's query and its           *)
(* subscription, and no signal falls between the steps of the lookup.      *)
(***************************************************************************)
LookupReturns ==
  \A h \in Handlers :
    (/\ handler[h].at = "waiting" /\ ~handler[h].lost
     /\ status[Target[handler[h].token]] # "pending")
      ~> (handler[h].at # "waiting" \/ handler[h].lost)

ForwardToTerminated ==
  \E h \in Handlers :
    /\ handler[h].route # None /\ status[handler[h].route] = "terminated"
    /\ \E upgraded \in BOOLEAN : Forward(h, upgraded)

(***************************************************************************)
(* A proxy does not go on forwarding requests to a terminated backend.     *)
(* The removal may be missed while the connection is down, and a waiting   *)
(* task may send the route after the removal; but each request that is     *)
(* forwarded leads to a keepalive, and its rejection invalidates the       *)
(* route.                                                                  *)
(***************************************************************************)
StopsForwarding == <>[][~ForwardToTerminated]_vars
=============================================================================
