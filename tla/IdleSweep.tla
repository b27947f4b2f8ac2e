----------------------------- MODULE IdleSweep -----------------------------
(***************************************************************************)
(* How a backend that nobody uses, or whose time is up, goes away.         *)
(*                                                                         *)
(*   proxy        the connection monitor turns requests and open           *)
(*                connections into keepalives;                             *)
(*   controller   a keepalive updates last_keepalive (update_keepalive);   *)
(*                the sweep loop of a drone's connection asks for the      *)
(*                termination candidates and creates a Terminate action    *)
(*                for each; the cleanup loop deletes old rows;             *)
(*   drone        carries out the Terminate (DroneActions and              *)
(*                BackendManager have the details, here it is a step).     *)
(*                                                                         *)
(* Time is kept as ages and countdowns, so that no bound on the run is     *)
(* needed: `idle' is the time since last_keepalive, `left' the time until  *)
(* expiration_time, a visit's `due' the time until it is due.  Ages stop   *)
(* growing where nothing tells them apart any more.                        *)
(***************************************************************************)
EXTENDS ConnectionMonitor, FiniteSets

CONSTANTS
  Backends,
  Loops,             \* bound: sweep loops, those that outlive their connection included
  VisitInterval,     \* HEARTBEAT_INTERVAL, the time between two visits
  WireDelay,         \* how long a keepalive is under way
  Limits,            \* the limits backends are created with: allowed_idle_seconds
                     \* and the time until expiration_time, each a number or NoLimit
  BatchSize,         \* rows a cleanup deletes
  MaxOpen            \* bound: open connections of a backend

NoLimit == -1

ASSUME SweepAssumption ==
  /\ VisitInterval \in Nat \ {0} /\ WireDelay \in Nat
  /\ Limits \subseteq [idle : Nat \cup {NoLimit}, life : Nat \cup {NoLimit}]
  /\ BatchSize \in Nat \ {0} /\ MaxOpen \in 1 .. CountBound - 1

VARIABLES
  status,       \* last_status, or "deleted"
  limit,        \* the limits of each backend
  idle, left,   \* time since last_keepalive, and until expiration_time (-1 after it)
  monitor,      \* the connection monitor of the proxy
  open,         \* number of upgraded connections of each backend
  held,         \* time the backend has had an open connection for
  routed,       \* backends the proxy has a route to
  connected,    \* the proxy's connection is up
  calm,         \* time since a keepalive may have been lost
  keepalives,   \* those under way, with their age
  sweeper,      \* the sweep loop of the drone's connection, or "down"
  running,      \* the sweep loops that run
  candidates,   \* those each of them has not dealt with
  terminate     \* backends with a Terminate action that is not carried out

proxyVars == <<monitor, open, held, routed, connected, calm, keepalives>>
sweepVars == <<sweeper, running, candidates, terminate>>
idleVars == <<status, limit, idle, left, proxyVars, sweepVars>>

Statuses == {"scheduled", "live", "terminating", "terminated", "deleted"}
Ended == {"terminated", "deleted"}

\* Beyond these ages nothing changes.
Stale == VisitInterval + WireDelay + 1
MaxIdle(b) == IF limit[b].idle > Stale THEN limit[b].idle + 1 ELSE Stale

LeastOf(x, y) == IF x < y THEN x ELSE y

SweepInit ==
  /\ status = [b \in Backends |-> "scheduled"]
  /\ idle = [b \in Backends |-> 0]
  /\ limit \in [Backends -> Limits]
  /\ left = [b \in Backends |-> limit[b].life]
  /\ monitor = EmptyMonitor
  /\ open = [b \in Backends |-> 0] /\ held = [b \in Backends |-> 0]
  /\ routed = {}
  /\ connected = TRUE /\ calm = 0 /\ keepalives = <<>>
  /\ sweeper = "down" /\ running = {}
  /\ candidates = [l \in Loops |-> {}] /\ terminate = {}

Send(b) == IF connected THEN Append(keepalives, [backend |-> b, age |-> 0]) ELSE keepalives

(***************************************************************************)
(* The proxy.  The first use of a backend is answered from the route map,  *)
(* so the backend has to be ready; after that the proxy relies on its      *)
(* cached route until it hears that the backend is gone.                   *)
(***************************************************************************)
Usable(b) == b \in routed \/ status[b] = "live"

Use(b, upgraded) ==
  /\ Usable(b)
  /\ upgraded => open[b] < MaxOpen
  /\ monitor' = IF upgraded THEN inc_connection(monitor, b, VisitInterval)
                            ELSE touch_backend(monitor, b, VisitInterval)
  /\ keepalives' = IF Announces(monitor, b) THEN Send(b) ELSE keepalives
  /\ open' = IF upgraded THEN [open EXCEPT ![b] = @ + 1] ELSE open
  /\ routed' = routed \cup {b}
  /\ UNCHANGED <<status, limit, idle, left, held, connected, calm, sweepVars>>

Close(b) ==
  /\ open[b] > 0
  /\ open' = [open EXCEPT ![b] = @ - 1]
  /\ held' = IF open[b] = 1 THEN [held EXCEPT ![b] = 0] ELSE held
  /\ monitor' = dec_connection(monitor, b)
  /\ UNCHANGED <<status, limit, idle, left, routed, connected, calm, keepalives, sweepVars>>

VisitBackend ==
  /\ monitor.queue # <<>> /\ Head(monitor.queue).due = 0
  /\ monitor' = Visit(monitor, VisitInterval)
  /\ keepalives' = IF VisitAnnounces(monitor)
                   THEN Send(Head(monitor.queue).backend) ELSE keepalives
  /\ UNCHANGED <<status, limit, idle, left, open, held, routed, connected, calm, sweepVars>>

Disconnect ==
  /\ connected
  /\ connected' = FALSE /\ calm' = 0 /\ keepalives' = <<>>
  /\ UNCHANGED <<status, limit, idle, left, monitor, open, held, routed, sweepVars>>

Reconnect ==
  /\ ~connected
  /\ connected' = TRUE
  /\ UNCHANGED <<status, limit, idle, left, monitor, open, held, routed, calm, keepalives,
                 sweepVars>>

\* BackendRemoved arrives at the proxy.
Removed(b) ==
  /\ monitor' = remove_backend(monitor, b)
  /\ routed' = routed \ {b}

\* The notification of a Terminated, sent on as a BackendRemoved.
NoticeRemoved(b) ==
  /\ connected /\ b \in routed /\ status[b] \in Ended
  /\ Removed(b)
  /\ UNCHANGED <<status, limit, idle, left, open, held, connected, calm, keepalives, sweepVars>>

(***************************************************************************)
(* update_keepalive: a row that is gone or terminated is not updated, and  *)
(* the proxy is told.  A database error loses the keepalive.               *)
(***************************************************************************)
HandleKeepAlive ==
  LET b == Head(keepalives).backend IN
  /\ keepalives # <<>>
  /\ keepalives' = Tail(keepalives)
  /\ \/ /\ status[b] \notin Ended
        /\ idle' = [idle EXCEPT ![b] = 0]
        /\ UNCHANGED <<monitor, routed>>
     \/ /\ status[b] \in Ended
        /\ Removed(b)
        /\ UNCHANGED idle
  /\ UNCHANGED <<status, limit, left, open, held, connected, calm, sweepVars>>

KeepAliveFails ==
  /\ keepalives # <<>>
  /\ keepalives' = Tail(keepalives)
  /\ calm' = 0
  /\ UNCHANGED <<status, limit, idle, left, monitor, open, held, routed, connected,
                 sweepVars>>

(***************************************************************************)
(* The drone's connection.  Its sweep loop is aborted when the connection  *)
(* ends, but not when an error ends the function that serves it.           *)
(***************************************************************************)
DroneConnects(l) ==
  /\ sweeper = "down" /\ l \notin running
  /\ sweeper' = l
  /\ running' = running \cup {l}
  /\ UNCHANGED <<status, limit, idle, left, proxyVars, candidates, terminate>>

DroneLeaves ==
  /\ sweeper # "down"
  /\ sweeper' = "down"
  /\ running' = running \ {sweeper}
  /\ candidates' = [candidates EXCEPT ![sweeper] = {}]
  /\ UNCHANGED <<status, limit, idle, left, proxyVars, terminate>>

DroneFails ==
  /\ sweeper # "down" /\ running # Loops
  /\ sweeper' = "down"
  /\ UNCHANGED <<status, limit, idle, left, proxyVars, running, candidates, terminate>>

(***************************************************************************)
(* sweep_loop: the query, and then an action for one candidate after the   *)
(* other.                                                                  *)
(***************************************************************************)
IsIdle(b) == limit[b].idle # NoLimit /\ idle[b] > limit[b].idle
IsExpired(b) == limit[b].life # NoLimit /\ left[b] < 0

\* Mutant of termination_candidates: the expiration time counts for idle backends only.
IdleCandidates ==
  {b \in Backends : status[b] \notin {"scheduled"} \cup Ended /\ IsIdle(b)}

termination_candidates ==
  {b \in Backends : /\ status[b] \notin {"scheduled"} \cup Ended
                    /\ IsIdle(b) \/ IsExpired(b)}

SweepQuery(l) ==
  /\ l \in running /\ candidates[l] = {}
  /\ candidates' = [candidates EXCEPT ![l] = termination_candidates]
  /\ UNCHANGED <<status, limit, idle, left, proxyVars, sweeper, running, terminate>>

\* The row of the action refers to the backend's, which has to exist.
SweepTerminate(l, b) ==
  /\ b \in candidates[l]
  /\ candidates' = [candidates EXCEPT ![l] = @ \ {b}]
  /\ terminate' = IF status[b] = "deleted" THEN terminate ELSE terminate \cup {b}
  /\ UNCHANGED <<status, limit, idle, left, proxyVars, sweeper, running>>

(***************************************************************************)
(* What the drone does to a backend's status: it starts it, it ends it     *)
(* when it gets the Terminate (soft first), or the backend ends by itself. *)
(***************************************************************************)
Start(b) ==
  /\ status[b] = "scheduled"
  /\ status' = [status EXCEPT ![b] = "live"]
  /\ UNCHANGED <<limit, idle, left, proxyVars, sweepVars>>

Exit(b) ==
  /\ status[b] \in {"scheduled", "live", "terminating"}
  /\ status' = [status EXCEPT ![b] = "terminated"]
  /\ UNCHANGED <<limit, idle, left, proxyVars, sweepVars>>

CarryOutTerminate(b) ==
  /\ b \in terminate /\ sweeper # "down"
  /\ terminate' = terminate \ {b}
  /\ status' = IF status[b] = "live" THEN [status EXCEPT ![b] = "terminating"] ELSE status
  /\ UNCHANGED <<limit, idle, left, proxyVars, sweeper, running, candidates>>

(***************************************************************************)
(* BackendDatabase::cleanup, in one transaction: some of the rows that     *)
(* have been terminated long enough (here: at all) go, and their actions.  *)
(***************************************************************************)
CleanUp ==
  /\ \E old \in SUBSET {b \in Backends : status[b] = "terminated"} :
       /\ old # {} /\ Cardinality(old) <= BatchSize
       /\ status' = [b \in Backends |-> IF b \in old THEN "deleted" ELSE status[b]]
       /\ terminate' = terminate \ old
  /\ UNCHANGED <<limit, idle, left, proxyVars, sweeper, running, candidates>>

Nearer(queue) == [i \in DOMAIN queue |-> [queue[i] EXCEPT !.due = @ - 1]]
Older(messages) == [i \in DOMAIN messages |-> [messages[i] EXCEPT !.age = @ + 1]]

(***************************************************************************)
(* Time passes when the visit loop has nothing due and no keepalive has    *)
(* been under way for WireDelay.                                           *)
(***************************************************************************)
TimePasses ==
  /\ monitor.queue # <<>> => Head(monitor.queue).due > 0
  /\ \A i \in DOMAIN keepalives : keepalives[i].age < WireDelay
  /\ monitor' = [monitor EXCEPT !.queue = Nearer(@)]
  /\ keepalives' = Older(keepalives)
  /\ idle' = [b \in Backends |-> LeastOf(idle[b] + 1, MaxIdle(b))]
  /\ left' = [b \in Backends |-> IF left[b] < 0 THEN left[b] ELSE left[b] - 1]
  /\ held' = [b \in Backends |->
                IF open[b] > 0 THEN LeastOf(held[b] + 1, WireDelay + 1) ELSE 0]
  /\ calm' = IF connected THEN LeastOf(calm + 1, Stale) ELSE 0
  /\ UNCHANGED <<status, limit, open, routed, connected, sweepVars>>

SweepNext ==
  \/ \E b \in Backends :
       \/ \E upgraded \in BOOLEAN : Use(b, upgraded)
       \/ Close(b) \/ NoticeRemoved(b)
       \/ Start(b) \/ Exit(b) \/ CarryOutTerminate(b)
       \/ \E l \in Loops : SweepTerminate(l, b)
  \/ \E l \in Loops : DroneConnects(l) \/ SweepQuery(l)
  \/ VisitBackend \/ Disconnect \/ Reconnect \/ HandleKeepAlive \/ KeepAliveFails
  \/ DroneLeaves \/ DroneFails \/ CleanUp \/ TimePasses

SweepSpec == SweepInit /\ [][SweepNext]_idleVars

(***************************************************************************)
(* The drone keeps reconnecting and stays long enough to be swept and to   *)
(* carry out what it is sent, a backend that is terminating ends (a hard   *)
(* kill follows a soft one), and the loops run.  Proxies and clients owe   *)
(* nothing.                                                                *)
(***************************************************************************)
SweepFairness ==
  /\ WF_idleVars(TimePasses) /\ WF_idleVars(CleanUp)
  /\ WF_idleVars(VisitBackend) /\ WF_idleVars(HandleKeepAlive)
  /\ WF_idleVars(\E l \in Loops : DroneConnects(l))
  /\ \A l \in Loops : SF_idleVars(SweepQuery(l))
  /\ \A b \in Backends :
       /\ SF_idleVars(CarryOutTerminate(b))
       /\ WF_idleVars(status[b] = "terminating" /\ Exit(b))
       /\ \A l \in Loops : SF_idleVars(SweepTerminate(l, b))

SweepFairSpec == SweepSpec /\ SweepFairness

-----------------------------------------------------------------------------
\* Every variable has the type the code gives it.
SweepTypeOK ==
  /\ status \in [Backends -> Statuses]
  /\ idle \in [Backends -> Nat] /\ left \in [Backends -> Nat \cup {-1}]
  /\ limit \in [Backends -> Limits]
  /\ monitor \in [backends : UNION {[S -> Entries] : S \in SUBSET Backends},
                 queue : Seq([backend : Backends, due : 0 .. VisitInterval])]
  /\ open \in [Backends -> 0 .. MaxOpen]
  /\ held \in [Backends -> 0 .. WireDelay + 1] /\ routed \subseteq Backends
  /\ connected \in BOOLEAN /\ calm \in 0 .. Stale
  /\ keepalives \in Seq([backend : Backends, age : 0 .. WireDelay])
  /\ sweeper \in Loops \cup {"down"}
  /\ running \subseteq Loops /\ candidates \in [Loops -> SUBSET Backends]
  /\ terminate \subseteq Backends

(***************************************************************************)
(* A backend with a connection that its first keepalive had time to        *)
(* announce is never idle for longer than the time between two visits and  *)
(* the delay of a keepalive, once the proxy has been connected without a   *)
(* loss for as long.  An allowed_idle_seconds above that does not sweep a  *)
(* backend in use, whatever entries were removed, made again and visited   *)
(* twice.                                                                  *)
(***************************************************************************)
ConnectedNotIdle ==
  \A b \in Backends :
    /\ held[b] > WireDelay /\ status[b] \in {"live", "terminating"}
    /\ connected /\ calm > VisitInterval + WireDelay
    => idle[b] <= VisitInterval + WireDelay

(***************************************************************************)
(* A backend with an idle limit that is started is swept and its row       *)
(* deleted, unless it is used again and again or a connection stays open:  *)
(* no count left in the monitor, no lost Terminate and no sweep loop that  *)
(* ended with its connection keeps an unused backend.                      *)
(***************************************************************************)
IdleEnds ==
  \A b \in Backends :
    \/ limit[b].idle = NoLimit
    \/ [](status[b] = "scheduled")
    \/ <>(status[b] = "deleted")
    \/ []<>(open[b] > 0)
    \/ []<><<\E upgraded \in BOOLEAN : Use(b, upgraded)>>_idleVars

\* A backend with an expiration time that is started ends, however much it is used.
ExpiredEnds ==
  \A b \in Backends :
    (limit[b].life # NoLimit /\ status[b] # "scheduled") ~> (status[b] = "deleted")
=============================================================================
