---------------------------- MODULE NodeRegistry ----------------------------
(***************************************************************************)
(* Which drones the controllers believe in: the rows of a drone in the     *)
(* tables node and drone, the rows of the controllers, and the choice of   *)
(* a drone for a new backend.                                              *)
(*                                                                         *)
(* The drone connects to any controller, and again when its connection is  *)
(* lost or has lasted long enough; the function that serves the earlier    *)
(* connection ends some time later, and the task its NodeHandle spawns     *)
(* marks the node offline later still.  Controllers start, shut down       *)
(* gracefully and crash.                                                   *)
(*                                                                         *)
(* Connections are numbered in the order their registering transactions    *)
(* begin, and the number stands for last_connection_start_time (the time   *)
(* its transaction began).  Other times are ages, which stop growing where *)
(* nothing tells them apart any more.                                      *)
(***************************************************************************)
EXTENDS Integers, FiniteSets

CONSTANTS
  Controllers,
  Interval,         \* HEARTBEAT_INTERVAL
  Unhealthy,        \* UNHEALTHY_SECONDS
  Delay,            \* a heartbeat is handled or lost within this time
  MaxConnections    \* bound: connections the drone makes

None == "none"

ASSUME RegistryAssumption ==
  /\ None \notin Controllers
  /\ Interval \in Nat \ {0} /\ Delay \in Nat
  /\ Unhealthy \in Nat /\ Unhealthy > Interval + Delay
  /\ MaxConnections \in Nat

VARIABLES
  process,      \* each controller: "down", "up" or "stopping"
  ctl,          \* its row: is_online, and the age of last_heartbeat
  alive, gone,  \* is the drone running, and if not, for how long
  current,      \* the drone's latest connection
  beat,         \* time until the drone's next heartbeat
  wire,         \* age of the heartbeat under way on each connection
  handler,      \* the function that serves each connection
  node,         \* the row in node: controller and last_connection_start_time
  drone,        \* the row in drone
  served,       \* time for which the latest connection has been served
  unmarked      \* a registration was left behind by a failure

controllerVars == <<process, ctl>>
droneVars == <<alive, gone, current, beat>>
rows == <<node, drone>>
vars == <<controllerVars, droneVars, wire, handler, rows, served, unmarked>>

Connections == 1 .. MaxConnections

NoBeat == -1

Aged(x, most) == IF x < most THEN x + 1 ELSE x

Init ==
  /\ process = [c \in Controllers |-> "down"]
  /\ ctl = [c \in Controllers |-> [online |-> FALSE, age |-> Unhealthy]]
  /\ alive = FALSE /\ gone = Unhealthy + Delay
  /\ current = 0 /\ beat = 0
  /\ wire = [h \in Connections |-> NoBeat]
  /\ handler = [h \in Connections |-> [at |-> "none", controller |-> None]]
  /\ node = [controller |-> None, start |-> 0]
  /\ drone = [ready |-> FALSE, draining |-> FALSE, age |-> Unhealthy, known |-> FALSE]
  /\ served = 0 /\ unmarked = FALSE

(***************************************************************************)
(* A controller.  HeartbeatSender::start writes a first heartbeat before   *)
(* the server listens; its loop writes more of them, one every Interval    *)
(* as long as none fails, and so in the model at any time.                 *)
(* ControllerServer::terminate aborts that loop and writes that the        *)
(* controller is offline: this may fail, or be overtaken by a heartbeat    *)
(* that was being committed when the loop was aborted.  The server then    *)
(* serves its connections until it exits.                                  *)
(***************************************************************************)
StartController(c) ==
  /\ process[c] = "down"
  /\ process' = [process EXCEPT ![c] = "up"]
  /\ ctl' = [ctl EXCEPT ![c] = [online |-> TRUE, age |-> 0]]
  /\ UNCHANGED <<droneVars, wire, handler, rows, served, unmarked>>

ControllerBeats(c) ==
  /\ process[c] = "up"
  /\ ctl' = [ctl EXCEPT ![c] = [online |-> TRUE, age |-> 0]]
  /\ UNCHANGED <<process, droneVars, wire, handler, rows, served, unmarked>>

StopController(c, outcome) ==
  /\ process[c] = "up"
  /\ process' = [process EXCEPT ![c] = "stopping"]
  /\ ctl' = IF outcome = "failed" THEN ctl
            ELSE [ctl EXCEPT ![c] = [online |-> outcome = "overtaken", age |-> 0]]
  /\ UNCHANGED <<droneVars, wire, handler, rows, served, unmarked>>

\* The process ends, with all the tasks in it: nothing marks its nodes offline.
ExitController(c) ==
  LET dead == {h \in Connections : handler[h].controller = c} IN
  /\ process[c] \in {"up", "stopping"}
  /\ process' = [process EXCEPT ![c] = "down"]
  /\ handler' = [h \in Connections |->
       IF h \in dead THEN [handler[h] EXCEPT !.at = "ended"] ELSE handler[h]]
  /\ wire' = [h \in Connections |-> IF h \in dead THEN NoBeat ELSE wire[h]]
  /\ unmarked' = (unmarked \/ node.start \in dead)
  /\ served' = IF current \in dead THEN 0 ELSE served
  /\ UNCHANGED <<ctl, droneVars, rows>>

(***************************************************************************)
(* The drone: it connects, and its heartbeat loop sends at once and then   *)
(* every Interval, on its latest connection.                               *)
(***************************************************************************)
StartDrone ==
  /\ ~alive
  /\ alive' = TRUE /\ gone' = 0 /\ beat' = 0
  /\ UNCHANGED <<controllerVars, current, wire, handler, rows, served, unmarked>>

StopDrone ==
  /\ alive
  /\ alive' = FALSE /\ served' = 0
  /\ UNCHANGED <<controllerVars, gone, current, beat, wire, handler, rows, unmarked>>

Connect(c) ==
  /\ alive /\ process[c] = "up" /\ current < MaxConnections
  /\ current' = current + 1
  /\ beat' = 0 /\ served' = 0
  /\ handler' = [handler EXCEPT ![current + 1] = [at |-> "begun", controller |-> c]]
  /\ UNCHANGED <<controllerVars, alive, gone, wire, rows, unmarked>>

CanReceive(h) == handler[h].at \in {"begun", "registered", "open"}

DroneBeats ==
  /\ alive /\ current > 0 /\ beat = 0
  /\ beat' = Interval
  /\ wire' = IF CanReceive(current) /\ wire[current] = NoBeat
             THEN [wire EXCEPT ![current] = 0] ELSE wire
  /\ UNCHANGED <<controllerVars, alive, gone, current, handler, rows, served, unmarked>>

(***************************************************************************)
(* The function that serves a connection (drone_socket_inner): it          *)
(* registers the node and then the drone, and ends when the socket does or *)
(* a query fails.  Dropping the NodeHandle spawns mark_offline.            *)
(***************************************************************************)
Become(h, at) == handler' = [handler EXCEPT ![h].at = at]

register(h) ==
  /\ handler[h].at = "begun"
  /\ Become(h, "registered")
  /\ node' = [controller |-> handler[h].controller, start |-> h]
  /\ UNCHANGED <<controllerVars, droneVars, wire, drone, served, unmarked>>

RegisterFails(h) ==
  /\ handler[h].at = "begun"
  /\ Become(h, "ended")
  /\ wire' = [wire EXCEPT ![h] = NoBeat]
  /\ UNCHANGED <<controllerVars, droneVars, rows, served, unmarked>>

\* Mutant of heartbeat: last_local_time is not written.
BeatWithoutTime(h) ==
  /\ handler[h].at = "open" /\ wire[h] # NoBeat
  /\ wire' = [wire EXCEPT ![h] = NoBeat]
  /\ drone' = [drone EXCEPT !.age = 0]
  /\ UNCHANGED <<controllerVars, droneVars, handler, node, served, unmarked>>

\* The pool and draining of a drone that is known already are left alone.
register_drone(h) ==
  /\ handler[h].at = "registered"
  /\ Become(h, "open")
  /\ drone' = [drone EXCEPT !.ready = TRUE]
  /\ UNCHANGED <<controllerVars, droneVars, wire, node, served, unmarked>>

heartbeat(h) ==
  /\ handler[h].at = "open" /\ wire[h] # NoBeat
  /\ wire' = [wire EXCEPT ![h] = NoBeat]
  /\ drone' = [drone EXCEPT !.age = 0, !.known = TRUE]
  /\ UNCHANGED <<controllerVars, droneVars, handler, node, served, unmarked>>

End(h) ==
  /\ handler[h].at \in {"registered", "open"}
  /\ Become(h, "closing")
  /\ wire' = [wire EXCEPT ![h] = NoBeat]
  /\ served' = IF h = current THEN 0 ELSE served
  /\ UNCHANGED <<controllerVars, droneVars, rows, unmarked>>

\* Mutant of mark_offline: the start time is not compared.
MarkWithoutStart(h) ==
  /\ handler[h].at = "closing"
  /\ Become(h, "ended")
  /\ node' = IF node.controller = handler[h].controller
             THEN [node EXCEPT !.controller = None] ELSE node
  /\ UNCHANGED <<controllerVars, droneVars, wire, drone, served, unmarked>>

\* Mutant of mark_offline: the transaction is not committed.
MarkRolledBack(h) ==
  /\ handler[h].at = "closing"
  /\ Become(h, "ended")
  /\ UNCHANGED <<controllerVars, droneVars, wire, rows, served, unmarked>>

mark_offline(h) ==
  /\ handler[h].at = "closing"
  /\ Become(h, "ended")
  /\ node' = IF node.controller = handler[h].controller /\ node.start = h
             THEN [node EXCEPT !.controller = None] ELSE node
  /\ UNCHANGED <<controllerVars, droneVars, wire, drone, served, unmarked>>

MarkFails(h) ==
  /\ handler[h].at = "closing"
  /\ Become(h, "ended")
  /\ unmarked' = (unmarked \/ node.start = h)
  /\ UNCHANGED <<controllerVars, droneVars, wire, rows, served>>

drain ==
  /\ drone.ready /\ ~drone.draining
  /\ drone' = [drone EXCEPT !.draining = TRUE]
  /\ UNCHANGED <<controllerVars, droneVars, wire, handler, node, served, unmarked>>

\* Mutant of Eligible: the drone's own heartbeat is not looked at.
EligibleWithoutBeat ==
  /\ drone.ready /\ ~drone.draining /\ drone.known
  /\ node.controller # None
  /\ ctl[node.controller].online /\ ctl[node.controller].age < Unhealthy

(***************************************************************************)
(* The condition of the query in pick_drone_for_spawn.                     *)
(***************************************************************************)
Eligible ==
  /\ drone.ready /\ ~drone.draining /\ drone.known
  /\ drone.age < Unhealthy
  /\ node.controller # None
  /\ ctl[node.controller].online /\ ctl[node.controller].age < Unhealthy

(***************************************************************************)
(* Time passes when no heartbeat is due or has been under way for Delay.   *)
(***************************************************************************)
Tick ==
  /\ alive /\ current > 0 => beat > 0
  /\ \A h \in Connections : wire[h] < Delay
  /\ ctl' = [c \in Controllers |-> [ctl[c] EXCEPT !.age = Aged(@, Unhealthy)]]
  /\ gone' = IF alive THEN 0 ELSE Aged(gone, Unhealthy + Delay)
  /\ beat' = IF beat > 0 THEN beat - 1 ELSE 0
  /\ wire' = [h \in Connections |-> IF wire[h] = NoBeat THEN NoBeat ELSE wire[h] + 1]
  /\ drone' = [drone EXCEPT !.age = Aged(@, Unhealthy)]
  /\ served' = IF alive /\ current > 0 /\ handler[current].at = "open"
               THEN Aged(served, Delay + 1) ELSE 0
  /\ UNCHANGED <<process, alive, current, handler, node, unmarked>>

Outcomes == {"offline", "failed", "overtaken"}

Next ==
  \/ \E c \in Controllers :
       \/ StartController(c) \/ ControllerBeats(c) \/ ExitController(c) \/ Connect(c)
       \/ \E outcome \in Outcomes : StopController(c, outcome)
  \/ \E h \in Connections :
       \/ register(h) \/ RegisterFails(h) \/ register_drone(h) \/ heartbeat(h)
       \/ End(h) \/ mark_offline(h) \/ MarkFails(h)
  \/ StartDrone \/ StopDrone \/ DroneBeats \/ drain \/ Tick

Spec == Init /\ [][Next]_vars

\* The socket of a drone that stopped closes, and the tasks of a controller run.
Fairness ==
  \A h \in Connections :
    /\ WF_vars(register(h) \/ RegisterFails(h)) /\ WF_vars(register_drone(h))
    /\ WF_vars(~alive /\ End(h))
    /\ WF_vars(mark_offline(h) \/ MarkFails(h))

FairSpec == Spec /\ Fairness

-----------------------------------------------------------------------------
At == {"none", "begun", "registered", "open", "closing", "ended"}

HandlerState == [at : At, controller : Controllers \cup {None}]

\* Every variable has the type the code gives it.
TypeOK ==
  /\ process \in [Controllers -> {"down", "up", "stopping"}]
  /\ ctl \in [Controllers -> [online : BOOLEAN, age : 0 .. Unhealthy]]
  /\ alive \in BOOLEAN /\ gone \in 0 .. Unhealthy + Delay
  /\ current \in 0 .. MaxConnections /\ beat \in 0 .. Interval
  /\ wire \in [Connections -> NoBeat .. Delay]
  /\ handler \in [Connections -> HandlerState]
  /\ node \in [controller : Controllers \cup {None}, start : 0 .. current]
  /\ drone \in [ready : BOOLEAN, draining : BOOLEAN, age : 0 .. Unhealthy, known : BOOLEAN]
  /\ served \in 0 .. Delay + 1 /\ unmarked \in BOOLEAN

(***************************************************************************)
(* A connection that is being served and whose registration is the last    *)
(* one written is the one the node's row names: the late end of an earlier *)
(* connection, to the same controller or to another, does not take the     *)
(* node offline.                                                           *)
(***************************************************************************)
RegistrationKept ==
  \A h \in Connections :
    handler[h].at \in {"registered", "open"} /\ node.start = h
      => node.controller = handler[h].controller

(***************************************************************************)
(* No backend is placed on a drone that has been gone for UNHEALTHY        *)
(* seconds and the delay of its last heartbeat, however it went away and   *)
(* whatever was left behind in the tables.                                 *)
(***************************************************************************)
NoSpawnOnLost ==
  Eligible => gone < Unhealthy + Delay

(***************************************************************************)
(* A drone that is not draining, whose latest connection has been served   *)
(* long enough for its first heartbeat to arrive and was registered last,  *)
(* can be given backends, as long as the heartbeats of its controller are  *)
(* written.                                                                *)
(***************************************************************************)
HealthyIsEligible ==
  /\ alive /\ served > Delay /\ node.start = current /\ ~drone.draining
  /\ ctl[handler[current].controller].online
  /\ ctl[handler[current].controller].age < Unhealthy
  => Eligible

\* A drone that drains goes on draining, through all its reconnects and restarts.
DrainHolds == [][drone.draining => drone'.draining]_vars

(***************************************************************************)
(* When the drone is gone, its node is marked offline, unless it comes     *)
(* back or the registration was left behind by a failing query or the end  *)
(* of the controller.                                                      *)
(***************************************************************************)
GoneIsOffline == ~alive ~> (alive \/ node.controller = None \/ unmarked)
=============================================================================
