-------------------------- MODULE NodeRegistryProof --------------------------
(***************************************************************************)
(* For any controllers, any number of connections and all heartbeat times  *)
(* that satisfy the assumption of NodeRegistry: which rows of the registry *)
(* belong together, how old a heartbeat in the drone's row can be, and     *)
(* what follows for the choice of a drone.                                 *)
(*                                                                         *)
(* For any backends, visit interval, delay of keepalives and limits that   *)
(* satisfy the assumption of IdleSweep: how old the last keepalive of a    *)
(* backend with an open connection can be.                                 *)
(***************************************************************************)
EXTENDS NodeRegistry, IdleSweep, Functions, TLAPS

-----------------------------------------------------------------------------
(* The inductive invariant *)

\* The connections that were made have their numbers and a controller.
Numbered ==
  \A h \in Connections :
    IF handler[h].at = "none" THEN handler[h].controller = None
                              ELSE h <= current /\ handler[h].controller \in Controllers

\* A connection is served only after register_drone.
OpenIsReady == \A h \in Connections : handler[h].at = "open" => drone.ready

\* A heartbeat under way was sent while the drone was running, ...
SentAlive ==
  /\ alive => gone = 0
  /\ \A h \in Connections : wire[h] # NoBeat => gone <= wire[h]

\* ... and so was the one in the drone's row, as far as its age is told apart.
WrittenAlive == drone.age = Unhealthy \/ gone <= drone.age + Delay

\* Only the latest connection of a running drone is counted as served.
ServedIsOpen == served > 0 => alive /\ current > 0 /\ handler[current].at = "open"

\* The latest heartbeat has been written, with an age of at most what has
\* passed since it was sent, or is under way, and the one before was written
\* unless it is the connection's first.
Written(most) == drone.known /\ drone.age <= most

Beating ==
  alive /\ current > 0 /\ CanReceive(current) =>
    /\ wire[current] # NoBeat => served <= wire[current] \/ Written(Interval + wire[current])
    /\ wire[current] = NoBeat /\ beat > 0 => Written(Interval - beat)
    /\ wire[current] = NoBeat /\ beat = 0 => served = 0 \/ Written(Interval)

IInv ==
  /\ TypeOK /\ Numbered /\ RegistrationKept /\ OpenIsReady
  /\ SentAlive /\ WrittenAlive /\ ServedIsOpen /\ Beating

-----------------------------------------------------------------------------
(* Types *)

\* Become moves one handler.
LEMMA BecomeType ==
  ASSUME handler \in [Connections -> HandlerState], NEW h \in Connections, NEW at \in At, Become(h, at)
  PROVE  /\ handler' \in [Connections -> HandlerState]
         /\ handler'[h].at = at
         /\ \A g \in Connections : handler'[g].controller = handler[g].controller
         /\ \A g \in Connections : g # h => handler'[g] = handler[g]
BY Zenon DEF Become, HandlerState

\* Numbers that all steps use.
LEMMA Numbers ==
  /\ NoBeat = -1 /\ Connections \subseteq Nat /\ \A h \in Connections : h <= MaxConnections /\ h > 0
  /\ NoBeat \in NoBeat .. Delay /\ 0 \in NoBeat .. Delay
  /\ \A x \in 0 .. Unhealthy : Aged(x, Unhealthy) \in 0 .. Unhealthy /\ Aged(x, Unhealthy) <= x + 1
  /\ \A x \in 0 .. Delay + 1 : Aged(x, Delay + 1) \in 0 .. Delay + 1 /\ Aged(x, Delay + 1) <= x + 1
  /\ \A x \in 0 .. Unhealthy + Delay :
       Aged(x, Unhealthy + Delay) \in 0 .. Unhealthy + Delay /\ Aged(x, Unhealthy + Delay) <= x + 1
BY RegistryAssumption DEF NoBeat, Connections, Aged

\* The steps of the controllers keep the types.
LEMMA ControllerTypes ==
  ASSUME IInv, NEW c \in Controllers,
         \/ StartController(c) \/ ControllerBeats(c) \/ ExitController(c)
         \/ \E outcome \in Outcomes : StopController(c, outcome)
  PROVE  TypeOK'
<1> USE DEF controllerVars, droneVars, rows
<1>0. TypeOK
  BY Zenon DEF IInv
<1>1. 0 \in 0 .. Unhealthy /\ 0 \in 0 .. Delay + 1
  BY RegistryAssumption
<1>2. CASE StartController(c) \/ ControllerBeats(c)
  <2> DEFINE r == [online |-> TRUE, age |-> 0]
             CtlState == [online : BOOLEAN, age : 0 .. Unhealthy]
  <2>0. r \in CtlState /\ ctl' = [ctl EXCEPT ![c] = r] /\ ctl \in [Controllers -> CtlState]
    BY <1>0, <1>1, <1>2, Zenon DEF StartController, ControllerBeats, TypeOK
  <2>1. ctl' \in [Controllers -> CtlState]
    <3> HIDE DEF r, CtlState
    <3> QED
      BY <2>0, Zenon
  <2>2. process' \in [Controllers -> {"down", "up", "stopping"}]
    BY <1>0, <1>2, Zenon DEF StartController, ControllerBeats, TypeOK
  <2> QED
    BY <1>0, <1>2, <2>1, <2>2, Zenon DEF StartController, ControllerBeats, TypeOK
<1>3. ASSUME NEW outcome \in Outcomes, StopController(c, outcome) PROVE TypeOK'
  BY <1>0, <1>1, <1>3, Zenon DEF StopController, TypeOK
<1>4. CASE ExitController(c)
  <2> DEFINE dead == {h \in Connections : handler[h].controller = c}
  <2>1. handler' \in [Connections -> HandlerState]
    BY <1>0, <1>4 DEF ExitController, HandlerState, At, TypeOK
  <2>2. wire' \in [Connections -> NoBeat .. Delay]
    BY <1>0, <1>4, Numbers, Zenon DEF ExitController, TypeOK
  <2>3. served' \in 0 .. Delay + 1 /\ unmarked' \in BOOLEAN
    BY <1>0, <1>1, <1>4, Zenon DEF ExitController, TypeOK
  <2> QED
    BY <1>0, <1>4, <2>1, <2>2, <2>3, Zenon DEF ExitController, TypeOK
<1> QED
  BY <1>2, <1>3, <1>4, Zenon

\* The steps of the drone and of time keep the types.
LEMMA DroneTypes ==
  ASSUME IInv,
         \/ StartDrone \/ StopDrone \/ DroneBeats \/ drain \/ Tick
         \/ \E c \in Controllers : Connect(c)
  PROVE  TypeOK'
<1> USE DEF controllerVars, droneVars, rows
<1>0. TypeOK
  BY Zenon DEF IInv
<1>1. 0 \in 0 .. Interval /\ 0 \in 0 .. Unhealthy + Delay /\ 0 \in 0 .. Delay + 1 /\ Interval \in 0 .. Interval
  BY RegistryAssumption
<1>2. CASE StartDrone \/ StopDrone \/ drain
  BY <1>0, <1>1, <1>2, Zenon DEF StartDrone, StopDrone, drain, TypeOK
<1>3. CASE DroneBeats
  <2>1. wire' \in [Connections -> NoBeat .. Delay]
    BY <1>0, <1>3, Numbers, Zenon DEF DroneBeats, TypeOK
  <2> QED
    BY <1>0, <1>1, <1>3, <2>1, Zenon DEF DroneBeats, TypeOK
<1>4. ASSUME NEW c \in Controllers, Connect(c) PROVE TypeOK'
  <2>1. current' \in 0 .. MaxConnections /\ current + 1 \in Connections /\ current \in Nat
    BY <1>0, <1>4, RegistryAssumption DEF Connect, Connections, TypeOK
  <2>2. handler' \in [Connections -> HandlerState]
    BY <1>0, <1>4, Zenon DEF Connect, HandlerState, At, TypeOK
  <2>3. node' \in [controller : Controllers \cup {None}, start : 0 .. current']
    <3>1. 0 .. current \subseteq 0 .. current'
      BY <1>4, <2>1 DEF Connect
    <3> QED
      BY <1>0, <1>4, <3>1, Zenon DEF Connect, TypeOK
  <2> QED
    BY <1>0, <1>1, <1>4, <2>1, <2>2, <2>3, Zenon DEF Connect, TypeOK
<1>5. CASE Tick
  <2>1. ctl' \in [Controllers -> [online : BOOLEAN, age : 0 .. Unhealthy]]
    BY <1>0, <1>5, Numbers DEF Tick, TypeOK
  <2>2. wire' \in [Connections -> NoBeat .. Delay]
    <3>1. \A h \in Connections : wire[h] # NoBeat => wire[h] + 1 \in NoBeat .. Delay
      BY <1>0, <1>5, RegistryAssumption DEF Tick, NoBeat, TypeOK
    <3> QED
      BY <1>5, <3>1, Numbers, Zenon DEF Tick
  <2>3. drone' \in [ready : BOOLEAN, draining : BOOLEAN, age : 0 .. Unhealthy, known : BOOLEAN]
    BY <1>0, <1>5, Numbers, Zenon DEF Tick, TypeOK
  <2>4. gone' \in 0 .. Unhealthy + Delay
    BY <1>0, <1>1, <1>5, Numbers, Zenon DEF Tick, TypeOK
  <2>5. beat' \in 0 .. Interval
    BY <1>0, <1>1, <1>5, RegistryAssumption DEF Tick, TypeOK
  <2>6. served' \in 0 .. Delay + 1
    BY <1>0, <1>1, <1>5, Numbers, Zenon DEF Tick, TypeOK
  <2> QED
    BY <1>0, <1>5, <2>1, <2>2, <2>3, <2>4, <2>5, <2>6, Zenon DEF Tick, TypeOK
<1> QED
  BY <1>2, <1>3, <1>4, <1>5, Zenon

\* The steps of a connection's handler keep the types.
LEMMA HandlerTypes ==
  ASSUME IInv, NEW h \in Connections,
         \/ register(h) \/ RegisterFails(h) \/ register_drone(h) \/ heartbeat(h)
         \/ End(h) \/ mark_offline(h) \/ MarkFails(h)
  PROVE  TypeOK'
<1> USE DEF controllerVars, droneVars, rows
<1>0. TypeOK /\ handler \in [Connections -> HandlerState]
  BY Zenon DEF IInv, TypeOK
<1>1. 0 \in 0 .. Unhealthy /\ 0 \in 0 .. Delay + 1
  BY RegistryAssumption
<1>2. At = {"none", "begun", "registered", "open", "closing", "ended"}
  BY Zenon DEF At
<1>3. [wire EXCEPT ![h] = NoBeat] \in [Connections -> NoBeat .. Delay]
  BY <1>0, Numbers, Zenon DEF TypeOK
<1>4. CASE register(h)
  <2>1. h \in 0 .. current /\ handler[h].controller \in Controllers \cup {None}
    BY <1>0, <1>4, Numbers DEF register, IInv, Numbered, HandlerState, TypeOK
  <2> QED
    BY <1>0, <1>2, <1>4, <2>1, BecomeType, Zenon DEF register, TypeOK
<1>5. CASE RegisterFails(h) \/ MarkFails(h)
  BY <1>0, <1>2, <1>3, <1>5, BecomeType, Zenon DEF RegisterFails, MarkFails, TypeOK
<1>6. CASE register_drone(h)
  BY <1>0, <1>2, <1>6, BecomeType, Zenon DEF register_drone, TypeOK
<1>7. CASE heartbeat(h)
  BY <1>0, <1>1, <1>3, <1>7, Zenon DEF heartbeat, TypeOK
<1>8. CASE End(h)
  BY <1>0, <1>1, <1>2, <1>3, <1>8, BecomeType, Zenon DEF End, TypeOK
<1>9. CASE mark_offline(h)
  BY <1>0, <1>2, <1>9, BecomeType, Zenon DEF mark_offline, TypeOK
<1> QED
  BY <1>4, <1>5, <1>6, <1>7, <1>8, <1>9, Zenon

-----------------------------------------------------------------------------
(* The steps *)

\* A step that leaves the drone, its connections and its rows alone.
LEMMA QuietStep ==
  ASSUME IInv, TypeOK', UNCHANGED <<alive, gone, current, beat, wire, handler, node, served>>,
         drone'.ready = drone.ready, drone'.age = drone.age, drone'.known = drone.known
  PROVE  IInv'
BY Zenon DEF IInv, Numbered, RegistrationKept, OpenIsReady, SentAlive, WrittenAlive, ServedIsOpen, Beating,
       Written, CanReceive

\* What a step may do to a handler: leave it or take it further, or end it,
\* with the heartbeat under way to it.
Moves(h) ==
  /\ handler'[h].controller = handler[h].controller
  /\ \/ /\ wire'[h] = wire[h]
        /\ h = current => served' = served
        /\ \/ handler'[h].at = handler[h].at
           \/ handler[h].at = "begun" /\ handler'[h].at = "registered"
           \/ handler[h].at = "registered" /\ handler'[h].at = "open" /\ drone'.ready
           \/ handler[h].at = "closing" /\ handler'[h].at = "ended"
     \/ /\ wire'[h] = NoBeat
        /\ h = current => served' = 0
        /\ handler[h].at # "none" /\ handler'[h].at \in {"closing", "ended"}

\* The rest of the invariant, for a step that does nothing else but to write
\* the node's row and make the drone's row ready.
LEMMA HandlerStep ==
  ASSUME IInv, TypeOK', UNCHANGED <<alive, gone, current, beat>>,
         drone'.ready = drone.ready \/ drone'.ready = TRUE,
         drone'.age = drone.age, drone'.known = drone.known,
         \A h \in Connections : Moves(h),
         served' \in {0, served}, RegistrationKept'
  PROVE  IInv'
<1>0. TypeOK /\ current \in Nat
  BY DEF IInv, TypeOK
<1>1. Numbered'
  BY Zenon DEF IInv, Numbered, Moves
<1>2. OpenIsReady'
  BY Zenon DEF IInv, OpenIsReady, Moves
<1>3. SentAlive' /\ WrittenAlive'
  BY Zenon DEF IInv, SentAlive, WrittenAlive, Moves
<1>4. current > 0 => current \in Connections
  BY <1>0, RegistryAssumption DEF TypeOK, Connections
<1>5. ServedIsOpen'
  BY <1>0, <1>4 DEF IInv, ServedIsOpen, Moves
<1>6. Beating'
  <2> SUFFICES ASSUME alive, current > 0, CanReceive(current)' PROVE Beating'
    BY Zenon DEF Beating
  <2>1. current \in Connections
    BY <1>4, Zenon
  <2>2. CanReceive(current) /\ wire'[current] = wire[current] /\ served' = served
    BY <2>1, Zenon DEF CanReceive, Moves
  <2> QED
    BY <2>2, Zenon DEF IInv, Beating, Written
<1> QED
  BY <1>1, <1>2, <1>3, <1>5, <1>6, Zenon DEF IInv

\* The steps of a connection's handler other than a heartbeat.
LEMMA ServingStep ==
  ASSUME IInv, NEW h \in Connections,
         \/ register(h) \/ RegisterFails(h) \/ register_drone(h)
         \/ End(h) \/ mark_offline(h) \/ MarkFails(h)
  PROVE  IInv'
<1> USE DEF controllerVars, droneVars, rows
<1>0. TypeOK /\ handler \in [Connections -> HandlerState] /\ wire \in [Connections -> NoBeat .. Delay]
  BY Zenon DEF IInv, TypeOK
<1>1. TypeOK'
  BY HandlerTypes, Zenon
<1>2. drone \in [ready : BOOLEAN, draining : BOOLEAN, age : 0 .. Unhealthy, known : BOOLEAN]
  BY <1>0, Zenon DEF TypeOK
<1>3. {"registered", "open", "closing", "ended"} \subseteq At
  BY Zenon DEF At
<1>4. current > 0 => current \in Connections
  BY <1>0, RegistryAssumption DEF TypeOK, Connections
<1>5. served > 0 => current \in Connections
  BY <1>4, Zenon DEF IInv, ServedIsOpen
<1>6. node \in [controller : Controllers \cup {None}, start : 0 .. current]
  BY <1>0, Zenon DEF TypeOK
<1>7. CASE register(h)
  <2>1. RegistrationKept'
    BY <1>0, <1>3, <1>7, BecomeType, Zenon DEF register, IInv, RegistrationKept
  <2>3. \A g \in Connections : Moves(g)
    BY <1>0, <1>3, <1>7, BecomeType, Zenon DEF register, Moves
  <2> QED
    BY <1>1, <1>7, <2>1, <2>3, HandlerStep, Zenon DEF register
<1>8. CASE register_drone(h)
  <2>1. RegistrationKept'
    BY <1>0, <1>3, <1>8, BecomeType DEF register_drone, IInv, RegistrationKept
  <2>2. drone'.ready = TRUE /\ drone'.age = drone.age /\ drone'.known = drone.known
    BY <1>2, <1>8, Zenon DEF register_drone
  <2>3. \A g \in Connections : Moves(g)
    BY <1>0, <1>3, <1>8, <2>2, BecomeType DEF register_drone, Moves
  <2> QED
    BY <1>1, <1>8, <2>2, <2>1, <2>3, HandlerStep, Zenon DEF register_drone
<1>9. CASE RegisterFails(h)
  <2>1. RegistrationKept'
    BY <1>0, <1>3, <1>9, BecomeType DEF RegisterFails, IInv, RegistrationKept
  <2>2. h = current => served = 0
    BY <1>0, <1>9 DEF RegisterFails, IInv, ServedIsOpen, TypeOK
  <2>3. \A g \in Connections : Moves(g)
    BY <1>0, <1>3, <1>9, <2>2, BecomeType, Zenon DEF RegisterFails, Moves
  <2> QED
    BY <1>1, <1>9, <2>1, <2>3, HandlerStep, Zenon DEF RegisterFails
<1>10. CASE End(h)
  <2>1. RegistrationKept'
    BY <1>0, <1>3, <1>10, BecomeType DEF End, IInv, RegistrationKept
  <2>3. \A g \in Connections : Moves(g)
    BY <1>0, <1>3, <1>10, BecomeType DEF End, Moves
  <2> QED
    BY <1>1, <1>10, <2>1, <2>3, HandlerStep, Zenon DEF End
<1>11. CASE mark_offline(h)
  <2>1. RegistrationKept'
    BY <1>0, <1>3, <1>6, <1>11, BecomeType DEF mark_offline, IInv, RegistrationKept
  <2>3. \A g \in Connections : Moves(g)
    BY <1>0, <1>3, <1>11, BecomeType, Zenon DEF mark_offline, Moves
  <2> QED
    BY <1>1, <1>11, <2>1, <2>3, HandlerStep, Zenon DEF mark_offline
<1>12. CASE MarkFails(h)
  <2>1. RegistrationKept'
    BY <1>0, <1>3, <1>12, BecomeType DEF MarkFails, IInv, RegistrationKept
  <2>3. \A g \in Connections : Moves(g)
    BY <1>0, <1>3, <1>12, BecomeType, Zenon DEF MarkFails, Moves
  <2> QED
    BY <1>1, <1>12, <2>1, <2>3, HandlerStep, Zenon DEF MarkFails
<1> QED
  BY <1>7, <1>8, <1>9, <1>10, <1>11, <1>12, Zenon

\* The end of a controller's process ends the handlers in it.
LEMMA ExitStep ==
  ASSUME IInv, NEW c \in Controllers, ExitController(c)
  PROVE  IInv'
<1> USE DEF droneVars, rows
<1>0. TypeOK /\ TypeOK'
  BY ControllerTypes, Zenon DEF IInv
<1> DEFINE dead == {h \in Connections : handler[h].controller = c}
<1>1. /\ \A h \in Connections : wire'[h] = IF h \in dead THEN NoBeat ELSE wire[h]
      /\ served' = IF current \in dead THEN 0 ELSE served
      /\ UNCHANGED <<alive, gone, current, beat, node, drone>>
  BY Zenon DEF ExitController
<1>2. /\ \A h \in Connections : handler'[h].controller = handler[h].controller
      /\ \A h \in dead : handler'[h].at = "ended"
      /\ \A h \in Connections \ dead : handler'[h] = handler[h]
  BY <1>0 DEF ExitController, TypeOK, HandlerState
<1>3. RegistrationKept'
  BY <1>1, <1>2, Zenon DEF IInv, RegistrationKept
<1>4. \A h \in dead : handler[h].at # "none"
  BY RegistryAssumption, Zenon DEF IInv, Numbered
<1>5. ASSUME NEW h \in Connections PROVE Moves(h)
  <2>1. CASE h \in dead
    BY <1>1, <1>2, <1>4, <2>1, Zenon DEF Moves
  <2>2. CASE h \notin dead
    BY <1>1, <1>2, <2>2, Zenon DEF Moves
  <2> QED
    BY <2>1, <2>2, Zenon
<1> QED
  BY <1>0, <1>1, <1>3, <1>5, HandlerStep, Zenon

\* A heartbeat is written: it was sent at most Delay ago, while the drone was
\* running.
LEMMA HeartbeatStep ==
  ASSUME IInv, NEW h \in Connections, heartbeat(h)
  PROVE  IInv'
<1> USE DEF controllerVars, droneVars
<1>0. TypeOK /\ TypeOK'
  BY HandlerTypes, Zenon DEF IInv
<1>1. /\ drone'.age = 0 /\ drone'.known = TRUE /\ drone'.ready = drone.ready
      /\ \A g \in Connections : wire'[g] = IF g = h THEN NoBeat ELSE wire[g]
      /\ UNCHANGED <<alive, gone, current, beat, handler, node, served>>
  BY <1>0, Zenon DEF heartbeat, TypeOK
<1>2. gone <= Delay
  BY <1>0, RegistryAssumption DEF heartbeat, IInv, SentAlive, TypeOK, NoBeat
<1>3. Numbered' /\ RegistrationKept' /\ OpenIsReady' /\ ServedIsOpen'
  BY <1>1, Zenon DEF IInv, Numbered, RegistrationKept, OpenIsReady, ServedIsOpen
<1>4. SentAlive'
  BY <1>1, Zenon DEF IInv, SentAlive
<1>5. WrittenAlive'
  BY <1>0, <1>1, <1>2, RegistryAssumption DEF WrittenAlive
<1>6. Beating'
  <2> SUFFICES ASSUME alive, current > 0, CanReceive(current)' PROVE Beating'
    BY <1>1, Zenon DEF Beating
  <2>1. \A n \in Nat : Written(n)'
    BY <1>1 DEF Written
  <2>2. current \in Connections /\ beat \in 0 .. Interval
    BY <1>0, RegistryAssumption DEF TypeOK, Connections
  <2>3. Interval \in Nat /\ Interval - beat \in Nat
    BY <2>2, RegistryAssumption
  <2>4. wire'[current] # NoBeat => Interval + wire'[current] \in Nat
    BY <1>0, <2>2, RegistryAssumption DEF TypeOK, NoBeat
  <2> QED
    BY <1>1, <2>1, <2>3, <2>4, Zenon DEF Beating
<1> QED
  BY <1>0, <1>3, <1>4, <1>5, <1>6, Zenon DEF IInv

\* The drone starts, stops, connects and sends heartbeats.
LEMMA DroneStep ==
  ASSUME IInv, StartDrone \/ StopDrone \/ DroneBeats \/ \E c \in Controllers : Connect(c)
  PROVE  IInv'
<1> USE DEF controllerVars, rows
<1>0. TypeOK /\ TypeOK'
  BY DroneTypes, Zenon DEF IInv
<1>1. current > 0 => current \in Connections
  BY <1>0, RegistryAssumption DEF TypeOK, Connections
<1>2. CASE StartDrone
  <2>1. served = 0
    BY <1>0, <1>2 DEF StartDrone, IInv, ServedIsOpen, TypeOK
  <2>2. Numbered' /\ RegistrationKept' /\ OpenIsReady' /\ ServedIsOpen'
    BY <1>2, <2>1, Zenon DEF StartDrone, IInv, Numbered, RegistrationKept, OpenIsReady, ServedIsOpen
  <2>3. SentAlive' /\ WrittenAlive'
    BY <1>0, <1>2, RegistryAssumption DEF StartDrone, SentAlive, WrittenAlive, TypeOK, NoBeat
  <2>4. Beating'
    BY <1>0, <1>1, <1>2, <2>1, RegistryAssumption DEF StartDrone, Beating, TypeOK, NoBeat
  <2> QED
    BY <1>0, <2>2, <2>3, <2>4, Zenon DEF IInv
<1>3. CASE StopDrone
  <2>1. Numbered' /\ RegistrationKept' /\ OpenIsReady' /\ ServedIsOpen'
    BY <1>3 DEF StopDrone, IInv, Numbered, RegistrationKept, OpenIsReady, ServedIsOpen
  <2>2. SentAlive' /\ WrittenAlive' /\ Beating'
    BY <1>3, Zenon DEF StopDrone, IInv, SentAlive, WrittenAlive, Beating
  <2> QED
    BY <1>0, <2>1, <2>2, Zenon DEF IInv
<1>4. CASE DroneBeats
  <2>1. Numbered' /\ RegistrationKept' /\ OpenIsReady' /\ ServedIsOpen' /\ WrittenAlive'
    BY <1>4, Zenon DEF DroneBeats, IInv, Numbered, RegistrationKept, OpenIsReady, ServedIsOpen, WrittenAlive
  <2>2. SentAlive'
    BY <1>0, <1>4 DEF DroneBeats, IInv, SentAlive, TypeOK
  <2>3. Beating'
    <3> SUFFICES ASSUME CanReceive(current)' PROVE Beating'
      BY <1>4, Zenon DEF Beating, DroneBeats
    <3>1. /\ alive /\ current > 0 /\ current \in Connections /\ CanReceive(current) /\ beat = 0
          /\ UNCHANGED <<alive, current, handler, drone, served>> /\ beat' = Interval
      BY <1>1, <1>4, Zenon DEF DroneBeats, CanReceive
    <3>2. CASE wire[current] = NoBeat
      <4>1. wire'[current] = 0
        BY <1>0, <1>4, <3>1, <3>2, Zenon DEF DroneBeats, TypeOK
      <4>2. served = 0 \/ Written(Interval)
        BY <3>1, <3>2, Zenon DEF IInv, Beating
      <4>3. served' <= 0 \/ Written(Interval + 0)'
        BY <3>1, <4>2, RegistryAssumption DEF Written
      <4> QED
        BY <3>1, <4>1, <4>3 DEF Beating, NoBeat
    <3>3. CASE wire[current] # NoBeat
      <4>1. wire' = wire
        BY <1>4, <3>3, Zenon DEF DroneBeats
      <4> QED
        BY <3>1, <3>3, <4>1, Zenon DEF IInv, Beating, Written
    <3> QED
      BY <3>2, <3>3, Zenon
  <2> QED
    BY <1>0, <2>1, <2>2, <2>3, Zenon DEF IInv
<1>5. ASSUME NEW c \in Controllers, Connect(c) PROVE IInv'
  <2>1. /\ current \in Nat /\ current' = current + 1 /\ current + 1 \in Connections
        /\ served' = 0 /\ beat' = 0
        /\ UNCHANGED <<alive, gone, wire, node, drone>>
    BY <1>0, <1>5, RegistryAssumption DEF Connect, TypeOK, Connections
  <2>2. /\ handler'[current + 1].at = "begun" /\ handler'[current + 1].controller = c
        /\ \A h \in Connections : h # current + 1 => handler'[h] = handler[h]
    BY <1>0, <1>5, <2>1, Zenon DEF Connect, TypeOK, HandlerState
  <2>3. \A h \in Connections : h \in Int
    BY Numbers
  <2>4. Numbered'
    BY <2>1, <2>2, <2>3 DEF IInv, Numbered
  <2>5. RegistrationKept' /\ OpenIsReady'
    BY <2>1, <2>2, Zenon DEF IInv, RegistrationKept, OpenIsReady
  <2>6. SentAlive' /\ WrittenAlive' /\ ServedIsOpen'
    BY <2>1 DEF IInv, SentAlive, WrittenAlive, ServedIsOpen
  <2>7. Beating'
    BY <1>0, <2>1, RegistryAssumption DEF Beating, TypeOK, NoBeat
  <2> QED
    BY <1>0, <2>4, <2>5, <2>6, <2>7, Zenon DEF IInv
<1> QED
  BY <1>2, <1>3, <1>4, <1>5, Zenon

\* Time passes: everything that is compared grows by the same amount.
LEMMA TickStep ==
  ASSUME IInv, Tick
  PROVE  IInv'
<1>0. TypeOK /\ TypeOK'
  BY DroneTypes, Zenon DEF IInv
<1>1. /\ UNCHANGED <<alive, current, handler, node>>
      /\ drone'.ready = drone.ready /\ drone'.known = drone.known
      /\ drone'.age = Aged(drone.age, Unhealthy)
      /\ gone' = IF alive THEN 0 ELSE Aged(gone, Unhealthy + Delay)
      /\ \A h \in Connections : wire'[h] = IF wire[h] = NoBeat THEN NoBeat ELSE wire[h] + 1
  BY <1>0, Zenon DEF Tick, TypeOK
<1>2. /\ drone.age \in Int /\ drone'.age \in Int /\ drone'.age <= drone.age + 1
      /\ gone \in 0 .. Unhealthy + Delay /\ gone' \in 0 .. Unhealthy + Delay /\ gone' <= gone + 1
      /\ served \in 0 .. Delay + 1 /\ served' \in 0 .. Delay + 1 /\ served' <= served + 1
      /\ Interval \in Int /\ Delay \in Int /\ Unhealthy \in Int
  BY <1>0, <1>1, Numbers, RegistryAssumption DEF Tick, TypeOK
<1>3. Numbered' /\ RegistrationKept' /\ OpenIsReady'
  BY <1>1, Zenon DEF IInv, Numbered, RegistrationKept, OpenIsReady
<1>4. ServedIsOpen'
  BY <1>1 DEF Tick, ServedIsOpen
<1>5. SentAlive'
  <2>1. alive => gone' = 0
    BY <1>1, Zenon
  <2>2. ASSUME NEW h \in Connections, wire'[h] # NoBeat PROVE gone' <= wire'[h]
    <3>1. wire[h] # NoBeat /\ wire'[h] = wire[h] + 1
      BY <1>1, <2>2, Zenon
    <3>2. gone <= wire[h] /\ wire[h] \in Int
      BY <1>0, <3>1, RegistryAssumption DEF IInv, SentAlive, TypeOK, NoBeat
    <3> QED
      BY <1>2, <3>1, <3>2
  <2> QED
    BY <1>1, <2>1, <2>2, Zenon DEF SentAlive
<1>6. WrittenAlive'
  <2>1. CASE drone.age = Unhealthy
    BY <1>1, <1>2, <2>1 DEF Aged, WrittenAlive
  <2>2. CASE drone.age # Unhealthy
    <3>0. drone.age \in 0 .. Unhealthy
      BY <1>0, Zenon DEF TypeOK
    <3>1. drone.age < Unhealthy /\ gone <= drone.age + Delay
      BY <1>2, <2>2, <3>0 DEF IInv, WrittenAlive
    <3>2. drone'.age = drone.age + 1
      BY <1>1, <3>1, Zenon DEF Aged
    <3> QED
      BY <1>2, <3>1, <3>2 DEF WrittenAlive
  <2> QED
    BY <2>1, <2>2, Zenon
<1>7. Beating'
  <2> SUFFICES ASSUME alive, current > 0, CanReceive(current)
               PROVE  Beating'
    BY <1>1, Zenon DEF Beating, CanReceive
  <2>0. current \in Connections /\ beat \in Int /\ beat > 0 /\ beat' = beat - 1
    BY <1>0, RegistryAssumption DEF TypeOK, Connections, Tick
  <2>1. CASE wire[current] # NoBeat
    <3>1. wire'[current] = wire[current] + 1 /\ wire[current] \in Int /\ wire'[current] # NoBeat
      BY <1>0, <1>1, <2>0, <2>1, RegistryAssumption DEF TypeOK, NoBeat
    <3>2. served <= wire[current] \/ (drone.known /\ drone.age <= Interval + wire[current])
      BY <2>1, Zenon DEF IInv, Beating, Written
    <3>3. served' <= wire'[current] \/ (drone'.known /\ drone'.age <= Interval + wire'[current])
      BY <1>1, <1>2, <3>1, <3>2
    <3> QED
      BY <1>1, <3>1, <3>3, Zenon DEF Beating, Written
  <2>2. CASE wire[current] = NoBeat
    <3>1. wire'[current] = NoBeat
      BY <1>1, <2>0, <2>2, Zenon
    <3>2. drone.known /\ drone.age <= Interval - beat
      BY <2>0, <2>2, Zenon DEF IInv, Beating, Written
    <3>3. drone'.known /\ drone'.age <= Interval - beat' /\ (beat' = 0 => drone'.age <= Interval)
      BY <1>1, <1>2, <2>0, <3>2
    <3> QED
      BY <1>1, <3>1, <3>3, Zenon DEF Beating, Written
  <2> QED
    BY <2>1, <2>2, Zenon
<1> QED
  BY <1>0, <1>3, <1>4, <1>5, <1>6, <1>7, Zenon DEF IInv

-----------------------------------------------------------------------------
(* The theorems *)

\* The invariant holds in every reachable state, whatever the drone and the
\* controllers do and in whatever order the connections are torn down.
THEOREM Invariance == Spec => []IInv
<1>1. Init => IInv
  <2> SUFFICES ASSUME Init PROVE IInv
    BY Zenon
  <2>1. handler \in [Connections -> HandlerState] /\ wire \in [Connections -> NoBeat .. Delay]
    BY Numbers, Zenon DEF Init, HandlerState, At
  <2>2. /\ 0 \in 0 .. Interval /\ 0 \in 0 .. MaxConnections /\ 0 \in 0 .. Delay + 1 /\ 0 \in 0 .. 0
        /\ Unhealthy \in 0 .. Unhealthy /\ Unhealthy + Delay \in 0 .. Unhealthy + Delay
    BY RegistryAssumption
  <2>3. /\ process \in [Controllers -> {"down", "up", "stopping"}]
        /\ ctl \in [Controllers -> [online : BOOLEAN, age : 0 .. Unhealthy]]
    BY <2>2, Zenon DEF Init
  <2>4. /\ node \in [controller : Controllers \cup {None}, start : 0 .. current]
        /\ drone \in [ready : BOOLEAN, draining : BOOLEAN, age : 0 .. Unhealthy, known : BOOLEAN]
    BY <2>2, Zenon DEF Init
  <2>5. TypeOK
    BY <2>1, <2>2, <2>3, <2>4, Zenon DEF Init, TypeOK
  <2>6. \A h \in Connections : handler[h].at = "none" /\ handler[h].controller = None /\ wire[h] = NoBeat
    BY Zenon DEF Init
  <2>7. Numbered /\ RegistrationKept /\ OpenIsReady /\ SentAlive
    BY <2>6, Zenon DEF Init, Numbered, RegistrationKept, OpenIsReady, SentAlive
  <2>8. WrittenAlive /\ ServedIsOpen /\ Beating
    BY DEF Init, WrittenAlive, ServedIsOpen, Beating
  <2> QED
    BY <2>5, <2>7, <2>8, Zenon DEF IInv
<1>2. IInv /\ [Next]_vars => IInv'
  <2> SUFFICES ASSUME IInv, [Next]_vars PROVE IInv'
    BY Zenon
  <2>1. CASE Tick
    BY <2>1, TickStep, Zenon
  <2>2. CASE StartDrone \/ StopDrone \/ DroneBeats \/ \E c \in Controllers : Connect(c)
    BY <2>2, DroneStep, Zenon
  <2>3. ASSUME NEW h \in Connections, heartbeat(h) PROVE IInv'
    BY <2>3, HeartbeatStep, Zenon
  <2>4. ASSUME NEW h \in Connections,
               \/ register(h) \/ RegisterFails(h) \/ register_drone(h)
               \/ End(h) \/ mark_offline(h) \/ MarkFails(h)
        PROVE  IInv'
    BY <2>4, ServingStep, Zenon
  <2>5. ASSUME NEW c \in Controllers, ExitController(c) PROVE IInv'
    BY <2>5, ExitStep, Zenon
  <2>6. ASSUME NEW c \in Controllers,
               \/ StartController(c) \/ ControllerBeats(c)
               \/ \E outcome \in Outcomes : StopController(c, outcome)
        PROVE  IInv'
    <3>1. UNCHANGED <<droneVars, wire, handler, rows, served>>
      BY <2>6, Zenon DEF StartController, ControllerBeats, StopController
    <3>2. TypeOK'
      BY <2>6, ControllerTypes, Zenon
    <3> QED
      BY <3>1, <3>2, QuietStep, Zenon DEF droneVars, rows
  <2>7. CASE drain
    <3>1. drone'.ready = drone.ready /\ drone'.age = drone.age /\ drone'.known = drone.known
      BY <2>7, Zenon DEF drain, IInv, TypeOK
    <3>2. TypeOK'
      BY <2>7, DroneTypes, Zenon
    <3> QED
      BY <2>7, <3>1, <3>2, QuietStep, Zenon DEF drain, droneVars
  <2>8. CASE UNCHANGED vars
    <3>1. TypeOK'
      BY <2>8, Zenon DEF IInv, TypeOK, vars, controllerVars, droneVars, rows
    <3> QED
      BY <2>8, <3>1, QuietStep, Zenon DEF vars, droneVars, rows
  <2> QED
    BY <2>1, <2>2, <2>3, <2>4, <2>5, <2>6, <2>7, <2>8, Zenon DEF Next
<1> QED
  BY <1>1, <1>2, PTL DEF Spec

\* The late end of a connection never takes a drone offline that has
\* registered again since: mark_offline compares controller and start time.
THEOREM RegistrationIsKept == Spec => []RegistrationKept
<1>1. IInv => RegistrationKept
  BY Zenon DEF IInv
<1> QED
  BY <1>1, Invariance, PTL

\* pick_drone_for_spawn places no backend on a drone that has been gone for
\* longer than UNHEALTHY_SECONDS and the time its last heartbeat was under way.
THEOREM LostDronesGetNoBackend == Spec => []NoSpawnOnLost
<1>1. IInv => NoSpawnOnLost
  <2> SUFFICES ASSUME IInv, Eligible PROVE gone < Unhealthy + Delay
    BY Zenon DEF NoSpawnOnLost
  <2>1. drone.age \in 0 .. Unhealthy /\ gone \in 0 .. Unhealthy + Delay /\ drone.age < Unhealthy
    BY Zenon DEF IInv, TypeOK, Eligible
  <2>2. gone <= drone.age + Delay
    BY <2>1, RegistryAssumption DEF IInv, WrittenAlive
  <2> QED
    BY <2>1, <2>2, RegistryAssumption
<1> QED
  BY <1>1, Invariance, PTL

\* A drone whose connection has been served for longer than a heartbeat is
\* under way is a candidate of pick_drone_for_spawn, if its controller is.
THEOREM HealthyDronesAreEligible == Spec => []HealthyIsEligible
<1>1. IInv => HealthyIsEligible
  <2> SUFFICES ASSUME IInv, alive, served > Delay, node.start = current, ~drone.draining,
                      ctl[handler[current].controller].online,
                      ctl[handler[current].controller].age < Unhealthy
               PROVE  Eligible
    BY Zenon DEF HealthyIsEligible
  <2>0. /\ served \in 0 .. Delay + 1 /\ current \in 0 .. MaxConnections /\ beat \in 0 .. Interval
        /\ wire \in [Connections -> NoBeat .. Delay] /\ drone.age \in 0 .. Unhealthy
    BY Zenon DEF IInv, TypeOK
  <2>1. current > 0 /\ handler[current].at = "open" /\ current \in Connections
    BY <2>0, RegistryAssumption DEF IInv, ServedIsOpen, Connections
  <2>2. drone.ready
    BY <2>1, Zenon DEF IInv, OpenIsReady
  <2>3. node.controller = handler[current].controller /\ node.controller \in Controllers
    BY <2>1, Zenon DEF IInv, RegistrationKept, Numbered
  <2>4. CanReceive(current)
    BY <2>1, Zenon DEF CanReceive
  <2>5. drone.known /\ drone.age < Unhealthy
    <3>1. CASE wire[current] # NoBeat
      <4>1. wire[current] \in 0 .. Delay
        BY <2>0, <2>1, <3>1, RegistryAssumption DEF NoBeat
      <4>2. Written(Interval + wire[current])
        BY <2>0, <2>1, <2>4, <3>1, <4>1, RegistryAssumption DEF IInv, Beating
      <4> QED
        BY <2>0, <4>1, <4>2, RegistryAssumption DEF Written
    <3>2. CASE wire[current] = NoBeat
      <4>1. Written(Interval - beat) \/ Written(Interval)
        BY <2>0, <2>1, <2>4, <3>2, RegistryAssumption DEF IInv, Beating
      <4> QED
        BY <2>0, <4>1, RegistryAssumption DEF Written
    <3> QED
      BY <3>1, <3>2, Zenon
  <2>6. node.controller # None
    BY <2>3, RegistryAssumption, Zenon
  <2> QED
    BY <2>2, <2>3, <2>5, <2>6, Zenon DEF Eligible
<1> QED
  BY <1>1, Invariance, PTL

\* Nothing a drone or a controller does ends a drain: register_drone leaves the
\* column alone.
THEOREM DrainsHold == Spec => DrainHolds
<1>1. IInv /\ [Next]_vars => [drone.draining => drone'.draining]_vars
  <2> SUFFICES ASSUME IInv, [Next]_vars, drone.draining PROVE drone'.draining
    BY Zenon
  <2> USE DEF controllerVars, droneVars, rows
  <2>0. drone \in [ready : BOOLEAN, draining : BOOLEAN, age : 0 .. Unhealthy, known : BOOLEAN]
    BY Zenon DEF IInv, TypeOK
  <2>1. ASSUME NEW h \in Connections, register_drone(h) \/ heartbeat(h) PROVE drone'.draining
    BY <2>0, <2>1, Zenon DEF register_drone, heartbeat
  <2>2. CASE drain \/ Tick
    BY <2>0, <2>2, Zenon DEF drain, Tick
  <2>3. CASE UNCHANGED drone
    BY <2>3, Zenon
  <2>4. ASSUME NEW h \in Connections,
               \/ register(h) \/ RegisterFails(h) \/ End(h) \/ mark_offline(h) \/ MarkFails(h)
        PROVE  UNCHANGED drone
    BY <2>4, Zenon DEF register, RegisterFails, End, mark_offline, MarkFails
  <2>5. ASSUME NEW c \in Controllers,
               \/ StartController(c) \/ ControllerBeats(c) \/ ExitController(c) \/ Connect(c)
               \/ \E outcome \in Outcomes : StopController(c, outcome)
        PROVE  UNCHANGED drone
    BY <2>5, Zenon DEF StartController, ControllerBeats, ExitController, Connect, StopController
  <2>6. CASE StartDrone \/ StopDrone \/ DroneBeats \/ UNCHANGED vars
    BY <2>6, Zenon DEF StartDrone, StopDrone, DroneBeats, vars
  <2> QED
    BY <2>1, <2>2, <2>3, <2>4, <2>5, <2>6, Zenon DEF Next
<1> QED
  BY <1>1, Invariance, PTL DEF Spec, DrainHolds

-----------------------------------------------------------------------------
(* IdleSweep: the inductive invariant *)

Visits == [backend : Backends, due : 0 .. VisitInterval]
Messages == [backend : Backends, age : 0 .. WireDelay]
EntryMaps == UNION {[S -> Entries] : S \in SUBSET Backends}
Monitors == [backends : EntryMaps, queue : Seq(Visits)]

\* Visits are queued in the order they are due.
Sorted(q) == \A i, j \in DOMAIN q : i <= j => q[i].due <= q[j].due

\* The monitor counts the open connections.
Counts(b) ==
  /\ HasEntry(monitor, b) => monitor.backends[b].active = open[b]
  /\ ~HasEntry(monitor, b) => open[b] = 0

\* A keepalive that was sent a while ago is still under way, or has been handled.
Arrives(b, a) ==
  \/ \E k \in Range(keepalives) : k.backend = b /\ k.age = a
  \/ idle[b] <= a

\* With an entry goes a visit, and with the visit the keepalive that was sent
\* when it was queued, if none has been lost since.
Since(v) == VisitInterval - v.due
Announced(b, v) == connected /\ calm > Since(v) => Arrives(b, Since(v))

Queued(b) ==
  HasEntry(monitor, b) => \E v \in Range(monitor.queue) : v.backend = b /\ Announced(b, v)

\* Of the keepalives sent in an interval that is past, and during which the
\* backend had a connection and nothing was lost, one is still under way or has
\* been handled.
HeardAt(b, x) ==
  \/ \E k \in Range(keepalives) : k.backend = b /\ k.age \in x .. x + VisitInterval - 1
  \/ idle[b] <= x + VisitInterval - 1

Heard(b) ==
  \A x \in 1 .. WireDelay + 1 :
    held[b] >= x /\ connected /\ calm >= x + VisitInterval => HeardAt(b, x)

Kept(b) == status[b] \notin Ended => Counts(b) /\ Queued(b) /\ Heard(b)

HeldOpen == \A b \in Backends : open[b] > 0 \/ held[b] = 0

SweepIInv ==
  /\ SweepTypeOK /\ Sorted(monitor.queue) /\ (connected \/ calm = 0) /\ HeldOpen
  /\ \A b \in Backends : Kept(b)

-----------------------------------------------------------------------------
(* IdleSweep: queues *)

\* What a sequence holds with one more element.
LEMMA MoreAppended ==
  ASSUME NEW S, NEW s \in Seq(S), NEW e \in S
  PROVE  /\ Append(s, e) \in Seq(S) /\ e \in Range(Append(s, e))
         /\ \A x \in Range(s) : x \in Range(Append(s, e))
<1>1. Append(s, e) \in Seq(S) /\ DOMAIN s = 1..Len(s) /\ DOMAIN Append(s, e) = 1..(Len(s) + 1)
  OBVIOUS
<1>2. Append(s, e)[Len(s) + 1] = e /\ \A n \in 1..Len(s) : Append(s, e)[n] = s[n]
  OBVIOUS
<1>3. Len(s) + 1 \in 1..(Len(s) + 1) /\ \A n \in 1..Len(s) : n \in 1..(Len(s) + 1)
  BY <1>1
<1> QED  BY <1>1, <1>2, <1>3, Zenon DEF Range

\* What a sequence holds is its head or in its tail.
LEMMA HeadOrTail ==
  ASSUME NEW S, NEW s \in Seq(S), s # <<>>
  PROVE  /\ Head(s) \in S /\ Head(s) \in Range(s) /\ Tail(s) \in Seq(S)
         /\ \A x \in Range(s) : x = Head(s) \/ x \in Range(Tail(s))
<1>1. /\ Head(s) \in S /\ Tail(s) \in Seq(S) /\ Head(s) = s[1] /\ Len(s) \in Nat \ {0}
      /\ DOMAIN s = 1..Len(s) /\ DOMAIN Tail(s) = 1..(Len(s) - 1)
  OBVIOUS
<1>2. \A n \in 1..(Len(s) - 1) : Tail(s)[n] = s[n + 1]
  OBVIOUS
<1>3. \A n \in 1..Len(s) : n = 1 \/ (n - 1 \in 1..(Len(s) - 1) /\ Tail(s)[n - 1] = s[n])
  BY <1>1, <1>2
<1>4. 1 \in 1..Len(s)
  BY <1>1
<1>5. Head(s) \in Range(s)
  BY <1>1, <1>4, Zenon DEF Range
<1>6. ASSUME NEW x \in Range(s), x # Head(s) PROVE x \in Range(Tail(s))
  <2>1. PICK n \in 1..Len(s) : s[n] = x
    BY <1>1, Zenon DEF Range
  <2>2. n - 1 \in 1..(Len(s) - 1) /\ Tail(s)[n - 1] = x
    BY <1>1, <1>3, <1>6, <2>1, Zenon
  <2> QED  BY <1>1, <2>2, Zenon DEF Range
<1> QED  BY <1>1, <1>5, <1>6, Zenon

\* What a sequence holds is of the type of its elements.
LEMMA RangeIn == ASSUME NEW S, NEW s \in Seq(S) PROVE \A x \in Range(s) : x \in S
  BY DEF Range

\* A visit that is due last goes to the end.
LEMMA SortedAppend ==
  ASSUME NEW q \in Seq(Visits), Sorted(q), NEW v \in Visits, v.due = VisitInterval
  PROVE  Sorted(Append(q, v))
<1>1. /\ Append(q, v) \in Seq(Visits) /\ Len(q) \in Nat /\ DOMAIN q = 1..Len(q)
      /\ DOMAIN Append(q, v) = 1..(Len(q) + 1)
  OBVIOUS
<1>2. Append(q, v)[Len(q) + 1] = v /\ \A n \in 1..Len(q) : Append(q, v)[n] = q[n]
  OBVIOUS
<1>3. \A n \in 1..Len(q) : q[n].due <= VisitInterval
  <2>1. \A n \in 1..Len(q) : q[n] \in Visits
    OBVIOUS
  <2>2. \A n \in 1..Len(q) : q[n].due \in 0..VisitInterval
    BY <2>1, Zenon DEF Visits
  <2> QED  BY <2>2, SweepAssumption
<1>4. VisitInterval <= VisitInterval
  BY SweepAssumption
<1> SUFFICES ASSUME NEW i \in 1..(Len(q) + 1), NEW j \in 1..(Len(q) + 1), i <= j
             PROVE  Append(q, v)[i].due <= Append(q, v)[j].due
  BY <1>1, Zenon DEF Sorted
<1>5. CASE j = Len(q) + 1
  <2>1. i = Len(q) + 1 \/ i \in 1..Len(q)
    BY <1>1
  <2> QED  BY <1>2, <1>3, <1>4, <1>5, <2>1, Zenon
<1>6. CASE j # Len(q) + 1
  <2>1. i \in 1..Len(q) /\ j \in 1..Len(q)
    BY <1>1, <1>6
  <2> QED  BY <1>1, <1>2, <2>1, Zenon DEF Sorted
<1> QED  BY <1>5, <1>6, Zenon

\* The first visit may go.
LEMMA SortedTail ==
  ASSUME NEW q \in Seq(Visits), Sorted(q), q # <<>> PROVE Sorted(Tail(q))
<1>1. /\ Len(q) \in Nat \ {0} /\ DOMAIN q = 1..Len(q) /\ DOMAIN Tail(q) = 1..(Len(q) - 1)
  OBVIOUS
<1>2. \A n \in 1..(Len(q) - 1) : n + 1 \in 1..Len(q) /\ Tail(q)[n] = q[n + 1]
  OBVIOUS
<1>3. \A i, j \in 1..(Len(q) - 1) : i <= j => i + 1 <= j + 1
  BY <1>1
<1> QED  BY <1>1, <1>2, <1>3, Zenon DEF Sorted

\* No visit is due before the first.
LEMMA FirstDue ==
  ASSUME NEW q \in Seq(Visits), Sorted(q), q # <<>>
  PROVE  \A v \in Range(q) : Head(q).due <= v.due
<1>1. /\ Head(q) = q[1] /\ DOMAIN q = 1..Len(q) /\ 1 \in 1..Len(q)
      /\ \A n \in 1..Len(q) : 1 <= n
  OBVIOUS
<1> QED  BY <1>1, Zenon DEF Sorted, Range

\* A function on the first numbers is a sequence.
LEMMA SeqOf == ASSUME NEW S, NEW n \in Nat, NEW f \in [1..n -> S] PROVE f \in Seq(S)
  OBVIOUS

Sooner(v) == [v EXCEPT !.due = @ - 1]

\* Time passes for the visits, of which none is due.
LEMMA NearerFacts ==
  ASSUME NEW q \in Seq(Visits), Sorted(q), q # <<>> => Head(q).due > 0
  PROVE  /\ Nearer(q) \in Seq(Visits) /\ Sorted(Nearer(q))
         /\ \A v \in Range(q) : /\ Sooner(v) \in Range(Nearer(q)) /\ Sooner(v).backend = v.backend
                                /\ Sooner(v).due = v.due - 1 /\ v.due \in 1..VisitInterval
<1>1. DOMAIN q = 1..Len(q) /\ Len(q) \in Nat /\ \A i \in DOMAIN q : q[i] \in Visits /\ q[i] \in Range(q)
  BY DEF Range
<1>2. \A v \in Range(q) : v \in Visits
  BY RangeIn, Zenon
<1>3. \A v \in Visits : v.due \in 0..VisitInterval
  BY Zenon DEF Visits
<1>4. \A v \in Range(q) : v.due \in 1..VisitInterval
  <2> TAKE v \in Range(q)
  <2>1. q # <<>>
    BY DEF Range
  <2>2. Head(q).due <= v.due /\ Head(q).due > 0 /\ Head(q) \in Visits
    BY <2>1, FirstDue, HeadOrTail, Zenon
  <2> QED  BY <1>2, <1>3, <2>2, SweepAssumption
<1>5. ASSUME NEW v \in Range(q)
      PROVE  Sooner(v) \in Visits /\ Sooner(v).backend = v.backend /\ Sooner(v).due = v.due - 1
  <2>1. v.due - 1 \in 0..VisitInterval
    BY <1>4, SweepAssumption
  <2> QED  BY <1>2, <2>1 DEF Sooner, Visits
<1>6. /\ DOMAIN Nearer(q) = DOMAIN q /\ \A i \in DOMAIN q : Nearer(q)[i] = Sooner(q[i])
      /\ Nearer(q) = [i \in 1..Len(q) |-> Sooner(q[i])]
  BY <1>1, Zenon DEF Nearer, Sooner
<1>7. Nearer(q) \in Seq(Visits)
  <2>1. Nearer(q) \in [1..Len(q) -> Visits]
    BY <1>1, <1>5, <1>6, Zenon
  <2> QED  BY <1>1, <2>1, SeqOf, Zenon
<1>8. Sorted(Nearer(q))
  <2> SUFFICES ASSUME NEW i \in DOMAIN q, NEW j \in DOMAIN q, i <= j
               PROVE  Nearer(q)[i].due <= Nearer(q)[j].due
    BY <1>6, Zenon DEF Sorted
  <2>1. q[i].due <= q[j].due
    BY Zenon DEF Sorted
  <2>2. Nearer(q)[i].due = q[i].due - 1 /\ Nearer(q)[j].due = q[j].due - 1
    BY <1>1, <1>5, <1>6, Zenon
  <2>3. q[i].due \in 1..VisitInterval /\ q[j].due \in 1..VisitInterval
    BY <1>1, <1>4, Zenon
  <2> QED  BY <2>1, <2>2, <2>3, SweepAssumption
<1>9. \A v \in Range(q) : Sooner(v) \in Range(Nearer(q))
  BY <1>6, Zenon DEF Range
<1> QED  BY <1>4, <1>5, <1>7, <1>8, <1>9, Zenon

OneOlder(k) == [k EXCEPT !.age = @ + 1]

\* Time passes for the keepalives, of which none is late.
LEMMA OlderFacts ==
  ASSUME NEW w \in Seq(Messages), \A i \in DOMAIN w : w[i].age < WireDelay
  PROVE  /\ Older(w) \in Seq(Messages)
         /\ \A k \in Range(w) : /\ OneOlder(k) \in Range(Older(w)) /\ OneOlder(k).backend = k.backend
                                /\ OneOlder(k).age = k.age + 1
<1>1. DOMAIN w = 1..Len(w) /\ Len(w) \in Nat /\ \A i \in DOMAIN w : w[i] \in Messages
  OBVIOUS
<1>2. ASSUME NEW i \in DOMAIN w
      PROVE  /\ OneOlder(w[i]) \in Messages /\ OneOlder(w[i]).backend = w[i].backend
             /\ OneOlder(w[i]).age = w[i].age + 1
  <2>1. w[i].age + 1 \in 0..WireDelay
    <3>1. w[i].age < WireDelay /\ w[i].age \in 0..WireDelay
      BY <1>1, Zenon DEF Messages
    <3> QED  BY <3>1, SweepAssumption
  <2>2. w[i] \in Messages
    BY <1>1, Zenon
  <2> QED  BY <2>1, <2>2 DEF OneOlder, Messages
<1>3. /\ DOMAIN Older(w) = DOMAIN w /\ \A i \in DOMAIN w : Older(w)[i] = OneOlder(w[i])
      /\ Older(w) = [i \in 1..Len(w) |-> OneOlder(w[i])]
  BY <1>1, Zenon DEF Older, OneOlder
<1>4. Older(w) \in [1..Len(w) -> Messages]
  BY <1>1, <1>2, <1>3, Zenon
<1>5. Older(w) \in Seq(Messages)
  BY <1>1, <1>4, SeqOf, Zenon
<1> QED  BY <1>2, <1>3, <1>5, Zenon DEF Range

-----------------------------------------------------------------------------
(* IdleSweep: the connection monitor *)

WithEntries(m, f) == [m EXCEPT !.backends = f]
WithVisits(m, q) == [m EXCEPT !.queue = q]

\* The parts of a monitor.
LEMMA Parts ==
  ASSUME NEW m \in Monitors
  PROVE  /\ DOMAIN m.backends \subseteq Backends
         /\ m.backends \in [DOMAIN m.backends -> Entries]
         /\ m.queue \in Seq(Visits)
<1>1. m.backends \in EntryMaps /\ m.queue \in Seq(Visits)
  BY Zenon DEF Monitors
<1>2. PICK S \in SUBSET Backends : m.backends \in [S -> Entries]
  BY <1>1, Zenon DEF EntryMaps
<1>3. DOMAIN m.backends = S
  BY <1>2, Zenon
<1> QED  BY <1>1, <1>2, <1>3, Zenon

\* A monitor with other entries.
LEMMA OtherEntries ==
  ASSUME NEW m \in Monitors, NEW f \in EntryMaps
  PROVE  WithEntries(m, f) \in Monitors /\ WithEntries(m, f).backends = f /\ WithEntries(m, f).queue = m.queue
  BY Zenon DEF WithEntries, Monitors

\* A monitor with other visits.
LEMMA OtherVisits ==
  ASSUME NEW m \in Monitors, NEW q \in Seq(Visits)
  PROVE  WithVisits(m, q) \in Monitors /\ WithVisits(m, q).queue = q /\ WithVisits(m, q).backends = m.backends
  BY Zenon DEF WithVisits, Monitors

\* Enqueue adds a visit.
LEMMA Enqueued ==
  ASSUME NEW m \in Monitors, NEW b \in Backends, NEW d \in 0..VisitInterval
  PROVE  /\ [backend |-> b, due |-> d] \in Visits
         /\ Enqueue(m, b, d) \in Monitors /\ Enqueue(m, b, d).backends = m.backends
         /\ Enqueue(m, b, d).queue = Append(m.queue, [backend |-> b, due |-> d])
<1> DEFINE v == [backend |-> b, due |-> d]
<1>1. v \in Visits
  BY Zenon DEF Visits
<1>2. m.queue \in Seq(Visits)
  BY Parts, Zenon
<1>3. Enqueue(m, b, d) = WithVisits(m, Append(m.queue, v))
  BY Zenon DEF Enqueue, WithVisits
<1>4. Append(m.queue, v) \in Seq(Visits)
  BY <1>1, <1>2
<1> HIDE DEF v
<1>5. /\ WithVisits(m, Append(m.queue, v)) \in Monitors
      /\ WithVisits(m, Append(m.queue, v)).queue = Append(m.queue, v)
      /\ WithVisits(m, Append(m.queue, v)).backends = m.backends
  BY <1>4, OtherVisits, Zenon
<1>6. v \in Visits /\ Enqueue(m, b, d) \in Monitors /\ Enqueue(m, b, d).backends = m.backends
      /\ Enqueue(m, b, d).queue = Append(m.queue, v)
  BY <1>1, <1>3, <1>5, Zenon
<1> QED  BY <1>6, Zenon DEF v

\* m2 is m with e as the entry of b.
EntryIs(m, m2, b, e) ==
  /\ m2 \in Monitors /\ m2.queue = m.queue /\ m2.backends[b] = e
  /\ \A x : HasEntry(m2, x) <=> HasEntry(m, x) \/ x = b
  /\ \A x : HasEntry(m, x) /\ x # b => m2.backends[x] = m.backends[x]

\* SetEntry sets one entry and leaves the queue.
LEMMA EntrySet ==
  ASSUME NEW m \in Monitors, NEW b \in Backends, NEW e \in Entries
  PROVE  EntryIs(m, SetEntry(m, b, e), b, e)
<1> DEFINE S == DOMAIN m.backends \cup {b}
           f == [x \in S |-> IF x = b THEN e ELSE m.backends[x]]
<1>1. m.backends \in [DOMAIN m.backends -> Entries] /\ DOMAIN m.backends \subseteq Backends
  BY Parts, Zenon
<1>2. S \in SUBSET Backends /\ f \in [S -> Entries] /\ DOMAIN f = S /\ f[b] = e
  BY <1>1, Zenon
<1>3. \A x \in DOMAIN m.backends : x # b => f[x] = m.backends[x]
  BY Zenon
<1>4. SetEntry(m, b, e) = WithEntries(m, f)
  BY Zenon DEF SetEntry, WithEntries
<1>5. f \in EntryMaps
  BY <1>2, Zenon DEF EntryMaps
<1> HIDE DEF f
<1>6. WithEntries(m, f) \in Monitors /\ WithEntries(m, f).backends = f /\ WithEntries(m, f).queue = m.queue
  BY <1>5, OtherEntries, Zenon
<1>7. SetEntry(m, b, e) \in Monitors /\ SetEntry(m, b, e).backends = f /\ SetEntry(m, b, e).queue = m.queue
  BY <1>4, <1>6, Zenon
<1> QED  BY <1>2, <1>3, <1>7, Zenon DEF HasEntry, EntryIs

\* m2 is m without an entry of b.
EntryGone(m, m2, b) ==
  /\ m2 \in Monitors /\ m2.queue = m.queue
  /\ \A x : HasEntry(m2, x) <=> HasEntry(m, x) /\ x # b
  /\ \A x : HasEntry(m, x) /\ x # b => m2.backends[x] = m.backends[x]

\* DropEntry drops one entry and leaves the queue.
LEMMA EntryDropped ==
  ASSUME NEW m \in Monitors, NEW b
  PROVE  EntryGone(m, DropEntry(m, b), b)
<1> DEFINE S == DOMAIN m.backends \ {b}
           f == [x \in S |-> m.backends[x]]
<1>1. m.backends \in [DOMAIN m.backends -> Entries] /\ DOMAIN m.backends \subseteq Backends
  BY Parts, Zenon
<1>2. S \in SUBSET Backends /\ f \in [S -> Entries] /\ DOMAIN f = S
  BY <1>1, Zenon
<1>3. \A x \in S : f[x] = m.backends[x]
  BY Zenon
<1>4. DropEntry(m, b) = WithEntries(m, f)
  BY Zenon DEF DropEntry, WithEntries
<1>5. f \in EntryMaps
  BY <1>2, Zenon DEF EntryMaps
<1> HIDE DEF f
<1>6. WithEntries(m, f) \in Monitors /\ WithEntries(m, f).backends = f /\ WithEntries(m, f).queue = m.queue
  BY <1>5, OtherEntries, Zenon
<1>7. DropEntry(m, b) \in Monitors /\ DropEntry(m, b).backends = f /\ DropEntry(m, b).queue = m.queue
  BY <1>4, <1>6, Zenon
<1> QED  BY <1>2, <1>3, <1>7, Zenon DEF HasEntry, EntryGone

\* An entry, and what changing it is.
LEMMA EntryChanged ==
  ASSUME NEW m \in Monitors, NEW b, HasEntry(m, b)
  PROVE  /\ b \in Backends /\ m.backends[b] \in Entries
         /\ m.backends[b].active \in 0 .. CountBound - 1
         /\ \A e : [m EXCEPT !.backends[b] = e] = SetEntry(m, b, e)
<1> DEFINE f == m.backends
<1>1. m.backends \in [DOMAIN m.backends -> Entries] /\ DOMAIN m.backends \subseteq Backends
  BY Parts, Zenon
<1>2. b \in DOMAIN f /\ b \in Backends /\ m.backends[b] \in Entries
  BY <1>1, Zenon DEF HasEntry
<1>3. m.backends[b].active \in 0 .. CountBound - 1
  BY <1>2, Zenon DEF Entries
<1>4. ASSUME NEW e PROVE [m EXCEPT !.backends[b] = e] = SetEntry(m, b, e)
  <2>1. DOMAIN f \cup {b} = DOMAIN f
    BY <1>2, Zenon
  <2>2. [f EXCEPT ![b] = e] = [x \in DOMAIN f \cup {b} |-> IF x = b THEN e ELSE f[x]]
    BY <1>1, <2>1, Zenon
  <2>3. [m EXCEPT !.backends[b] = e] = [m EXCEPT !.backends = [f EXCEPT ![b] = e]]
    BY Zenon
  <2> QED  BY <2>2, <2>3, Zenon DEF SetEntry
<1> QED  BY <1>2, <1>3, <1>4, Zenon

\* What a use of the backend makes of the monitor: n more connections are counted,
\* and a backend without an entry gets one, and a visit.
Used(m, m2, b, n) ==
  /\ m2 \in Monitors
  /\ \A x : HasEntry(m2, x) <=> HasEntry(m, x) \/ x = b
  /\ \A x : HasEntry(m, x) /\ x # b => m2.backends[x].active = m.backends[x].active
  /\ HasEntry(m, b) => /\ m2.backends[b].active = (m.backends[b].active + n) % CountBound
                       /\ m2.queue = m.queue
  /\ ~HasEntry(m, b) => /\ m2.backends[b].active = n
                        /\ m2.queue = Append(m.queue, [backend |-> b, due |-> VisitInterval])

\* The interval as the time until a new visit.
LEMMA FullInterval == VisitInterval \in 0..VisitInterval /\ VisitInterval \in Nat \ {0}
  BY SweepAssumption

\* An entry is set, whether it was there or not.
LEMMA UsedBySet ==
  ASSUME NEW m \in Monitors, NEW b \in Backends, NEW e \in Entries, NEW n, NEW m2,
         \/ HasEntry(m, b) /\ m2 = SetEntry(m, b, e) /\ e.active = (m.backends[b].active + n) % CountBound
         \/ ~HasEntry(m, b) /\ m2 = SetEntry(Enqueue(m, b, VisitInterval), b, e) /\ e.active = n
  PROVE  Used(m, m2, b, n)
<1>1. CASE HasEntry(m, b)
  <2>1. EntryIs(m, m2, b, e) /\ e.active = (m.backends[b].active + n) % CountBound
    BY <1>1, EntrySet, Zenon
  <2> QED  BY <1>1, <2>1, Zenon DEF Used, EntryIs
<1>2. CASE ~HasEntry(m, b)
  <2> DEFINE k == Enqueue(m, b, VisitInterval)
  <2>1. /\ k \in Monitors /\ k.backends = m.backends
        /\ k.queue = Append(m.queue, [backend |-> b, due |-> VisitInterval])
    BY FullInterval, Enqueued, Zenon
  <2>2. m2 = SetEntry(k, b, e) /\ e.active = n
    BY <1>2, Zenon
  <2> HIDE DEF k
  <2>3. \A x : HasEntry(k, x) <=> HasEntry(m, x)
    BY <2>1, Zenon DEF HasEntry
  <2>4. EntryIs(k, m2, b, e)
    BY <2>1, <2>2, EntrySet, Zenon
  <2> QED  BY <1>2, <2>1, <2>2, <2>3, <2>4, Zenon DEF Used, EntryIs
<1> QED  BY <1>1, <1>2, Zenon

\* touch_backend counts nothing.
LEMMA Touched ==
  ASSUME NEW m \in Monitors, NEW b \in Backends
  PROVE  Used(m, touch_backend(m, b, VisitInterval), b, 0)
<1>1. CASE HasEntry(m, b)
  <2> DEFINE e == [m.backends[b] EXCEPT !.recent = TRUE]
  <2>1. m.backends[b] \in Entries /\ m.backends[b].active \in 0 .. CountBound - 1
    BY <1>1, EntryChanged, Zenon
  <2>2. e \in Entries /\ e.active = m.backends[b].active
    BY <2>1, Zenon DEF Entries
  <2>3. e.active = (m.backends[b].active + 0) % CountBound
    BY <2>1, <2>2, CountAssumption
  <2>4. touch_backend(m, b, VisitInterval) = [m EXCEPT !.backends[b] = e]
    BY <1>1, Zenon DEF touch_backend
  <2> HIDE DEF e
  <2>5. touch_backend(m, b, VisitInterval) = SetEntry(m, b, e)
    BY <1>1, <2>4, EntryChanged, Zenon
  <2> QED  BY <1>1, <2>2, <2>3, <2>5, UsedBySet, Zenon
<1>2. CASE ~HasEntry(m, b)
  <2> DEFINE e == [active |-> 0, recent |-> TRUE]
  <2>1. e \in Entries /\ e.active = 0
    BY CountAssumption DEF Entries
  <2>2. touch_backend(m, b, VisitInterval) = SetEntry(Enqueue(m, b, VisitInterval), b, e)
    BY <1>2, Zenon DEF touch_backend
  <2> HIDE DEF e
  <2> QED  BY <1>2, <2>1, <2>2, UsedBySet, Zenon
<1> QED  BY <1>1, <1>2, Zenon

\* inc_connection counts one connection more, as far as the counter can.
LEMMA Incremented ==
  ASSUME NEW m \in Monitors, NEW b \in Backends
  PROVE  Used(m, inc_connection(m, b, VisitInterval), b, 1)
<1>1. CASE HasEntry(m, b)
  <2> DEFINE n == (m.backends[b].active + 1) % CountBound
             e == [active |-> n, recent |-> TRUE]
  <2>1. m.backends[b].active \in 0 .. CountBound - 1
    BY <1>1, EntryChanged, Zenon
  <2>2. n \in 0 .. CountBound - 1
    BY <2>1, CountAssumption
  <2>3. inc_connection(m, b, VisitInterval) = [m EXCEPT !.backends[b] = e]
    BY <1>1, Zenon DEF inc_connection
  <2> HIDE DEF n
  <2>4. e \in Entries /\ e.active = n
    BY <2>2, Zenon DEF Entries
  <2> HIDE DEF e
  <2> USE DEF n
  <2>5. inc_connection(m, b, VisitInterval) = SetEntry(m, b, e)
    BY <1>1, <2>3, EntryChanged, Zenon
  <2> QED  BY <1>1, <2>2, <2>4, <2>5, UsedBySet, Zenon
<1>2. CASE ~HasEntry(m, b)
  <2> DEFINE e == [active |-> 1, recent |-> TRUE]
  <2>1. e \in Entries /\ e.active = 1
    BY CountAssumption, SweepAssumption DEF Entries
  <2>2. inc_connection(m, b, VisitInterval) = SetEntry(Enqueue(m, b, VisitInterval), b, e)
    BY <1>2, Zenon DEF inc_connection
  <2> HIDE DEF e
  <2> QED  BY <1>2, <2>1, <2>2, UsedBySet, Zenon
<1> QED  BY <1>1, <1>2, Zenon

\* m2 is m with one connection of b less.
OneLess(m, m2, b) ==
  /\ m2 \in Monitors /\ m2.queue = m.queue
  /\ \A x : HasEntry(m2, x) <=> HasEntry(m, x)
  /\ \A x : HasEntry(m, x) /\ x # b => m2.backends[x].active = m.backends[x].active
  /\ HasEntry(m, b) /\ m.backends[b].active > 0 =>
       m2.backends[b].active = m.backends[b].active - 1

\* dec_connection counts one connection less.
LEMMA Decremented ==
  ASSUME NEW m \in Monitors, NEW b
  PROVE  OneLess(m, dec_connection(m, b), b)
<1> DEFINE m2 == dec_connection(m, b)
<1> HIDE DEF m2
<1> SUFFICES OneLess(m, m2, b)
  BY Zenon DEF m2
<1>1. CASE HasEntry(m, b)
  <2> DEFINE n == (m.backends[b].active - 1) % CountBound
             e == [m.backends[b] EXCEPT !.active = n]
  <2>1. /\ b \in Backends /\ m.backends[b] \in Entries
        /\ m.backends[b].active \in 0 .. CountBound - 1
    BY <1>1, EntryChanged, Zenon
  <2>2. /\ n \in 0 .. CountBound - 1
        /\ m.backends[b].active > 0 => n = m.backends[b].active - 1
    BY <2>1, CountAssumption
  <2>3. m2 = [m EXCEPT !.backends[b] = e]
    BY <1>1, Zenon DEF m2, dec_connection
  <2> HIDE DEF n
  <2>4. e \in Entries /\ e.active = n
    BY <2>1, <2>2, Zenon DEF Entries
  <2> HIDE DEF e
  <2>5. m2 = SetEntry(m, b, e)
    BY <1>1, <2>3, EntryChanged, Zenon
  <2>6. EntryIs(m, m2, b, e)
    BY <2>1, <2>4, <2>5, EntrySet, Zenon
  <2> QED  BY <1>1, <2>2, <2>4, <2>6, Zenon DEF EntryIs, OneLess
<1>2. CASE ~HasEntry(m, b)
  BY <1>2, Zenon DEF m2, dec_connection, OneLess
<1> QED  BY <1>1, <1>2, Zenon


\* What the visit loop makes of the monitor: a backend in use is queued again with
\* its counts, the entry of one that is not goes.
Round(m, m2, b) ==
  /\ m2 \in Monitors /\ b \in Backends
  /\ InUse(m, b) => /\ \A x : HasEntry(m2, x) <=> HasEntry(m, x)
                    /\ \A x : HasEntry(m, x) => m2.backends[x].active = m.backends[x].active
                    /\ m2.queue = Append(Tail(m.queue), [backend |-> b, due |-> VisitInterval])
  /\ ~InUse(m, b) => /\ \A x : HasEntry(m2, x) <=> HasEntry(m, x) /\ x # b
                     /\ \A x : HasEntry(m2, x) => m2.backends[x] = m.backends[x]
                     /\ m2.queue = Tail(m.queue)
                     /\ HasEntry(m, b) => m.backends[b].active = 0

\* Visit does.
LEMMA Visited ==
  ASSUME NEW m \in Monitors, m.queue # <<>>, NEW b, b = Head(m.queue).backend,
         NEW m2, m2 = Visit(m, VisitInterval)
  PROVE  Round(m, m2, b)
<1> DEFINE rest == WithVisits(m, Tail(m.queue))
<1>1. m.queue \in Seq(Visits)
  BY Parts, Zenon
<1>2. Head(m.queue) \in Visits /\ Tail(m.queue) \in Seq(Visits)
  BY <1>1, HeadOrTail, Zenon
<1>3. b \in Backends
  BY <1>2, Zenon DEF Visits
<1>4. rest \in Monitors /\ rest.queue = Tail(m.queue) /\ rest.backends = m.backends
  BY <1>2, OtherVisits, Zenon
<1>5. rest = [m EXCEPT !.queue = Tail(@)]
  BY Zenon DEF WithVisits
<1>6. m2 = IF InUse(m, b) THEN Enqueue([rest EXCEPT !.backends[b].recent = FALSE], b, VisitInterval)
                          ELSE DropEntry(rest, b)
  <2> DEFINE h == Head(m.queue).backend
  <2>1. m2 = IF InUse(m, h) THEN Enqueue([rest EXCEPT !.backends[h].recent = FALSE], h, VisitInterval)
                            ELSE DropEntry(rest, h)
    BY Zenon DEF Visit, WithVisits
  <2>2. b = h
    OBVIOUS
  <2> HIDE DEF h, rest
  <2> QED  BY <2>1, <2>2, Zenon
<1> HIDE DEF rest
<1>7. \A x : HasEntry(rest, x) <=> HasEntry(m, x)
  BY <1>4, Zenon DEF HasEntry
<1>8. CASE InUse(m, b)
  <2> DEFINE e == [m.backends[b] EXCEPT !.recent = FALSE]
             k == [rest EXCEPT !.backends[b].recent = FALSE]
  <2>1. HasEntry(m, b)
    BY <1>8, Zenon DEF InUse
  <2>2. m.backends[b] \in Entries
    BY <2>1, EntryChanged, Zenon
  <2>3. e \in Entries /\ e.active = m.backends[b].active
    BY <2>2, Zenon DEF Entries
  <2>4. k = [rest EXCEPT !.backends[b] = e]
    BY <1>4, Zenon
  <2>5. m2 = Enqueue(k, b, VisitInterval)
    BY <1>6, <1>8, Zenon
  <2> HIDE DEF e, k
  <2>6. k = SetEntry(rest, b, e)
    BY <1>4, <1>7, <2>1, <2>4, EntryChanged, Zenon
  <2>7. EntryIs(rest, k, b, e)
    BY <1>3, <1>4, <2>3, <2>6, EntrySet, Zenon
  <2>8. k \in Monitors /\ k.queue = Tail(m.queue)
    BY <1>4, <2>7, Zenon DEF EntryIs
  <2>9. /\ m2 \in Monitors /\ m2.backends = k.backends
        /\ m2.queue = Append(Tail(m.queue), [backend |-> b, due |-> VisitInterval])
    <3>1. /\ Enqueue(k, b, VisitInterval) \in Monitors /\ Enqueue(k, b, VisitInterval).backends = k.backends
          /\ Enqueue(k, b, VisitInterval).queue = Append(k.queue, [backend |-> b, due |-> VisitInterval])
      BY <1>3, <2>8, FullInterval, Enqueued, Zenon
    <3> QED  BY <2>5, <2>8, <3>1, Zenon
  <2>10. /\ k.backends[b] = e /\ \A x : HasEntry(k, x) <=> HasEntry(m, x)
         /\ \A x : HasEntry(m, x) /\ x # b => k.backends[x] = m.backends[x]
    BY <1>4, <1>7, <2>1, <2>7, Zenon DEF EntryIs
  <2>11. \A x : HasEntry(m2, x) <=> HasEntry(m, x)
    BY <2>9, <2>10, Zenon DEF HasEntry
  <2>12. \A x : HasEntry(m, x) => m2.backends[x].active = m.backends[x].active
    BY <2>3, <2>9, <2>10, Zenon
  <2> QED  BY <1>3, <1>8, <2>9, <2>11, <2>12, Zenon DEF Round
<1>9. CASE ~InUse(m, b)
  <2>1. m2 = DropEntry(rest, b)
    BY <1>6, <1>9, Zenon
  <2>2. EntryGone(rest, m2, b)
    BY <1>4, <2>1, EntryDropped, Zenon
  <2>3. HasEntry(m, b) => m.backends[b].active = 0
    <3>1. SUFFICES ASSUME HasEntry(m, b) PROVE m.backends[b].active = 0
      OBVIOUS
    <3>2. m.backends[b].active \in 0 .. CountBound - 1 /\ ~(m.backends[b].active > 0)
      BY <1>9, <3>1, EntryChanged, Zenon DEF InUse
    <3> QED  BY <3>2, CountAssumption
  <2>4. /\ m2.queue = Tail(m.queue) /\ \A x : HasEntry(m2, x) <=> HasEntry(m, x) /\ x # b
        /\ \A x : HasEntry(m2, x) => m2.backends[x] = m.backends[x]
    BY <1>4, <1>7, <2>2, Zenon DEF EntryGone
  <2>5. m2 \in Monitors
    BY <2>2, Zenon DEF EntryGone
  <2> QED  BY <1>3, <1>9, <2>3, <2>4, <2>5, Zenon DEF Round
<1> QED  BY <1>8, <1>9, Zenon

-----------------------------------------------------------------------------
(* IdleSweep: types, and what keeps a backend's part of the invariant *)

MonitorSide ==
  /\ monitor \in Monitors /\ idle \in [Backends -> Nat]
  /\ open \in [Backends -> 0 .. MaxOpen] /\ held \in [Backends -> 0 .. WireDelay + 1]
  /\ connected \in BOOLEAN /\ calm \in 0 .. Stale /\ keepalives \in Seq(Messages)

SweepSide ==
  /\ status \in [Backends -> Statuses] /\ left \in [Backends -> Nat \cup {-1}]
  /\ limit \in [Backends -> Limits] /\ routed \subseteq Backends
  /\ sweeper \in Loops \cup {"down"}
  /\ running \subseteq Loops /\ candidates \in [Loops -> SUBSET Backends]
  /\ terminate \subseteq Backends

\* The types of the monitor's side and of the sweep's.
LEMMA Sides == SweepTypeOK <=> MonitorSide /\ SweepSide
  BY Zenon DEF SweepTypeOK, MonitorSide, SweepSide, Monitors, EntryMaps, Visits, Messages

\* The same, after a step.
LEMMA SidesNext == SweepTypeOK' <=> MonitorSide' /\ SweepSide'
  BY Sides, PTL

\* The types of what is told of one backend.
LEMMA OneBackend ==
  ASSUME SweepIInv, NEW b \in Backends
  PROVE  /\ monitor \in Monitors /\ monitor.queue \in Seq(Visits) /\ keepalives \in Seq(Messages)
         /\ idle[b] \in Nat /\ open[b] \in 0 .. MaxOpen /\ held[b] \in 0 .. WireDelay + 1
         /\ connected \in BOOLEAN /\ calm \in 0 .. Stale
         /\ status[b] \in Statuses /\ limit[b] \in Limits
         /\ Sorted(monitor.queue) /\ (connected \/ calm = 0) /\ (open[b] > 0 \/ held[b] = 0)
<1>1. MonitorSide /\ SweepSide
  BY Sides, Zenon DEF SweepIInv
<1>2. monitor.queue \in Seq(Visits)
  BY <1>1, Parts, Zenon DEF MonitorSide
<1> QED  BY <1>1, <1>2, Zenon DEF SweepIInv, MonitorSide, SweepSide, HeldOpen

\* The time since a visit was queued.
LEMMA SinceType == \A v \in Visits : Since(v) \in 0..VisitInterval
<1>1. \A v \in Visits : v.due \in 0..VisitInterval
  BY Zenon DEF Visits
<1> QED  BY <1>1, SweepAssumption DEF Since

\* What was sent for a backend is still under way, or has just been handled.
Told(b) ==
  \/ idle'[b] = idle[b] /\ \A k \in Range(keepalives) : k.backend = b => k \in Range(keepalives')
  \/ idle'[b] = 0

\* So what has arrived or arrives, does.
LEMMA ToldArrives ==
  ASSUME NEW b \in Backends, Told(b)
  PROVE  /\ \A a \in Nat : Arrives(b, a) => Arrives(b, a)'
         /\ \A x \in Nat : HeardAt(b, x) => HeardAt(b, x)'
<1>1. CASE idle'[b] = 0
  <2>1. \A a \in Nat : idle'[b] <= a /\ idle'[b] <= a + VisitInterval - 1
    BY <1>1, SweepAssumption
  <2> QED  BY <2>1, Zenon DEF Arrives, HeardAt
<1>2. CASE idle'[b] = idle[b] /\ \A k \in Range(keepalives) : k.backend = b => k \in Range(keepalives')
  BY <1>2, Zenon DEF Arrives, HeardAt
<1> QED  BY <1>1, <1>2, Zenon DEF Told

\* A new visit, with the keepalive that goes with it.
NewVisit(b) ==
  /\ [backend |-> b, due |-> VisitInterval] \in Range(monitor'.queue)
  /\ connected' => [backend |-> b, age |-> 0] \in Range(keepalives')

\* A backend's entry is no new one and its visits stay, or it has a new visit.
SameVisits(b) ==
  /\ HasEntry(monitor', b) => HasEntry(monitor, b)
  /\ \A v \in Range(monitor.queue) : v.backend = b => v \in Range(monitor'.queue)

\* A step that takes no time, loses nothing and takes no visit away keeps the
\* backend's part.
LEMMA KeptStays ==
  ASSUME SweepIInv, NEW b \in Backends, status'[b] \notin Ended => status[b] \notin Ended,
         connected' = connected, calm' = calm, held'[b] = held[b] \/ held'[b] = 0,
         Told(b), SameVisits(b) \/ NewVisit(b) \/ ~HasEntry(monitor', b),
         status[b] \notin Ended /\ Counts(b) => Counts(b)'
  PROVE  Kept(b)'
<1>1. SUFFICES ASSUME status'[b] \notin Ended PROVE Counts(b)' /\ Queued(b)' /\ Heard(b)'
  BY Zenon DEF Kept
<1>2. Counts(b) /\ Queued(b) /\ Heard(b) /\ status[b] \notin Ended
  BY <1>1, Zenon DEF SweepIInv, Kept
<1>3. Counts(b)'
  BY <1>2, Zenon
<1>4. Queued(b)'
  <2>1. SUFFICES ASSUME HasEntry(monitor', b)
                 PROVE  \E v \in Range(monitor'.queue) : v.backend = b /\ Announced(b, v)'
    BY Zenon DEF Queued
  <2>2. CASE SameVisits(b)
    <3>1. PICK v \in Range(monitor.queue) : v.backend = b /\ Announced(b, v)
      BY <1>2, <2>1, <2>2, Zenon DEF SameVisits, Queued
    <3>2. v \in Visits
      BY OneBackend, RangeIn, Zenon
    <3>3. Since(v) \in Nat
      BY <3>2, SinceType
    <3>4. Announced(b, v)'
      <4>1. Since(v)' = Since(v)
        BY Zenon DEF Since
      <4> QED  BY <3>1, <3>3, <4>1, ToldArrives, Zenon DEF Announced
    <3>5. v \in Range(monitor'.queue)
      BY <2>2, <3>1, Zenon DEF SameVisits
    <3> QED  BY <3>1, <3>4, <3>5, Zenon
  <2>3. CASE NewVisit(b)
    <3> DEFINE v == [backend |-> b, due |-> VisitInterval]
               k == [backend |-> b, age |-> 0]
    <3>1. v.backend = b /\ v.due = VisitInterval /\ k.backend = b /\ k.age = 0
      BY Zenon
    <3>2. v \in Range(monitor'.queue) /\ (connected' => k \in Range(keepalives'))
      BY <2>3, Zenon DEF NewVisit
    <3> HIDE DEF v, k
    <3>3. Since(v)' = 0
      BY <3>1, SweepAssumption DEF Since
    <3>4. Announced(b, v)'
      BY <3>1, <3>2, <3>3, Zenon DEF Announced, Arrives
    <3> QED  BY <3>1, <3>2, <3>4, Zenon
  <2> QED  BY <2>1, <2>2, <2>3, Zenon
<1>5. Heard(b)'
  <2>1. SUFFICES ASSUME NEW x \in 1 .. WireDelay + 1, held'[b] >= x, connected', calm' >= x + VisitInterval
                 PROVE  HeardAt(b, x)'
    BY Zenon DEF Heard
  <2>2. held[b] >= x /\ x \in Nat
    BY <2>1, SweepAssumption
  <2>3. HeardAt(b, x)
    BY <1>2, <2>1, <2>2, Zenon DEF Heard
  <2> QED  BY <2>2, <2>3, ToldArrives, Zenon
<1> QED  BY <1>3, <1>4, <1>5, Zenon

\* After a loss, or without a connection, nothing is promised but the counts.
LEMMA KeptByLoss ==
  ASSUME SweepIInv, NEW b \in Backends, UNCHANGED <<status, monitor, open, held>>,
         ~connected' \/ calm' = 0
  PROVE  Kept(b)'
<1>1. SUFFICES ASSUME status'[b] \notin Ended PROVE Counts(b)' /\ Queued(b)' /\ Heard(b)'
  BY Zenon DEF Kept
<1>2. Counts(b) /\ Queued(b)
  BY <1>1, Zenon DEF SweepIInv, Kept
<1>3. Counts(b)'
  BY <1>2, Zenon DEF Counts
<1>4. Queued(b)'
  <2>1. SUFFICES ASSUME HasEntry(monitor, b)
                 PROVE  \E v \in Range(monitor.queue) : v.backend = b /\ Announced(b, v)'
    BY Zenon DEF Queued
  <2>2. PICK v \in Range(monitor.queue) : v.backend = b
    BY <1>2, <2>1, Zenon DEF Queued
  <2>3. v \in Visits
    BY OneBackend, RangeIn, Zenon
  <2>4. Since(v) \in 0..VisitInterval /\ Since(v)' = Since(v)
    BY <2>3, SinceType, Zenon DEF Since
  <2>5. ~(connected' /\ calm' > Since(v)')
    BY <2>4, SweepAssumption
  <2> QED  BY <2>2, <2>5, Zenon DEF Announced
<1>5. Heard(b)'
  <2>1. \A x \in 1 .. WireDelay + 1 : ~(connected' /\ calm' >= x + VisitInterval)
    BY SweepAssumption
  <2> QED  BY <2>1, Zenon DEF Heard
<1> QED  BY <1>3, <1>4, <1>5, Zenon


-----------------------------------------------------------------------------
(* IdleSweep: the steps *)

\* The invariant after a step, put together.
LEMMA Together ==
  ASSUME MonitorSide', SweepSide', Sorted(monitor'.queue), connected' \/ calm' = 0,
         \A b \in Backends : (open'[b] > 0 \/ held'[b] = 0) /\ Kept(b)'
  PROVE  SweepIInv'
<1>1. SweepTypeOK'
  BY SidesNext, Zenon
<1>2. HeldOpen'
  BY Zenon DEF HeldOpen
<1> QED  BY <1>1, <1>2, Zenon DEF SweepIInv, Sorted

\* A step that leaves the proxy and last_keepalive alone, and of an ended backend
\* its end.
LEMMA AwayStep ==
  ASSUME SweepIInv, SweepSide', UNCHANGED <<proxyVars, idle>>,
         \A b \in Backends : status[b] \in Ended => status'[b] \in Ended
  PROVE  SweepIInv'
<1>1. UNCHANGED <<monitor, open, held, connected, calm, keepalives, idle>>
  BY Zenon DEF proxyVars
<1>2. MonitorSide /\ Sorted(monitor.queue) /\ (connected \/ calm = 0) /\ HeldOpen
  BY Sides, Zenon DEF SweepIInv
<1>3. MonitorSide'
  BY <1>1, <1>2, Zenon DEF MonitorSide
<1>4. ASSUME NEW b \in Backends PROVE Kept(b)' /\ (open'[b] > 0 \/ held'[b] = 0)
  <2>1. Told(b) /\ SameVisits(b) /\ (Counts(b) => Counts(b)')
    BY <1>1, Zenon DEF Told, SameVisits, Counts
  <2> QED  BY <1>1, <1>2, <2>1, KeptStays, Zenon DEF HeldOpen
<1> QED  BY <1>1, <1>2, <1>3, <1>4, Together, Zenon

\* What the sweep, the drone and the cleanup do.
LEMMA SweeperStep ==
  ASSUME SweepIInv,
         \/ \E l \in Loops : DroneConnects(l) \/ SweepQuery(l)
         \/ \E l \in Loops : \E b \in Backends : SweepTerminate(l, b)
         \/ DroneLeaves \/ DroneFails \/ CleanUp
         \/ \E b \in Backends : Start(b) \/ Exit(b) \/ CarryOutTerminate(b)
  PROVE  SweepIInv'
<1>1. SweepSide
  BY Sides, Zenon DEF SweepIInv
<1> DEFINE Goal == /\ SweepSide' /\ UNCHANGED <<proxyVars, idle>>
                   /\ \A b \in Backends : status[b] \in Ended => status'[b] \in Ended
<1> USE DEF SweepSide, proxyVars, sweepVars
<1>2. ASSUME NEW l \in Loops, DroneConnects(l) PROVE Goal
  BY <1>1, <1>2, Zenon DEF DroneConnects
<1>3. ASSUME NEW l \in Loops, SweepQuery(l) PROVE Goal
  <2>1. termination_candidates \in SUBSET Backends
    BY Zenon DEF termination_candidates
  <2>2. candidates' \in [Loops -> SUBSET Backends]
    BY <1>1, <1>3, <2>1 DEF SweepQuery
  <2> QED  BY <1>1, <1>3, <2>2, Zenon DEF SweepQuery
<1>4. ASSUME NEW l \in Loops, NEW b \in Backends, SweepTerminate(l, b) PROVE Goal
  <2>1. candidates' \in [Loops -> SUBSET Backends] /\ terminate' \subseteq Backends
    BY <1>1, <1>4 DEF SweepTerminate
  <2> QED  BY <1>1, <1>4, <2>1, Zenon DEF SweepTerminate
<1>5. ASSUME DroneLeaves PROVE Goal
  <2>1. candidates' \in [Loops -> SUBSET Backends] /\ running' \subseteq Loops
    BY <1>1, <1>5 DEF DroneLeaves
  <2> QED  BY <1>1, <1>5, <2>1, Zenon DEF DroneLeaves
<1>6. ASSUME DroneFails PROVE Goal
  BY <1>1, <1>6, Zenon DEF DroneFails
<1>7. ASSUME CleanUp PROVE Goal
  <2>1. PICK old \in SUBSET {b \in Backends : status[b] = "terminated"} :
          /\ status' = [b \in Backends |-> IF b \in old THEN "deleted" ELSE status[b]]
          /\ terminate' = terminate \ old
    BY <1>7, Zenon DEF CleanUp
  <2>2. /\ status' \in [Backends -> Statuses] /\ terminate' \subseteq Backends
        /\ \A b \in Backends : status[b] \in Ended => status'[b] \in Ended
    BY <1>1, <2>1 DEF Statuses, Ended
  <2> QED  BY <1>1, <1>7, <2>2, Zenon DEF CleanUp
<1>8. ASSUME NEW b \in Backends, Start(b) \/ Exit(b) PROVE Goal
  <2>1. status'\in [Backends -> Statuses] /\ \A x \in Backends : status[x] \in Ended => status'[x] \in Ended
    BY <1>1, <1>8 DEF Start, Exit, Statuses, Ended
  <2> QED  BY <1>1, <1>8, <2>1, Zenon DEF Start, Exit
<1>9. ASSUME NEW b \in Backends, CarryOutTerminate(b) PROVE Goal
  <2>1. /\ status'\in [Backends -> Statuses] /\ terminate' \subseteq Backends
        /\ \A x \in Backends : status[x] \in Ended => status'[x] \in Ended
    BY <1>1, <1>9 DEF CarryOutTerminate, Statuses, Ended
  <2> QED  BY <1>1, <1>9, <2>1, Zenon DEF CarryOutTerminate
<1> HIDE DEF Goal, SweepSide, proxyVars, sweepVars
<1>10. Goal
  BY <1>2, <1>3, <1>4, <1>5, <1>6, <1>7, <1>8, <1>9, Zenon
<1> QED  BY <1>10, AwayStep, Zenon DEF Goal

\* A step of the proxy or of a keepalive leaves the sweep alone.
LEMMA SweepSideStays ==
  ASSUME SweepSide, UNCHANGED <<status, limit, left, sweepVars>>, routed' \subseteq Backends
  PROVE  SweepSide'
  BY Zenon DEF SweepSide, sweepVars

\* The connection is lost or made again, or a keepalive is lost.
LEMMA LossStep ==
  ASSUME SweepIInv, Disconnect \/ Reconnect \/ KeepAliveFails
  PROVE  SweepIInv'
<1>1. MonitorSide /\ SweepSide /\ Sorted(monitor.queue) /\ (connected \/ calm = 0) /\ HeldOpen
  BY Sides, Zenon DEF SweepIInv
<1>2. UNCHANGED <<status, limit, left, sweepVars, routed, monitor, open, held, idle>>
  BY Zenon DEF Disconnect, Reconnect, KeepAliveFails
<1>3. /\ connected' \in BOOLEAN /\ calm' = 0 /\ keepalives' \in Seq(Messages)
  <2>1. CASE Disconnect
    <3>1. keepalives' = <<>> /\ connected' = FALSE /\ calm' = 0
      BY <2>1, Zenon DEF Disconnect
    <3>2. <<>> \in Seq(Messages)
      OBVIOUS
    <3> QED  BY <3>1, <3>2, Zenon
  <2>2. CASE Reconnect
    BY <1>1, <2>2, Zenon DEF Reconnect, MonitorSide
  <2>3. CASE KeepAliveFails
    <3>1. keepalives' \in Seq(Messages)
      BY <1>1, <2>3, HeadOrTail, Zenon DEF KeepAliveFails, MonitorSide
    <3> QED  BY <1>1, <2>3, <3>1, Zenon DEF KeepAliveFails, MonitorSide
  <2> QED  BY <2>1, <2>2, <2>3, Zenon
<1>4. calm' \in 0 .. Stale
  BY <1>3, SweepAssumption DEF Stale
<1>5. MonitorSide' /\ SweepSide'
  BY <1>1, <1>2, <1>3, <1>4, SweepSideStays, Zenon DEF MonitorSide, SweepSide
<1>6. ASSUME NEW b \in Backends PROVE Kept(b)' /\ (open'[b] > 0 \/ held'[b] = 0)
  BY <1>1, <1>2, <1>3, KeptByLoss, Zenon DEF HeldOpen
<1> QED  BY <1>1, <1>2, <1>3, <1>5, <1>6, Together, Zenon

\* The backend has ended and the proxy hears of it: of the others nothing changes.
LEMMA RemovedKeeps ==
  ASSUME SweepIInv, NEW r \in Backends, Removed(r)
  PROVE  /\ monitor' \in Monitors /\ monitor'.queue = monitor.queue /\ routed' \subseteq Backends
         /\ \A b \in Backends : /\ SameVisits(b)
                                /\ b # r /\ UNCHANGED open => (Counts(b) => Counts(b)')
<1>1. MonitorSide /\ SweepSide
  BY Sides, Zenon DEF SweepIInv
<1>2. monitor \in Monitors /\ routed' \subseteq Backends
  BY <1>1, Zenon DEF MonitorSide, SweepSide, Removed
<1>3. EntryGone(monitor, monitor', r)
  BY <1>2, EntryDropped, Zenon DEF Removed, remove_backend
<1>4. \A b \in Backends : SameVisits(b)
  BY <1>3, Zenon DEF EntryGone, SameVisits
<1>5. ASSUME NEW b \in Backends, b # r, open' = open, Counts(b) PROVE Counts(b)'
  BY <1>3, <1>5, Zenon DEF EntryGone, Counts
<1> QED  BY <1>2, <1>3, <1>4, <1>5, Zenon DEF EntryGone

\* The notification that a backend has ended.
LEMMA NoticeStep ==
  ASSUME SweepIInv, NEW r \in Backends, NoticeRemoved(r)
  PROVE  SweepIInv'
<1>1. MonitorSide /\ SweepSide /\ Sorted(monitor.queue) /\ (connected \/ calm = 0) /\ HeldOpen
  BY Sides, Zenon DEF SweepIInv
<1>2. /\ UNCHANGED <<status, limit, left, sweepVars, open, held, idle, connected, calm, keepalives>>
      /\ Removed(r) /\ status[r] \in Ended
  BY Zenon DEF NoticeRemoved
<1>3. /\ monitor' \in Monitors /\ monitor'.queue = monitor.queue /\ routed' \subseteq Backends
      /\ \A b \in Backends : SameVisits(b) /\ (b # r => (Counts(b) => Counts(b)'))
  BY <1>2, RemovedKeeps, Zenon
<1>4. MonitorSide' /\ SweepSide'
  BY <1>1, <1>2, <1>3, SweepSideStays, Zenon DEF MonitorSide
<1>5. ASSUME NEW b \in Backends PROVE Kept(b)' /\ (open'[b] > 0 \/ held'[b] = 0)
  <2>1. Told(b)
    BY <1>2, Zenon DEF Told
  <2>2. Kept(b)'
    BY <1>2, <1>3, <2>1, KeptStays, Zenon
  <2> QED  BY <1>1, <1>2, <2>2, Zenon DEF HeldOpen
<1> QED  BY <1>1, <1>2, <1>3, <1>4, <1>5, Together, Zenon

\* A keepalive arrives.
LEMMA KeepAliveStep ==
  ASSUME SweepIInv, HandleKeepAlive
  PROVE  SweepIInv'
<1> DEFINE r == Head(keepalives).backend
<1>1. MonitorSide /\ SweepSide /\ Sorted(monitor.queue) /\ (connected \/ calm = 0) /\ HeldOpen
  BY Sides, Zenon DEF SweepIInv
<1>2. /\ keepalives \in Seq(Messages) /\ keepalives # <<>> /\ keepalives' = Tail(keepalives)
      /\ UNCHANGED <<status, limit, left, sweepVars, open, held, connected, calm>>
  BY <1>1, Zenon DEF HandleKeepAlive, MonitorSide
<1>3. /\ Head(keepalives) \in Messages /\ keepalives' \in Seq(Messages)
      /\ \A k \in Range(keepalives) : k = Head(keepalives) \/ k \in Range(keepalives')
  BY <1>2, HeadOrTail, Zenon
<1>4. r \in Backends
  BY <1>3, Zenon DEF Messages
<1>5. \/ status[r] \notin Ended /\ idle' = [idle EXCEPT ![r] = 0] /\ UNCHANGED <<monitor, routed>>
      \/ status[r] \in Ended /\ Removed(r) /\ UNCHANGED idle
  BY Zenon DEF HandleKeepAlive
<1>6. \A k \in Range(keepalives) : k.backend # r => k \in Range(keepalives')
  BY <1>3, Zenon
<1> HIDE DEF r
<1>7. CASE status[r] \notin Ended /\ idle' = [idle EXCEPT ![r] = 0] /\ UNCHANGED <<monitor, routed>>
  <2>1. idle' \in [Backends -> Nat] /\ idle'[r] = 0 /\ \A b \in Backends : b # r => idle'[b] = idle[b]
    BY <1>1, <1>4, <1>7 DEF MonitorSide
  <2>2. MonitorSide' /\ SweepSide'
    BY <1>1, <1>2, <1>3, <1>7, <2>1, SweepSideStays, Zenon DEF MonitorSide, SweepSide
  <2>3. ASSUME NEW b \in Backends PROVE Kept(b)' /\ (open'[b] > 0 \/ held'[b] = 0)
    <3>1. Told(b)
      BY <1>6, <2>1, Zenon DEF Told
    <3>2. SameVisits(b) /\ (Counts(b) => Counts(b)')
      BY <1>2, <1>7, Zenon DEF SameVisits, Counts
    <3>3. Kept(b)'
      BY <1>2, <3>1, <3>2, KeptStays, Zenon
    <3> QED  BY <1>1, <1>2, <3>3, Zenon DEF HeldOpen
  <2> QED  BY <1>1, <1>2, <1>7, <2>2, <2>3, Together, Zenon
<1>8. CASE status[r] \in Ended /\ Removed(r) /\ UNCHANGED idle
  <2>1. /\ monitor' \in Monitors /\ monitor'.queue = monitor.queue /\ routed' \subseteq Backends
        /\ \A b \in Backends : SameVisits(b) /\ (b # r => (Counts(b) => Counts(b)'))
    BY <1>2, <1>4, <1>8, RemovedKeeps, Zenon
  <2>2. MonitorSide' /\ SweepSide'
    BY <1>1, <1>2, <1>3, <1>8, <2>1, SweepSideStays, Zenon DEF MonitorSide
  <2>3. ASSUME NEW b \in Backends PROVE Kept(b)' /\ (open'[b] > 0 \/ held'[b] = 0)
    <3>1. CASE b = r
      BY <1>1, <1>2, <1>8, <3>1, Zenon DEF Kept, HeldOpen
    <3>2. CASE b # r
      <4>1. Told(b)
        BY <1>6, <1>8, <3>2, Zenon DEF Told
      <4>2. Kept(b)'
        BY <1>2, <2>1, <3>2, <4>1, KeptStays, Zenon
      <4> QED  BY <1>1, <1>2, <4>2, Zenon DEF HeldOpen
    <3> QED  BY <3>1, <3>2, Zenon
  <2> QED  BY <1>1, <1>2, <2>1, <2>2, <2>3, Together, Zenon
<1> QED  BY <1>5, <1>7, <1>8, Zenon


\* A request, upgraded or not.
LEMMA UseStep ==
  ASSUME SweepIInv, NEW r \in Backends, NEW upgraded \in BOOLEAN, Use(r, upgraded)
  PROVE  SweepIInv'
<1> DEFINE n == IF upgraded THEN 1 ELSE 0
           v == [backend |-> r, due |-> VisitInterval]
           k == [backend |-> r, age |-> 0]
<1>1. MonitorSide /\ SweepSide /\ Sorted(monitor.queue) /\ (connected \/ calm = 0) /\ HeldOpen
  BY Sides, Zenon DEF SweepIInv
<1>2. /\ UNCHANGED <<status, limit, left, sweepVars, idle, held, connected, calm>>
      /\ routed' \subseteq Backends
  BY <1>1, Zenon DEF Use, SweepSide
<1>3. monitor \in Monitors /\ monitor.queue \in Seq(Visits) /\ keepalives \in Seq(Messages)
  BY <1>1, Parts, Zenon DEF MonitorSide
<1>4. Used(monitor, monitor', r, n)
  BY <1>3, Touched, Incremented, Zenon DEF Use
<1>5. /\ open' \in [Backends -> 0 .. MaxOpen] /\ open'[r] = open[r] + n
      /\ \A b \in Backends : b # r => open'[b] = open[b]
  BY <1>1, SweepAssumption DEF Use, MonitorSide
<1>6. open[r] \in Nat /\ open[r] + n < CountBound /\ n \in Nat
  <2>1. open'[r] \in 0 .. MaxOpen /\ open[r] \in 0 .. MaxOpen /\ n \in Nat
    BY <1>1, <1>5, Zenon DEF MonitorSide
  <2> QED  BY <1>5, <2>1, SweepAssumption, CountAssumption
<1>7. (open[r] + n) % CountBound = open[r] + n /\ 0 + n = n /\ (open[r] > 0 => open'[r] > 0)
  BY <1>5, <1>6, CountAssumption
<1>8. /\ v \in Visits /\ v.due = VisitInterval /\ k \in Messages
  BY SweepAssumption, FullInterval DEF Visits, Messages
<1>9. keepalives' = IF HasEntry(monitor, r) \/ ~connected THEN keepalives ELSE Append(keepalives, k)
  BY <1>1, Zenon DEF Use, Announces, Send, MonitorSide
<1> HIDE DEF n, v, k
<1>10. /\ keepalives' \in Seq(Messages) /\ \A x \in Range(keepalives) : x \in Range(keepalives')
       /\ ~HasEntry(monitor, r) /\ connected => k \in Range(keepalives')
  BY <1>3, <1>8, <1>9, MoreAppended, Zenon
<1>11. monitor'.queue = IF HasEntry(monitor, r) THEN monitor.queue ELSE Append(monitor.queue, v)
  BY <1>4, Zenon DEF Used, v
<1>12. /\ Sorted(monitor'.queue) /\ \A x \in Range(monitor.queue) : x \in Range(monitor'.queue)
       /\ ~HasEntry(monitor, r) => v \in Range(monitor'.queue)
  <2>1. Append(monitor.queue, v) \in Seq(Visits) /\ Sorted(Append(monitor.queue, v))
    BY <1>1, <1>3, <1>8, MoreAppended, SortedAppend, Zenon
  <2>2. /\ v \in Range(Append(monitor.queue, v))
        /\ \A x \in Range(monitor.queue) : x \in Range(Append(monitor.queue, v))
    BY <1>3, <1>8, MoreAppended, Zenon
  <2> QED  BY <1>1, <1>11, <2>1, <2>2, Zenon
<1>13. MonitorSide' /\ SweepSide'
  <2>1. monitor' \in Monitors
    BY <1>4, Zenon DEF Used
  <2>2. SweepSide'
    BY <1>1, <1>2, SweepSideStays, Zenon
  <2> QED  BY <1>1, <1>2, <1>5, <1>10, <2>1, <2>2, Zenon DEF MonitorSide
<1>14. ASSUME NEW b \in Backends PROVE Kept(b)' /\ (open'[b] > 0 \/ held'[b] = 0)
  <2>1. Told(b)
    BY <1>2, <1>10, Zenon DEF Told
  <2>2. SameVisits(b) \/ NewVisit(b)
    <3>1. CASE HasEntry(monitor, r) \/ b # r
      BY <1>4, <1>12, <3>1, Zenon DEF SameVisits, Used
    <3>2. CASE ~HasEntry(monitor, r) /\ b = r
      BY <1>2, <1>10, <1>12, <3>2, Zenon DEF NewVisit, v, k
    <3> QED  BY <3>1, <3>2, Zenon
  <2>3. ASSUME Counts(b) PROVE Counts(b)'
    <3>1. CASE b # r
      <4>1. HasEntry(monitor', b) <=> HasEntry(monitor, b)
        BY <1>4, <3>1, Zenon DEF Used
      <4>2. HasEntry(monitor, b) => monitor'.backends[b].active = monitor.backends[b].active
        BY <1>4, <3>1, Zenon DEF Used
      <4> QED  BY <1>5, <2>3, <3>1, <4>1, <4>2, Zenon DEF Counts
    <3>2. CASE b = r /\ HasEntry(monitor, r)
      <4>1. monitor'.backends[r].active = (open[r] + n) % CountBound /\ HasEntry(monitor', r)
        BY <1>4, <2>3, <3>2, Zenon DEF Used, Counts
      <4> QED  BY <1>5, <1>7, <3>2, <4>1, Zenon DEF Counts
    <3>3. CASE b = r /\ ~HasEntry(monitor, r)
      <4>1. monitor'.backends[r].active = n /\ HasEntry(monitor', r)
        BY <1>4, <3>3, Zenon DEF Used
      <4>2. open[r] = 0
        BY <2>3, <3>3, Zenon DEF Counts
      <4> QED  BY <1>5, <1>7, <3>3, <4>1, <4>2, Zenon DEF Counts
    <3> QED  BY <3>1, <3>2, <3>3, Zenon
  <2>4. Kept(b)'
    BY <1>2, <2>1, <2>2, <2>3, KeptStays, Zenon
  <2>5. open[b] > 0 => open'[b] > 0
    BY <1>5, <1>7, Zenon
  <2> QED  BY <1>1, <1>2, <2>4, <2>5, Zenon DEF HeldOpen
<1> QED  BY <1>1, <1>2, <1>12, <1>13, <1>14, Together, Zenon

\* An upgraded connection ends.
LEMMA CloseStep ==
  ASSUME SweepIInv, NEW r \in Backends, Close(r)
  PROVE  SweepIInv'
<1>1. MonitorSide /\ SweepSide /\ Sorted(monitor.queue) /\ (connected \/ calm = 0) /\ HeldOpen
  BY Sides, Zenon DEF SweepIInv
<1>2. /\ UNCHANGED <<status, limit, left, routed, sweepVars, idle, connected, calm, keepalives>>
      /\ monitor' = dec_connection(monitor, r) /\ monitor \in Monitors
  BY <1>1, Zenon DEF Close, MonitorSide
<1>3. /\ open' \in [Backends -> 0 .. MaxOpen] /\ open'[r] = open[r] - 1 /\ open[r] > 0
      /\ \A b \in Backends : b # r => open'[b] = open[b]
  BY <1>1, SweepAssumption DEF Close, MonitorSide
<1>4. /\ held' \in [Backends -> 0 .. WireDelay + 1]
      /\ \A b \in Backends : held'[b] = held[b] \/ held'[b] = 0
      /\ open'[r] > 0 \/ held'[r] = 0
  BY <1>1, <1>3, SweepAssumption DEF Close, MonitorSide
<1>5. /\ monitor' \in Monitors /\ monitor'.queue = monitor.queue
      /\ \A x : HasEntry(monitor', x) <=> HasEntry(monitor, x)
      /\ \A x : HasEntry(monitor, x) /\ x # r => monitor'.backends[x].active = monitor.backends[x].active
      /\ HasEntry(monitor, r) /\ monitor.backends[r].active > 0 =>
           monitor'.backends[r].active = monitor.backends[r].active - 1
  <2>1. OneLess(monitor, monitor', r)
    BY <1>2, Decremented, Zenon
  <2> QED  BY <2>1, Zenon DEF OneLess
<1>6. MonitorSide' /\ SweepSide'
  <2>1. SweepSide'
    BY <1>1, <1>2, SweepSideStays, Zenon DEF SweepSide
  <2> QED  BY <1>1, <1>2, <1>3, <1>4, <1>5, <2>1, Zenon DEF MonitorSide
<1>7. ASSUME NEW b \in Backends PROVE Kept(b)' /\ (open'[b] > 0 \/ held'[b] = 0)
  <2>1. Told(b)
    BY <1>2, Zenon DEF Told
  <2>2. SameVisits(b)
    BY <1>5, Zenon DEF SameVisits
  <2>3. ASSUME Counts(b) PROVE Counts(b)'
    <3>1. CASE b # r
      BY <1>3, <1>5, <2>3, <3>1, Zenon DEF Counts
    <3>2. CASE b = r
      <4>1. HasEntry(monitor, r) /\ monitor.backends[r].active = open[r]
        <5>1. open[r] # 0
          BY <1>3
        <5> QED  BY <2>3, <3>2, <5>1, Zenon DEF Counts
      <4> QED  BY <1>3, <1>5, <3>2, <4>1, Zenon DEF Counts
    <3> QED  BY <3>1, <3>2, Zenon
  <2>4. Kept(b)'
    BY <1>2, <1>4, <2>1, <2>2, <2>3, KeptStays, Zenon
  <2>5. open'[b] > 0 \/ held'[b] = 0
    BY <1>1, <1>3, <1>4, Zenon DEF HeldOpen
  <2> QED  BY <2>4, <2>5, Zenon
<1> QED  BY <1>1, <1>2, <1>5, <1>6, <1>7, Together, Zenon

\* The visit loop visits a backend.
LEMMA VisitStep ==
  ASSUME SweepIInv, VisitBackend
  PROVE  SweepIInv'
<1> DEFINE r == Head(monitor.queue).backend
           v == [backend |-> r, due |-> VisitInterval]
           k == [backend |-> r, age |-> 0]
           q == Tail(monitor.queue)
<1>1. MonitorSide /\ SweepSide /\ Sorted(monitor.queue) /\ (connected \/ calm = 0) /\ HeldOpen
  BY Sides, Zenon DEF SweepIInv
<1>2. /\ UNCHANGED <<status, limit, left, routed, sweepVars, idle, open, held, connected, calm>>
      /\ monitor' = Visit(monitor, VisitInterval) /\ monitor.queue # <<>>
  BY Zenon DEF VisitBackend
<1>3. monitor \in Monitors /\ monitor.queue \in Seq(Visits) /\ keepalives \in Seq(Messages)
  BY <1>1, Parts, Zenon DEF MonitorSide
<1>4. /\ q \in Seq(Visits) /\ Sorted(q)
      /\ \A x \in Range(monitor.queue) : x = Head(monitor.queue) \/ x \in Range(q)
  BY <1>1, <1>2, <1>3, HeadOrTail, SortedTail, Zenon
<1>5. \A x \in Range(monitor.queue) : x.backend # r => x \in Range(q)
  BY <1>4, Zenon
<1>6. /\ monitor' \in Monitors /\ r \in Backends
      /\ InUse(monitor, r) =>
           /\ \A x : HasEntry(monitor', x) <=> HasEntry(monitor, x)
           /\ \A x : HasEntry(monitor, x) => monitor'.backends[x].active = monitor.backends[x].active
           /\ monitor'.queue = Append(q, v)
      /\ ~InUse(monitor, r) =>
           /\ \A x : HasEntry(monitor', x) <=> HasEntry(monitor, x) /\ x # r
           /\ \A x : HasEntry(monitor', x) => monitor'.backends[x] = monitor.backends[x]
           /\ monitor'.queue = q
           /\ HasEntry(monitor, r) => monitor.backends[r].active = 0
  <2>1. Round(monitor, monitor', r)
    BY <1>2, <1>3, Visited, Zenon
  <2> QED  BY <2>1, Zenon DEF Round
<1>7. v \in Visits /\ v.due = VisitInterval /\ k \in Messages
  BY <1>6, SweepAssumption, FullInterval DEF Visits, Messages
<1>8. keepalives' = IF InUse(monitor, r) /\ connected THEN Append(keepalives, k) ELSE keepalives
  BY <1>1, Zenon DEF VisitBackend, VisitAnnounces, Send, MonitorSide
<1> HIDE DEF r, v, k, q
<1>9. /\ keepalives' \in Seq(Messages) /\ \A x \in Range(keepalives) : x \in Range(keepalives')
      /\ InUse(monitor, r) /\ connected => k \in Range(keepalives')
  BY <1>3, <1>7, <1>8, MoreAppended, Zenon
<1>10. /\ Sorted(monitor'.queue) /\ \A x \in Range(q) : x \in Range(monitor'.queue)
       /\ InUse(monitor, r) => v \in Range(monitor'.queue)
  <2>1. Sorted(Append(q, v))
    BY <1>4, <1>7, SortedAppend, Zenon
  <2>2. v \in Range(Append(q, v)) /\ \A x \in Range(q) : x \in Range(Append(q, v))
    BY <1>4, <1>7, MoreAppended, Zenon
  <2> QED  BY <1>4, <1>6, <2>1, <2>2, Zenon
<1>11. MonitorSide' /\ SweepSide'
  <2>1. SweepSide'
    BY <1>1, <1>2, SweepSideStays, Zenon DEF SweepSide
  <2> QED  BY <1>1, <1>2, <1>6, <1>9, <2>1, Zenon DEF MonitorSide
<1>12. ASSUME NEW b \in Backends PROVE Kept(b)' /\ (open'[b] > 0 \/ held'[b] = 0)
  <2>1. Told(b)
    BY <1>2, <1>9, Zenon DEF Told
  <2>2. HasEntry(monitor', b) => HasEntry(monitor, b) /\ (b # r \/ InUse(monitor, r))
    BY <1>6, Zenon
  <2>3. SameVisits(b) \/ NewVisit(b) \/ (b = r /\ ~HasEntry(monitor', b))
    <3>1. CASE b # r
      BY <1>5, <1>10, <2>2, <3>1, Zenon DEF SameVisits
    <3>2. CASE b = r /\ InUse(monitor, r)
      BY <1>2, <1>9, <1>10, <3>2, Zenon DEF NewVisit, v, k
    <3> QED  BY <2>2, <3>1, <3>2, Zenon
  <2>4. ASSUME Counts(b) PROVE Counts(b)'
    <3>1. CASE InUse(monitor, r)
      BY <1>2, <1>6, <2>4, <3>1, Zenon DEF Counts
    <3>2. CASE ~InUse(monitor, r)
      BY <1>2, <1>6, <2>4, <3>2, Zenon DEF Counts
    <3> QED  BY <3>1, <3>2, Zenon
  <2>5. Kept(b)'
    BY <1>2, <2>1, <2>3, <2>4, KeptStays, Zenon
  <2> QED  BY <1>1, <1>2, <2>5, Zenon DEF HeldOpen
<1> QED  BY <1>1, <1>2, <1>10, <1>11, <1>12, Together, Zenon


\* What the passing of time makes of the numbers of a backend.
LEMMA TimeFacts ==
  ASSUME SweepIInv, TimePasses, NEW b \in Backends
  PROVE  /\ idle'[b] \in Nat /\ idle'[b] <= idle[b] + 1
         /\ left'[b] \in Nat \cup {-1}
         /\ held'[b] \in 0 .. WireDelay + 1 /\ held'[b] <= held[b] + 1
         /\ held'[b] > 0 => open[b] > 0
         /\ calm' \in 0 .. Stale /\ (connected => calm' <= calm + 1)
<1>1. /\ idle[b] \in Nat /\ open[b] \in 0 .. MaxOpen /\ held[b] \in 0 .. WireDelay + 1
      /\ connected \in BOOLEAN /\ calm \in 0 .. Stale /\ limit[b] \in Limits
  BY OneBackend, Zenon
<1>2. left[b] \in Nat \cup {-1}
  BY Sides, Zenon DEF SweepIInv, SweepSide
<1>3. Stale \in Nat /\ MaxIdle(b) \in Nat
  <2>1. limit[b].idle \in Nat \cup {-1}
    BY <1>1, SweepAssumption DEF NoLimit
  <2> QED  BY <2>1, SweepAssumption DEF Stale, MaxIdle
<1>4. /\ idle'[b] = LeastOf(idle[b] + 1, MaxIdle(b))
      /\ left'[b] = IF left[b] < 0 THEN left[b] ELSE left[b] - 1
      /\ held'[b] = IF open[b] > 0 THEN LeastOf(held[b] + 1, WireDelay + 1) ELSE 0
      /\ calm' = IF connected THEN LeastOf(calm + 1, Stale) ELSE 0
  BY Zenon DEF TimePasses
<1>5. idle'[b] \in Nat /\ idle'[b] <= idle[b] + 1 /\ left'[b] \in Nat \cup {-1}
  BY <1>1, <1>2, <1>3, <1>4 DEF LeastOf
<1>6. /\ held'[b] \in 0 .. WireDelay + 1 /\ held'[b] <= held[b] + 1
      /\ held'[b] > 0 => open[b] > 0
  BY <1>1, <1>4, SweepAssumption DEF LeastOf
<1>7. calm' \in 0 .. Stale /\ (connected => calm' <= calm + 1)
  <2>1. CASE connected
    BY <1>1, <1>3, <1>4, <2>1 DEF LeastOf
  <2>2. CASE ~connected
    <3>1. calm' = 0
      BY <1>4, <2>2, Zenon
    <3> QED  BY <1>3, <2>2, <3>1
  <2> QED  BY <2>1, <2>2, Zenon
<1> QED  BY <1>5, <1>6, <1>7, Zenon

\* The visits come nearer and the keepalives get older.
LEMMA QueuesInTime ==
  ASSUME SweepIInv, TimePasses
  PROVE  /\ monitor' \in Monitors /\ monitor'.backends = monitor.backends
         /\ Sorted(monitor'.queue) /\ keepalives' \in Seq(Messages)
         /\ \A v \in Range(monitor.queue) :
              /\ Sooner(v) \in Range(monitor'.queue) /\ Sooner(v).backend = v.backend
              /\ Sooner(v).due = v.due - 1 /\ v.due \in 1..VisitInterval
         /\ \A k \in Range(keepalives) :
              /\ OneOlder(k) \in Range(keepalives') /\ OneOlder(k).backend = k.backend
              /\ OneOlder(k).age = k.age + 1
<1> DEFINE q == monitor.queue
<1>1. MonitorSide /\ Sorted(q)
  BY Sides, Zenon DEF SweepIInv
<1>2. monitor \in Monitors /\ q \in Seq(Visits) /\ keepalives \in Seq(Messages)
  BY <1>1, Parts, Zenon DEF MonitorSide
<1>3. q # <<>> => Head(q).due > 0
  BY Zenon DEF TimePasses
<1>4. \A i \in DOMAIN keepalives : keepalives[i].age < WireDelay
  BY Zenon DEF TimePasses
<1>5. monitor' = WithVisits(monitor, Nearer(q)) /\ keepalives' = Older(keepalives)
  BY Zenon DEF TimePasses, WithVisits
<1> HIDE DEF q
<1>6. /\ Nearer(q) \in Seq(Visits) /\ Sorted(Nearer(q))
      /\ \A v \in Range(q) : /\ Sooner(v) \in Range(Nearer(q)) /\ Sooner(v).backend = v.backend
                             /\ Sooner(v).due = v.due - 1 /\ v.due \in 1..VisitInterval
  BY <1>1, <1>2, <1>3, NearerFacts, Zenon
<1>7. /\ Older(keepalives) \in Seq(Messages)
      /\ \A k \in Range(keepalives) : /\ OneOlder(k) \in Range(Older(keepalives))
                                      /\ OneOlder(k).backend = k.backend /\ OneOlder(k).age = k.age + 1
  BY <1>2, <1>4, OlderFacts, Zenon
<1>8. monitor' \in Monitors /\ monitor'.queue = Nearer(q) /\ monitor'.backends = monitor.backends
  BY <1>2, <1>5, <1>6, OtherVisits, Zenon
<1> QED  BY <1>5, <1>6, <1>7, <1>8, Zenon DEF q

\* The keepalive that went with a visit is a unit older, or last_keepalive is.
LEMMA ArrivesLater ==
  ASSUME SweepIInv, TimePasses, NEW b \in Backends, NEW a \in Nat, Arrives(b, a)
  PROVE  \/ \E k \in Range(keepalives') : k.backend = b /\ k.age = a + 1
         \/ idle'[b] <= a + 1
<1>1. CASE idle[b] <= a
  <2>1. idle[b] \in Nat /\ idle'[b] \in Nat /\ idle'[b] <= idle[b] + 1
    BY OneBackend, TimeFacts, Zenon
  <2> QED  BY <1>1, <2>1
<1>2. CASE \E k \in Range(keepalives) : k.backend = b /\ k.age = a
  <2>1. PICK k \in Range(keepalives) : k.backend = b /\ k.age = a
    BY <1>2, Zenon
  <2>2. OneOlder(k) \in Range(keepalives') /\ OneOlder(k).backend = k.backend /\ OneOlder(k).age = k.age + 1
    BY QueuesInTime, Zenon
  <2> QED  BY <2>1, <2>2, Zenon
<1> QED  BY <1>1, <1>2, Zenon DEF Arrives

\* With time the visit and its keepalive come along.
LEMMA QueuedLater ==
  ASSUME SweepIInv, TimePasses, NEW b \in Backends, Queued(b)
  PROVE  Queued(b)'
<1>1. SUFFICES ASSUME HasEntry(monitor', b)
               PROVE  \E w \in Range(monitor'.queue) : w.backend = b /\ Announced(b, w)'
  BY Zenon DEF Queued
<1>2. HasEntry(monitor, b)
  BY <1>1, QueuesInTime, Zenon DEF HasEntry
<1>3. PICK v \in Range(monitor.queue) : v.backend = b /\ Announced(b, v)
  BY <1>2, Zenon DEF Queued
<1> DEFINE w == Sooner(v)
<1>4. w \in Range(monitor'.queue) /\ w.backend = b /\ w.due = v.due - 1 /\ v.due \in 1..VisitInterval
  BY <1>3, QueuesInTime, Zenon
<1> HIDE DEF w
<1>5. Since(v) \in Nat /\ Since(w)' = Since(v) + 1
  BY <1>4, SweepAssumption DEF Since
<1>6. ASSUME connected', calm' > Since(w)' PROVE Arrives(b, Since(w))'
  <2>1. connected /\ calm' <= calm + 1 /\ calm \in Nat /\ calm' \in Nat
    <3>1. connected
      BY <1>6, Zenon DEF TimePasses
    <3>2. calm' \in 0 .. Stale /\ calm \in 0 .. Stale /\ calm' <= calm + 1
      BY <3>1, TimeFacts, OneBackend, Zenon
    <3>3. \A n \in 0 .. Stale : n \in Nat
      BY SweepAssumption DEF Stale
    <3> QED  BY <3>1, <3>2, <3>3, Zenon
  <2>2. calm > Since(v)
    BY <1>5, <1>6, <2>1
  <2>3. Arrives(b, Since(v))
    BY <1>3, <2>1, <2>2, Zenon DEF Announced
  <2>4. \/ \E k \in Range(keepalives') : k.backend = b /\ k.age = Since(v) + 1
        \/ idle'[b] <= Since(v) + 1
    BY <1>5, <2>3, ArrivesLater, Zenon
  <2> QED  BY <1>5, <2>4, Zenon DEF Arrives
<1> QED  BY <1>4, <1>6, Zenon DEF Announced

\* With time the interval that is past grows: one that begins with this unit of
\* time has had the keepalive of the visit that is queued.
LEMMA HeardLater ==
  ASSUME SweepIInv, TimePasses, NEW b \in Backends, Counts(b), Queued(b), Heard(b)
  PROVE  Heard(b)'
<1>1. SUFFICES ASSUME NEW x \in 1 .. WireDelay + 1, held'[b] >= x, connected', calm' >= x + VisitInterval
               PROVE  HeardAt(b, x)'
  BY Zenon DEF Heard
<1>2. connected
  BY <1>1, Zenon DEF TimePasses
<1>3. /\ idle[b] \in Nat /\ held[b] \in 0 .. WireDelay + 1 /\ calm \in 0 .. Stale
      /\ open[b] \in 0 .. MaxOpen
  BY OneBackend, Zenon
<1>4. /\ idle'[b] \in Nat /\ idle'[b] <= idle[b] + 1
      /\ held'[b] \in 0 .. WireDelay + 1 /\ held'[b] <= held[b] + 1
      /\ held'[b] > 0 => open[b] > 0
      /\ calm' \in 0 .. Stale /\ calm' <= calm + 1
  BY <1>2, TimeFacts, Zenon
<1>5. Stale \in Nat
  BY SweepAssumption DEF Stale
<1>6. CASE x = 1
  <2>1. open[b] # 0 /\ calm >= VisitInterval
    BY <1>1, <1>3, <1>4, <1>5, <1>6, SweepAssumption
  <2>2. HasEntry(monitor, b)
    BY <2>1, Zenon DEF Counts
  <2>3. PICK v \in Range(monitor.queue) : v.backend = b /\ Announced(b, v)
    BY <2>2, Zenon DEF Queued
  <2>4. v.due \in 1..VisitInterval
    BY QueuesInTime, Zenon
  <2>5. Since(v) \in Nat /\ Since(v) + 1 \in x .. x + VisitInterval - 1 /\ calm > Since(v)
    BY <1>3, <1>5, <1>6, <2>1, <2>4, SweepAssumption DEF Since
  <2>6. Arrives(b, Since(v))
    BY <1>2, <2>3, <2>5, Zenon DEF Announced
  <2>7. \/ \E k \in Range(keepalives') : k.backend = b /\ k.age = Since(v) + 1
        \/ idle'[b] <= Since(v) + 1
    BY <2>5, <2>6, ArrivesLater, Zenon
  <2>8. idle'[b] <= Since(v) + 1 => idle'[b] <= x + VisitInterval - 1
    BY <1>4, <1>6, <2>5, SweepAssumption
  <2> QED  BY <2>5, <2>7, <2>8, Zenon DEF HeardAt
<1>7. CASE x # 1
  <2> DEFINE y == x - 1
  <2>1. y \in 1 .. WireDelay + 1 /\ held[b] >= y /\ calm >= y + VisitInterval
    BY <1>1, <1>3, <1>4, <1>5, <1>7, SweepAssumption
  <2> HIDE DEF y
  <2>2. HeardAt(b, y)
    BY <1>2, <2>1, Zenon DEF Heard
  <2>3. CASE idle[b] <= y + VisitInterval - 1
    <3>1. idle'[b] <= x + VisitInterval - 1
      BY <1>3, <1>4, <2>3, SweepAssumption DEF y
    <3> QED  BY <3>1, Zenon DEF HeardAt
  <2>4. CASE \E k \in Range(keepalives) : k.backend = b /\ k.age \in y .. y + VisitInterval - 1
    <3>1. PICK k \in Range(keepalives) : k.backend = b /\ k.age \in y .. y + VisitInterval - 1
      BY <2>4, Zenon
    <3>2. OneOlder(k) \in Range(keepalives') /\ OneOlder(k).backend = k.backend /\ OneOlder(k).age = k.age + 1
      BY QueuesInTime, Zenon
    <3>3. k.age + 1 \in x .. x + VisitInterval - 1
      BY <3>1, <2>1, SweepAssumption DEF y
    <3> QED  BY <3>1, <3>2, <3>3, Zenon DEF HeardAt
  <2> QED  BY <2>2, <2>3, <2>4, Zenon DEF HeardAt
<1> QED  BY <1>6, <1>7, Zenon

\* Time passes.
LEMMA TimeStep ==
  ASSUME SweepIInv, TimePasses
  PROVE  SweepIInv'
<1>1. MonitorSide /\ SweepSide /\ (connected \/ calm = 0) /\ HeldOpen
  BY Sides, Zenon DEF SweepIInv
<1>2. UNCHANGED <<status, limit, open, routed, connected, sweepVars>>
  BY Zenon DEF TimePasses
<1>3. /\ monitor' \in Monitors /\ monitor'.backends = monitor.backends
      /\ Sorted(monitor'.queue) /\ keepalives' \in Seq(Messages)
  BY QueuesInTime, Zenon
<1>4. \A b \in Backends :
        /\ idle'[b] \in Nat /\ left'[b] \in Nat \cup {-1} /\ held'[b] \in 0 .. WireDelay + 1
        /\ held'[b] > 0 => open[b] > 0
  BY TimeFacts, Zenon
<1>5. /\ idle' \in [Backends -> Nat] /\ left' \in [Backends -> Nat \cup {-1}]
      /\ held' \in [Backends -> 0 .. WireDelay + 1]
  BY <1>4, Zenon DEF TimePasses
<1>6. calm' \in 0 .. Stale
  <2>1. Stale \in Nat /\ calm \in 0 .. Stale /\ connected \in BOOLEAN
    BY <1>1, SweepAssumption DEF Stale, MonitorSide
  <2>2. CASE connected
    BY <2>1, <2>2 DEF TimePasses, LeastOf
  <2>3. CASE ~connected
    <3>1. calm' = 0
      BY <2>3, Zenon DEF TimePasses
    <3> QED  BY <2>1, <3>1
  <2> QED  BY <2>2, <2>3, Zenon
<1>7. connected' \/ calm' = 0
  BY Zenon DEF TimePasses
<1>8. MonitorSide' /\ SweepSide'
  BY <1>1, <1>2, <1>3, <1>5, <1>6, Zenon DEF MonitorSide, SweepSide, sweepVars
<1>9. ASSUME NEW b \in Backends PROVE Kept(b)' /\ (open'[b] > 0 \/ held'[b] = 0)
  <2>1. ASSUME status'[b] \notin Ended PROVE Counts(b)' /\ Queued(b)' /\ Heard(b)'
    <3>1. Counts(b) /\ Queued(b) /\ Heard(b)
      BY <1>2, <2>1, Zenon DEF SweepIInv, Kept
    <3>2. Counts(b)'
      BY <1>2, <1>3, <3>1, Zenon DEF Counts, HasEntry
    <3> QED  BY <3>1, <3>2, QueuedLater, HeardLater, Zenon
  <2>2. held'[b] > 0 \/ held'[b] = 0
    BY <1>4, SweepAssumption
  <2> QED  BY <1>2, <1>4, <2>1, <2>2, Zenon DEF Kept
<1> QED  BY <1>3, <1>7, <1>8, <1>9, Together, Zenon

-----------------------------------------------------------------------------
(* IdleSweep: the theorems *)

\* No backend has been used.
LEMMA SweepStarts == SweepInit => SweepIInv
<1> SUFFICES ASSUME SweepInit PROVE SweepIInv
  OBVIOUS
<1>1. monitor = [backends |-> NoBackends, queue |-> <<>>] /\ keepalives = <<>>
  BY Zenon DEF SweepInit, EmptyMonitor
<1>2. monitor.backends = NoBackends /\ monitor.queue = <<>> /\ DOMAIN NoBackends = {}
  BY <1>1, Zenon DEF NoBackends
<1>3. monitor \in Monitors
  <2>1. NoBackends \in [{} -> Entries] /\ {} \in SUBSET Backends
    BY Zenon DEF NoBackends
  <2>2. NoBackends \in EntryMaps
    BY <2>1, Zenon DEF EntryMaps
  <2>3. <<>> \in Seq(Visits)
    OBVIOUS
  <2> QED  BY <1>1, <2>2, <2>3, Zenon DEF Monitors
<1>4. 0 \in 0 .. MaxOpen /\ 0 \in 0 .. WireDelay + 1 /\ 0 \in 0 .. Stale /\ <<>> \in Seq(Messages)
  BY SweepAssumption, CountAssumption DEF Stale
<1>5. MonitorSide
  BY <1>1, <1>3, <1>4, Zenon DEF SweepInit, MonitorSide
<1>6. \A l \in Limits : l.life \in Nat \cup {-1}
  BY SweepAssumption DEF NoLimit
<1>7. SweepSide
  BY <1>6, Zenon DEF SweepInit, SweepSide, Statuses
<1>8. Sorted(monitor.queue) /\ HeldOpen
  <2>1. DOMAIN monitor.queue = {}
    BY <1>2
  <2> QED  BY <2>1, Zenon DEF Sorted, HeldOpen, SweepInit
<1>9. ASSUME NEW b \in Backends PROVE Kept(b)
  <2>1. ~HasEntry(monitor, b) /\ open[b] = 0 /\ held[b] = 0
    BY <1>2, Zenon DEF HasEntry, SweepInit
  <2>2. \A x \in 1 .. WireDelay + 1 : ~(held[b] >= x)
    BY <2>1, SweepAssumption
  <2> QED  BY <2>1, <2>2, Zenon DEF Kept, Counts, Queued, Heard
<1> QED  BY <1>5, <1>7, <1>8, <1>9, Sides, Zenon DEF SweepIInv, SweepInit

\* Every step keeps the invariant.
LEMMA SweepKeeps == SweepIInv /\ [SweepNext]_idleVars => SweepIInv'
<1> SUFFICES ASSUME SweepIInv, [SweepNext]_idleVars PROVE SweepIInv'
  OBVIOUS
<1>1. CASE SweepNext
  <2>1. ASSUME NEW b \in Backends, NEW upgraded \in BOOLEAN, Use(b, upgraded) PROVE SweepIInv'
    BY <2>1, UseStep, Zenon
  <2>2. ASSUME NEW b \in Backends, Close(b) \/ NoticeRemoved(b) PROVE SweepIInv'
    BY <2>2, CloseStep, NoticeStep, Zenon
  <2>3. ASSUME NEW b \in Backends,
               Start(b) \/ Exit(b) \/ CarryOutTerminate(b) \/ \E l \in Loops : SweepTerminate(l, b)
        PROVE  SweepIInv'
    BY <2>3, SweeperStep, Zenon
  <2>4. ASSUME (\E l \in Loops : DroneConnects(l) \/ SweepQuery(l)) \/ DroneLeaves \/ DroneFails \/ CleanUp
        PROVE  SweepIInv'
    BY <2>4, SweeperStep, Zenon
  <2>5. ASSUME VisitBackend \/ Disconnect \/ Reconnect \/ HandleKeepAlive \/ KeepAliveFails \/ TimePasses
        PROVE  SweepIInv'
    BY <2>5, VisitStep, LossStep, KeepAliveStep, TimeStep, Zenon
  <2> QED  BY <1>1, <2>1, <2>2, <2>3, <2>4, <2>5, Zenon DEF SweepNext
<1>2. CASE UNCHANGED idleVars
  <2>1. UNCHANGED <<status, limit, idle, left, proxyVars, sweepVars>>
    BY <1>2, Zenon DEF idleVars
  <2>2. SweepSide
    BY Sides, Zenon DEF SweepIInv
  <2>3. SweepSide'
    BY <2>1, <2>2, Zenon DEF SweepSide, sweepVars, proxyVars
  <2>4. \A b \in Backends : status[b] \in Ended => status'[b] \in Ended
    BY <2>1, Zenon
  <2>5. UNCHANGED <<proxyVars, idle>>
    BY <2>1, Zenon
  <2> QED  BY <2>3, <2>4, <2>5, AwayStep, Zenon
<1> QED  BY <1>1, <1>2, Zenon

\* The visits of the connection monitor are queued in the order they are due, it
\* counts the open connections of every backend that has not ended, each backend
\* it has an entry for has a visit queued, and of the keepalives it sent in an
\* interval without a loss one has been handled or is still under way.
THEOREM SweepInvariance == SweepSpec => []SweepIInv
  BY SweepStarts, SweepKeeps, PTL DEF SweepSpec

\* A backend with an open connection is never idle for longer than the interval
\* between two visits and the delay of a keepalive, once its first keepalive had
\* the time to arrive and none was lost for as long: for every number of backends,
\* interval, delay and limit.
THEOREM UsedBackendsAreNotIdle == SweepSpec => []ConnectedNotIdle
<1>1. SweepIInv => ConnectedNotIdle
  <2> SUFFICES ASSUME SweepIInv, NEW b \in Backends, held[b] > WireDelay,
                      status[b] \in {"live", "terminating"},
                      connected, calm > VisitInterval + WireDelay
               PROVE  idle[b] <= VisitInterval + WireDelay
    BY Zenon DEF ConnectedNotIdle
  <2> DEFINE x == WireDelay + 1
  <2>1. Heard(b)
    BY Zenon DEF SweepIInv, Kept, Ended
  <2>2. /\ idle[b] \in Nat /\ held[b] \in 0 .. WireDelay + 1 /\ calm \in 0 .. Stale
        /\ keepalives \in Seq(Messages)
    BY OneBackend, Zenon
  <2>3. x \in 1 .. WireDelay + 1 /\ held[b] >= x /\ calm >= x + VisitInterval
    BY <2>2, SweepAssumption DEF Stale
  <2> HIDE DEF x
  <2>4. HeardAt(b, x)
    BY <2>1, <2>3, Zenon DEF Heard
  <2>5. \A k \in Range(keepalives) : k.age \notin x .. x + VisitInterval - 1
    <3>1. \A k \in Range(keepalives) : k \in Messages
      BY <2>2, RangeIn, Zenon
    <3>2. \A k \in Range(keepalives) : k.age \in 0 .. WireDelay
      BY <3>1, Zenon DEF Messages
    <3> QED  BY <3>2, SweepAssumption DEF x
  <2>6. idle[b] <= x + VisitInterval - 1
    BY <2>4, <2>5, Zenon DEF HeardAt
  <2> QED  BY <2>2, <2>6, SweepAssumption DEF x
<1> QED  BY <1>1, SweepInvariance, PTL

=============================================================================
