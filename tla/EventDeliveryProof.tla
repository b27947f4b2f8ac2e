------------------------- MODULE EventDeliveryProof -------------------------
(***************************************************************************)
(* For any set of backends and whatever they report: an event leaves the   *)
(* log of a drone with a durable store only when the database knows its    *)
(* status, and the database mirrors the statuses of the drone, moving only *)
(* forward.                                                                *)
(***************************************************************************)
EXTENDS EventDelivery, TLAPS

\* The status numbers are numbers.
LEMMA AsIntType == as_int \in [BackendStatus -> Nat]
  BY DEF as_int, BackendStatus

\* What update_state does for any event: no status in the database gets
\* smaller, and that of the event's backend is at least the event's.
LEMMA UpdateGrows ==
  ASSUME db \in [Backends -> BackendStatus], NEW e \in Event, update_state(e)
  PROVE  /\ db' \in [Backends -> BackendStatus]
         /\ \A b \in Backends : as_int[db[b]] <= as_int[db'[b]]
         /\ as_int[e.status] <= as_int[db'[e.backend]]
  <1> DEFINE n(s) == as_int[s]
  <1>1. \A s \in BackendStatus : n(s) \in Nat
    BY AsIntType, Zenon
  <1>2. e.backend \in Backends /\ e.status \in BackendStatus
    BY Zenon DEF Event
  <1>3. CASE as_int[db[e.backend]] < as_int[e.status]
    <2>1. db' = [db EXCEPT ![e.backend] = e.status]
      BY <1>3, Zenon DEF update_state
    <2>2. \A b \in Backends : db'[b] = IF b = e.backend THEN e.status ELSE db[b]
      BY <2>1, Zenon
    <2> HIDE DEF n
    <2>3. \A b \in Backends : n(db[b]) \in Nat
      BY <1>1, Zenon
    <2>4. n(db[e.backend]) < n(e.status)
      BY <1>3, Zenon DEF n
    <2>5. \A b \in Backends : n(db[b]) <= n(db'[b])
      BY <1>1, <1>2, <2>2, <2>3, <2>4
    <2>6. n(e.status) <= n(db'[e.backend])
      BY <1>1, <1>2, <2>2
    <2>7. db' \in [Backends -> BackendStatus]
      BY <1>2, <2>1, Zenon
    <2> QED
      BY <2>5, <2>6, <2>7, Zenon DEF n
  <1>4. CASE ~(as_int[db[e.backend]] < as_int[e.status])
    <2>1. db' = db
      BY <1>4, Zenon DEF update_state
    <2> HIDE DEF n
    <2>2. ~(n(db[e.backend]) < n(e.status))
      BY <1>4, Zenon DEF n
    <2>3. n(e.status) <= n(db[e.backend])
      BY <1>1, <1>2, <2>2
    <2>4. \A b \in Backends : n(db[b]) <= n(db[b])
      BY <1>1
    <2> QED
      BY <2>1, <2>3, <2>4, Zenon DEF n
  <1> QED
    BY <1>3, <1>4, Zenon

\* Registering a status of a backend, by its manager or by the sweep after a
\* restart, keeps the log, the messages and the database in step.
LEMMA RegisterKeeps ==
  ASSUME IInv, NEW b \in Backends, NEW status \in BackendStatus, register_event(b, status),
         UNCHANGED <<acks, db>>
  PROVE  /\ store' \in [Backends -> BackendStatus \cup {Absent}]
         /\ events' \subseteq Event /\ wire' \subseteq Event /\ old' \subseteq Event
         /\ nextId' \in Nat
         /\ entered' \in [Backends -> SUBSET BackendStatus]
         /\ IdsOK' /\ AcksOK' /\ MessagesOK' /\ AckSafe'
  <1> DEFINE e == [id |-> nextId, backend |-> b, status |-> status]
  <1>1. e \in Event
    BY Zenon DEF IInv, TypeOK, Event
  <1>2. /\ events' = events \cup {e}
        /\ wire' = wire \/ wire' = wire \cup {e}
        /\ old' = old \/ old' = old \cup {e}
        /\ nextId' = nextId + 1
        /\ entered' = [entered EXCEPT ![b] = @ \cup {status}]
        /\ store' = [store EXCEPT ![b] = status]
    BY Zenon DEF register_event
  <1>3. \A f \in events \cup wire \cup old : f \in Event
    BY Zenon DEF IInv, TypeOK
  <1>4. \A c \in Backends : entered'[c] = IF c = b THEN entered[b] \cup {status} ELSE entered[c]
    BY <1>2, Zenon DEF IInv, TypeOK
  <1>5. e.id = nextId /\ e.backend = b /\ e.status = status
    BY Zenon
  <1> HIDE DEF e
  <1>6. /\ store' \in [Backends -> BackendStatus \cup {Absent}]
        /\ events' \subseteq Event /\ wire' \subseteq Event /\ old' \subseteq Event
        /\ nextId' \in Nat
    BY <1>1, <1>2 DEF IInv, TypeOK
  <1>7. entered' \in [Backends -> SUBSET BackendStatus]
    BY <1>2, Zenon DEF IInv, TypeOK
  <1>8. IdsOK'
    <2>1. \A f \in events \cup wire : f.id \in Nat /\ f.id < nextId
      BY <1>3 DEF IInv, IdsOK, Event
    <2>2. nextId \in Nat
      BY Zenon DEF IInv, TypeOK
    <2>3. \A f \in events' \cup wire' : f \in events \cup wire \/ f = e
      BY <1>2, Zenon
    <2>4. \A f \in events' \cup wire' : f.id < nextId'
      BY <1>2, <1>5, <2>1, <2>2, <2>3
    <2>5. \A id \in acks' : id < nextId'
      BY <1>2, <2>2 DEF IInv, TypeOK, IdsOK
    <2>6. \A f, g \in events' \cup wire' : f.id = g.id => f = g
      <3> SUFFICES ASSUME NEW f \in events' \cup wire', NEW g \in events' \cup wire', f.id = g.id
                   PROVE  f = g
        BY Zenon
      <3>1. CASE f = e /\ g = e
        BY <3>1, Zenon
      <3>2. CASE f # e /\ g # e
        BY <2>3, <3>2, Zenon DEF IInv, IdsOK
      <3>3. CASE f = e /\ g # e
        BY <1>5, <2>1, <2>2, <2>3, <3>3
      <3>4. CASE f # e /\ g = e
        BY <1>5, <2>1, <2>2, <2>3, <3>4
      <3> QED
        BY <3>1, <3>2, <3>3, <3>4, Zenon
    <2> QED
      BY <2>4, <2>5, <2>6, Zenon DEF IdsOK
  <1>9. AcksOK'
    <2>1. nextId \notin acks
      BY DEF IInv, IdsOK, TypeOK
    <2> QED
      BY <1>2, <1>5, <2>1, Zenon DEF IInv, AcksOK
  <1>10. MessagesOK'
    <2>1. \A f \in events \cup wire \cup old : f.backend \in Backends
      BY <1>3, Zenon DEF Event
    <2>2. \A f \in events' \cup wire' \cup old' : f \in events \cup wire \cup old \/ f = e
      BY <1>2, Zenon
    <2> QED
      BY <1>4, <1>5, <2>1, <2>2, Zenon DEF IInv, MessagesOK
  <1>11. AckSafe'
    BY <1>2, <1>4, <1>5 DEF IInv, AckSafe
  <1> QED
    BY <1>6, <1>7, <1>8, <1>9, <1>10, <1>11, Zenon

\* The initial state satisfies the inductive invariant.
LEMMA InitInv == Init => IInv
  <1> SUFFICES ASSUME Init PROVE IInv
    BY Zenon
  <1>1. TypeOK
    BY Zenon DEF Init, TypeOK, BackendStatus, Phase
  <1>2. IdsOK /\ AcksOK /\ MessagesOK
    BY Zenon DEF Init, IdsOK, AcksOK, MessagesOK
  <1>3. AckSafe
    BY Zenon DEF Init, AckSafe
  <1> QED
    BY <1>1, <1>2, <1>3, Zenon DEF IInv

\* Every step of drone and controller keeps the inductive invariant.
LEMMA StepInv == IInv /\ [Next]_vars => IInv'
  <1> SUFFICES ASSUME IInv, [Next]_vars PROVE IInv'
    BY Zenon
  <1>a. TypeOK /\ IdsOK /\ AcksOK /\ MessagesOK /\ AckSafe
    BY Zenon DEF IInv
  <1>1. ASSUME NEW b \in Backends, NEW status \in Reported, SetState(b, status)
        PROVE  IInv'
    <2>1. status \in BackendStatus
      BY DeliveryConstants, Zenon
    <2>2. register_event(b, status) /\ UNCHANGED <<phase, sweep, acks, db, faults, crashes, orphaned>>
      BY <1>1, Zenon DEF SetState
    <2> QED
      BY <1>a, <2>1, <2>2, RegisterKeeps, Zenon DEF IInv, TypeOK
  <1>2. CASE Connect
    <2>1. wire' = events /\ phase' = "connected"
      BY <1>2, Zenon DEF Connect
    <2>2. UNCHANGED <<store, events, nextId, sweep, old, acks, db, faults, crashes, entered, orphaned>>
      BY <1>2, Zenon DEF Connect
    <2>3. TypeOK'
      BY <1>a, <2>1, <2>2, Zenon DEF TypeOK, Phase
    <2>4. IdsOK'
      BY <1>a, <2>1, <2>2, Zenon DEF IdsOK
    <2>5. AcksOK' /\ MessagesOK' /\ AckSafe'
      BY <1>a, <2>1, <2>2, Zenon DEF AcksOK, MessagesOK, AckSafe
    <2> QED
      BY <2>3, <2>4, <2>5, Zenon DEF IInv
  <1>3. ASSUME NEW handled \in SUBSET acks, Disconnect(handled)
        PROVE  IInv'
    <2>1. wire' = {} /\ old' = old \cup wire /\ acks' = handled /\ phase' = "reconnecting"
      BY <1>3, Zenon DEF Disconnect
    <2>2. UNCHANGED <<store, events, nextId, sweep, db, faults, crashes, entered, orphaned>>
      BY <1>3, Zenon DEF Disconnect
    <2>3. TypeOK'
      BY <1>a, <2>1, <2>2, Zenon DEF TypeOK, Phase
    <2>4. IdsOK'
      BY <1>a, <2>1, <2>2, Zenon DEF IdsOK
    <2>5. AcksOK' /\ MessagesOK' /\ AckSafe'
      BY <1>a, <2>1, <2>2, Zenon DEF AcksOK, MessagesOK, AckSafe
    <2> QED
      BY <2>3, <2>4, <2>5, Zenon DEF IInv
  <1>4. ASSUME NEW id \in acks, HandleAck(id)
        PROVE  IInv'
    <2>1. acks' = acks \ {id} /\ events' = {e \in events : e.id # id}
      BY <1>4, Zenon DEF HandleAck
    <2>2. UNCHANGED <<store, nextId, phase, sweep, wire, old, db, faults, crashes, entered, orphaned>>
      BY <1>4, Zenon DEF HandleAck
    <2>3. TypeOK'
      BY <1>a, <2>1, <2>2, Zenon DEF TypeOK
    <2>4. IdsOK'
      BY <1>a, <2>1, <2>2, Zenon DEF IdsOK
    <2>5. AcksOK' /\ MessagesOK'
      BY <1>a, <2>1, <2>2, Zenon DEF AcksOK, MessagesOK
    <2>6. AckSafe'
      BY <1>a, <2>1, <2>2 DEF AckSafe, AcksOK
    <2> QED
      BY <2>3, <2>4, <2>5, <2>6, Zenon DEF IInv
  <1>5. CASE Crash
    <2>1. wire' = {} /\ old' = old \cup wire /\ acks' = {} /\ phase' = "down"
      BY <1>5, Zenon DEF Crash
    <2>2. UNCHANGED <<db, faults, entered>> /\ crashes' = crashes + 1
      BY <1>5, Zenon DEF Crash
    <2>3. (events' = events /\ nextId' = nextId) \/ (~Durable /\ events' = {} /\ nextId' = 1)
      BY <1>5, DeliveryConstants, Zenon DEF Crash
    <2>4. TypeOK'
      <3>1. store' \in [Backends -> BackendStatus \cup {Absent}]
        BY <1>5, <1>a, Zenon DEF Crash, TypeOK
      <3>2. sweep' \in [Backends -> {"listed", "killing", Absent}]
        BY <1>5, Zenon DEF Crash
      <3>3. orphaned' \subseteq Backends
        BY <1>5, <1>a, Zenon DEF Crash, TypeOK
      <3> QED
        BY <1>a, <2>1, <2>2, <2>3, <3>1, <3>2, <3>3 DEF TypeOK, Phase
    <2>5. IdsOK' /\ AcksOK'
      BY <1>a, <2>1, <2>3, Zenon DEF IdsOK, AcksOK
    <2>6. MessagesOK'
      BY <1>a, <2>1, <2>2, <2>3, Zenon DEF MessagesOK
    <2>7. AckSafe'
      BY <1>a, <2>2, <2>3 DEF AckSafe
    <2> QED
      BY <2>4, <2>5, <2>6, <2>7, Zenon DEF IInv
  <1>6. CASE Restart
    <2>1. UNCHANGED <<store, events, nextId, wire, old, acks, db, faults, crashes, entered, orphaned>>
      BY <1>6, Zenon DEF Restart
    <2>2. phase' \in Phase /\ sweep' \in [Backends -> {"listed", "killing", Absent}]
      BY <1>6, Zenon DEF Restart, Phase
    <2> QED
      BY <1>a, <2>1, <2>2, Zenon DEF IInv, TypeOK, IdsOK, AcksOK, MessagesOK, AckSafe
  <1>7. ASSUME NEW b \in Backends, TerminatePreexisting(b)
        PROVE  IInv'
    <2>1. register_event(b, "hard-terminating")
          /\ UNCHANGED <<phase, acks, db, faults, crashes, orphaned>>
      BY <1>7, Zenon DEF TerminatePreexisting
    <2>2. "hard-terminating" \in BackendStatus
      BY Zenon DEF BackendStatus
    <2>3. sweep' \in [Backends -> {"listed", "killing", Absent}]
      BY <1>7, <1>a, Zenon DEF TerminatePreexisting, TypeOK
    <2> QED
      BY <1>a, <2>1, <2>2, <2>3, RegisterKeeps, Zenon DEF IInv, TypeOK
  <1>8. ASSUME NEW b \in Backends, PreexistingTerminated(b)
        PROVE  IInv'
    <2>1. register_event(b, "terminated") /\ UNCHANGED <<phase, acks, db, faults, crashes, orphaned>>
      BY <1>8, Zenon DEF PreexistingTerminated
    <2>2. "terminated" \in BackendStatus
      BY Zenon DEF BackendStatus
    <2>3. sweep' \in [Backends -> {"listed", "killing", Absent}]
      BY <1>8, <1>a, Zenon DEF PreexistingTerminated, TypeOK
    <2> QED
      BY <1>a, <2>1, <2>2, <2>3, RegisterKeeps, Zenon DEF IInv, TypeOK
  <1>9. CASE Started
    <2>1. UNCHANGED <<store, events, nextId, sweep, wire, old, acks, db, faults, crashes, entered,
                      orphaned>>
      BY <1>9, Zenon DEF Started
    <2>2. phase' \in Phase
      BY <1>9, Zenon DEF Started, Phase
    <2> QED
      BY <1>a, <2>1, <2>2, Zenon DEF IInv, TypeOK, IdsOK, AcksOK, MessagesOK, AckSafe
  <1>b. ASSUME NEW e \in Event, update_state(e), UNCHANGED <<events, entered, acks>>
        PROVE  /\ db' \in [Backends -> BackendStatus]
               /\ AcksOK' /\ AckSafe'
    <2>1. /\ db' \in [Backends -> BackendStatus]
          /\ \A b \in Backends : as_int[db[b]] <= as_int[db'[b]]
          /\ as_int[e.status] <= as_int[db'[e.backend]]
      BY <1>a, <1>b, UpdateGrows, Zenon DEF TypeOK
    <2>2. \A b \in Backends : as_int[db[b]] \in Nat /\ as_int[db'[b]] \in Nat
      BY <1>a, <2>1, AsIntType, Zenon DEF TypeOK
    <2>3. \A f \in events : as_int[f.status] \in Nat /\ f.backend \in Backends
      BY <1>a, AsIntType, Zenon DEF TypeOK, Event
    <2>4. AcksOK'
      BY <1>a, <1>b, <2>1, <2>2, <2>3 DEF AcksOK
    <2>5. \A b \in Backends : \A s \in entered[b] : as_int[s] \in Nat
      BY <1>a, AsIntType, Zenon DEF TypeOK
    <2>6. AckSafe'
      BY <1>a, <1>b, <2>1, <2>2, <2>5 DEF AckSafe
    <2> QED
      BY <2>1, <2>4, <2>6, Zenon
  <1>10. ASSUME NEW e \in wire, NEW updated \in BOOLEAN, NEW acked \in BOOLEAN,
                HandleEvent(e, updated, acked)
         PROVE  IInv'
    <2>1. UNCHANGED <<store, events, nextId, phase, sweep, old, crashes, entered, orphaned>>
      BY <1>10, Zenon DEF HandleEvent
    <2>2. wire' = wire \ {e} /\ e \in Event /\ faults' \in Nat
      BY <1>10, <1>a DEF HandleEvent, TypeOK
    <2>3. acks' = acks \/ (updated /\ acks' = acks \cup {e.id})
      BY <1>10, Zenon DEF HandleEvent
    <2>4. CASE ~updated
      <3>1. db' = db /\ acks' = acks
        BY <1>10, <2>3, <2>4, Zenon DEF HandleEvent
      <3> QED
        BY <1>a, <2>1, <2>2, <3>1, Zenon DEF IInv, TypeOK, IdsOK, AcksOK, MessagesOK, AckSafe
    <2>5. CASE updated
      <3>1. update_state(e)
        BY <1>10, <2>5, Zenon DEF HandleEvent
      <3>2. /\ db' \in [Backends -> BackendStatus]
            /\ \A b \in Backends : as_int[db[b]] <= as_int[db'[b]]
            /\ as_int[e.status] <= as_int[db'[e.backend]]
        BY <1>a, <2>2, <3>1, UpdateGrows, Zenon DEF TypeOK
      <3>3. \A b \in Backends : as_int[db[b]] \in Nat /\ as_int[db'[b]] \in Nat
        BY <1>a, <3>2, AsIntType, Zenon DEF TypeOK
      <3>4. TypeOK'
        BY <1>a, <2>1, <2>2, <2>3, <3>2, Zenon DEF TypeOK, Event
      <3>5. IdsOK' /\ MessagesOK'
        BY <1>a, <2>1, <2>2, <2>3, Zenon DEF IdsOK, MessagesOK
      <3>6. AcksOK'
        <4>1. \A f \in events : as_int[f.status] \in Nat /\ f.backend \in Backends
          BY <1>a, AsIntType, Zenon DEF TypeOK, Event
        <4>2. \A f \in events : f.id \in acks => as_int[f.status] <= as_int[db'[f.backend]]
          BY <1>a, <3>2, <3>3, <4>1 DEF AcksOK
        <4>3. \A f \in events : f.id = e.id => f = e
          BY <1>a, Zenon DEF IdsOK
        <4> QED
          BY <2>1, <2>3, <3>2, <4>2, <4>3, Zenon DEF AcksOK
      <3>7. AckSafe'
        <4>1. \A b \in Backends : \A s \in entered[b] : as_int[s] \in Nat
          BY <1>a, AsIntType, Zenon DEF TypeOK
        <4> QED
          BY <1>a, <2>1, <3>2, <3>3, <4>1 DEF AckSafe
      <3> QED
        BY <3>4, <3>5, <3>6, <3>7, Zenon DEF IInv
    <2> QED
      BY <2>4, <2>5, Zenon
  <1>11. ASSUME NEW e \in old, HandleOldEvent(e)
         PROVE  IInv'
    <2>1. UNCHANGED <<store, events, nextId, phase, sweep, wire, acks, faults, crashes, entered,
                      orphaned>>
      BY <1>11, Zenon DEF HandleOldEvent
    <2>2. old' = old \ {e} /\ e \in Event /\ update_state(e)
      BY <1>11, <1>a, Zenon DEF HandleOldEvent, TypeOK
    <2>3. db' \in [Backends -> BackendStatus] /\ AcksOK' /\ AckSafe'
      BY <1>b, <2>1, <2>2, Zenon
    <2>4. TypeOK'
      BY <1>a, <2>1, <2>2, <2>3, Zenon DEF TypeOK
    <2>5. IdsOK' /\ MessagesOK'
      BY <1>a, <2>1, <2>2, Zenon DEF IdsOK, MessagesOK
    <2> QED
      BY <2>3, <2>4, <2>5, Zenon DEF IInv
  <1>12. CASE UNCHANGED vars
    BY <1>a, <1>12, Zenon DEF vars, IInv, TypeOK, IdsOK, AcksOK, MessagesOK, AckSafe
  <1> QED
    BY <1>1, <1>2, <1>3, <1>4, <1>5, <1>6, <1>7, <1>8, <1>9, <1>10, <1>11, <1>12, Zenon
    DEF Next, DroneNext, ControllerNext

\* The inductive invariant holds in every reachable state.
THEOREM Invariance == Spec => []IInv
  BY InitInv, StepInv, PTL DEF Spec

\* An event leaves the log of a durable store only when the database knows
\* its status or a later one.
THEOREM AcksAreSafe == Spec => []AckSafe
  <1>1. IInv => AckSafe
    BY Zenon DEF IInv
  <1> QED
    BY <1>1, Invariance, PTL

\* Registering a status is a step of the abstract mirror.
LEMMA RegisterEnters ==
  ASSUME NEW b \in Backends, NEW status \in BackendStatus, register_event(b, status), UNCHANGED db
  PROVE  Mirror!Next
  <1>1. Mirror!Enter(b, status)
    BY Zenon DEF register_event, Mirror!Enter
  <1>2. status \in Mirror!BackendStatus
    BY Zenon DEF BackendStatus, Mirror!BackendStatus
  <1> QED
    BY <1>1, <1>2, Zenon DEF Mirror!Next

\* Applying an event that happened is a step of the abstract mirror, or none.
LEMMA UpdateLearns ==
  ASSUME TypeOK, NEW e \in Event, e.status \in entered[e.backend], update_state(e),
         UNCHANGED entered
  PROVE  Mirror!Next \/ UNCHANGED Mirror!vars
  <1>1. e.backend \in Backends /\ e.status \in BackendStatus
    BY Zenon DEF Event
  <1>2. CASE ~(as_int[db[e.backend]] < as_int[e.status])
    BY <1>2, Zenon DEF update_state, Mirror!vars
  <1>3. CASE as_int[db[e.backend]] < as_int[e.status]
    <2>1. db' = [db EXCEPT ![e.backend] = e.status]
      BY <1>3, Zenon DEF update_state
    <2>2. as_int[e.status] \in Nat /\ as_int[db[e.backend]] \in Nat
      BY <1>1, AsIntType, Zenon DEF TypeOK
    <2>3. as_int[e.status] > as_int[db[e.backend]]
      BY <1>3, <2>2, Zenon
    <2>4. as_int = Mirror!as_int /\ BackendStatus = Mirror!BackendStatus
      BY Zenon DEF as_int, Mirror!as_int, BackendStatus, Mirror!BackendStatus
    <2>5. Mirror!Learn(e.backend, e.status)
      BY <2>1, <2>3, <2>4, Zenon DEF Mirror!Learn
    <2> QED
      BY <1>1, <2>4, <2>5, Zenon DEF Mirror!Next
  <1> QED
    BY <1>2, <1>3, Zenon

\* Drone and controller implement the abstract mirror: the database shows only
\* statuses that the drone registered, and moves only forward.
THEOREM MirrorIsImplemented == Spec => MirrorsStatus
  <1>1. Init => Mirror!Init
    BY Zenon DEF Init, Mirror!Init
  <1>2. IInv /\ [Next]_vars => [Mirror!Next]_(Mirror!vars)
    <2> SUFFICES ASSUME IInv, [Next]_vars PROVE Mirror!Next \/ UNCHANGED Mirror!vars
      BY Zenon
    <2>a. TypeOK /\ MessagesOK
      BY Zenon DEF IInv
    <2>1. ASSUME NEW b \in Backends, NEW status \in Reported, SetState(b, status)
          PROVE  Mirror!Next
      BY <2>1, RegisterEnters, DeliveryConstants, Zenon DEF SetState
    <2>2. ASSUME NEW b \in Backends, TerminatePreexisting(b) \/ PreexistingTerminated(b)
          PROVE  Mirror!Next
      <3>1. "hard-terminating" \in BackendStatus /\ "terminated" \in BackendStatus
        BY Zenon DEF BackendStatus
      <3> QED
        BY <2>2, <3>1, RegisterEnters, Zenon DEF TerminatePreexisting, PreexistingTerminated
    <2>3. ASSUME NEW e \in wire, NEW updated \in BOOLEAN, NEW acked \in BOOLEAN,
                 HandleEvent(e, updated, acked)
          PROVE  Mirror!Next \/ UNCHANGED Mirror!vars
      <3>1. e \in Event /\ e.status \in entered[e.backend]
        BY <2>a, Zenon DEF TypeOK, MessagesOK
      <3>2. entered' = entered /\ (update_state(e) \/ db' = db)
        BY <2>3, Zenon DEF HandleEvent
      <3> QED
        BY <2>a, <3>1, <3>2, UpdateLearns, Zenon DEF Mirror!vars
    <2>4. ASSUME NEW e \in old, HandleOldEvent(e)
          PROVE  Mirror!Next \/ UNCHANGED Mirror!vars
      <3>1. e \in Event /\ e.status \in entered[e.backend]
        BY <2>a, Zenon DEF TypeOK, MessagesOK
      <3> QED
        BY <2>a, <2>4, <3>1, UpdateLearns, Zenon DEF HandleOldEvent
    <2>5. CASE Connect \/ Crash \/ Restart \/ Started \/ UNCHANGED vars
      BY <2>5, Zenon DEF Connect, Crash, Restart, Started, vars, Mirror!vars
    <2>6. ASSUME NEW handled \in SUBSET acks, Disconnect(handled)
          PROVE  UNCHANGED Mirror!vars
      BY <2>6, Zenon DEF Disconnect, Mirror!vars
    <2>7. ASSUME NEW id \in acks, HandleAck(id)
          PROVE  UNCHANGED Mirror!vars
      BY <2>7, Zenon DEF HandleAck, Mirror!vars
    <2> QED
      BY <2>1, <2>2, <2>3, <2>4, <2>5, <2>6, <2>7, Zenon DEF Next, DroneNext, ControllerNext
  <1> QED
    BY <1>1, <1>2, Invariance, PTL DEF Spec, MirrorsStatus, Mirror!Spec

=============================================================================
