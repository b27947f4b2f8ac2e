--------------------------- MODULE KeyLeaseProof ----------------------------
(***************************************************************************)
(* Proofs about the key lease for every set of keys, backends, drones and  *)
(* concurrent connect() requests, all clock offsets and all lease          *)
(* constants that satisfy the assumptions of KeyLease.                     *)
(***************************************************************************)
EXTENDS KeyLease, TLAPS

-----------------------------------------------------------------------------
(* Types *)

\* The record updates of connect() stay within the type of its state.
LEMMA IdleConnType == IdleConn \in ConnectState
BY DEF IdleConn, ConnectState

\* check_key found no row for the key: connect goes on without a backend.
LEMMA AbsentType ==
  ASSUME NEW x \in ConnectState, NEW k \in Keys
  PROVE  [x EXCEPT !.pc = "pick", !.key = k] \in ConnectState
BY Zenon DEF ConnectState

\* check_key found an expired row: connect remembers its holder to remove it.
LEMMA ExpiredType ==
  ASSUME NEW x \in ConnectState, NEW k \in Keys, NEW b \in Backends
  PROVE  [x EXCEPT !.pc = "remove", !.key = k, !.id = b] \in ConnectState
BY Zenon DEF ConnectState

\* remove_key is done: connect forgets the holder.
LEMMA RemovedType ==
  ASSUME NEW x \in ConnectState
  PROVE  [x EXCEPT !.pc = "pick", !.id = None] \in ConnectState
BY Zenon DEF ConnectState

\* pick_drone_for_spawn gives connect a drone and its local time.
LEMMA PickedType ==
  ASSUME NEW x \in ConnectState, NEW d \in Drones, NEW t \in Int
  PROVE  [x EXCEPT !.pc = "begin", !.drone = d, !.base = t] \in ConnectState
BY Zenon DEF ConnectState

\* create_backend_with_key begins its transaction: connect remembers when.
LEMMA BegunType ==
  ASSUME NEW x \in ConnectState, NEW t \in Int
  PROVE  [x EXCEPT !.pc = "insert", !.asOf = t] \in ConnectState
BY Zenon DEF ConnectState

\* prevent_renew keeps a row a row.
LEMMA RowUpdateType ==
  ASSUME NEW x \in BackendKey
  PROVE  [x EXCEPT !.allow_renew = FALSE] \in BackendKey
BY Zenon DEF BackendKey

\* The initial state is well typed.
LEMMA TypeInit == Init => TypeOK
BY IdleConnType DEF Init, TypeOK

\* Every action of connect, the controllers, the drones and the network keeps
\* database, drones and messages well typed.
LEMMA TypeStep == TypeOK /\ ConnOK /\ [Next]_vars => TypeOK'
<1> SUFFICES ASSUME TypeOK, ConnOK, [Next]_vars PROVE TypeOK'
  BY Zenon
<1> USE DEF TypeOK, dbVars, droneVars, netVars, LocalTime, DroneOf, OnDrone
<1>1. CASE Tick
  BY <1>1 DEF Tick
<1>2. ASSUME NEW c \in Connectors, NEW k \in Keys, CheckKey(c, k) PROVE TypeOK'
  <2>1. CASE keyRow[k] = None
    <3>1. [IdleConn EXCEPT !.pc = "pick", !.key = k] \in ConnectState
      BY AbsentType, IdleConnType, Zenon
    <3> QED
      BY <1>2, <2>1, <3>1, Zenon DEF CheckKey
  <2>2. CASE keyRow[k] # None
    <3>1. keyRow[k].id \in Backends
      BY <2>2, Zenon DEF BackendKey
    <3>2. [IdleConn EXCEPT !.pc = "remove", !.key = k, !.id = keyRow[k].id] \in ConnectState
      BY <3>1, ExpiredType, IdleConnType, Zenon
    <3> QED
      BY <1>2, <2>2, <3>2, Zenon DEF CheckKey
  <2> QED
    BY <2>1, <2>2, Zenon
<1>3. ASSUME NEW c \in Connectors, RemoveKey(c) PROVE TypeOK'
  <2>1. [conn[c] EXCEPT !.pc = "pick", !.id = None] \in ConnectState
    BY RemovedType, Zenon
  <2> QED
    BY <1>3, <2>1, IdleConnType, Zenon DEF RemoveKey, Removable
<1>4. ASSUME NEW c \in Connectors, NEW d \in Drones, NEW s \in 0..MaxTime, PickDrone(c, d, s)
      PROVE TypeOK'
  <2>1. conn[c] \in ConnectState /\ s + Offset[d] \in Int
    BY OtherConstants
  <2>2. [conn[c] EXCEPT !.pc = "begin", !.drone = d, !.base = s + Offset[d]] \in ConnectState
    BY <2>1, PickedType, Zenon
  <2> QED
    BY <1>4, <2>2, Zenon DEF PickDrone
<1>5. ASSUME NEW c \in Connectors, NoSpawn(c) PROVE TypeOK'
  BY <1>5, IdleConnType, Zenon DEF NoSpawn
<1>6. ASSUME NEW c \in Connectors, BeginTxn(c) PROVE TypeOK'
  <2>1. conn[c] \in ConnectState /\ now \in Int
    OBVIOUS
  <2>2. [conn[c] EXCEPT !.pc = "insert", !.asOf = now] \in ConnectState
    BY <2>1, BegunType, Zenon
  <2> QED
    BY <1>6, <2>2, Zenon DEF BeginTxn
<1>7. ASSUME NEW c \in Connectors, NEW b \in Backends, InsertBackend(c, b) PROVE TypeOK'
  <2> DEFINE row == [id |-> b, allow_renew |-> TRUE, expires_at |-> conn[c].asOf + KEY_LEASE_EXPIRATION]
             new == [key |-> conn[c].key, drone |-> conn[c].drone, token |-> conn[c].asOf,
                     deadlines |-> AcquiredDeadlines(conn[c].base)]
  <2>1. conn[c].base \in Int /\ conn[c].asOf \in Int /\ conn[c].key \in Keys /\ conn[c].drone \in Drones
    BY <1>7, Zenon DEF ConnectState, ConnOK, InsertBackend, Insertable
  <2>2. row \in BackendKey
    BY <2>1, LeaseConstants DEF BackendKey
  <2>3. new \in BackendRow
    BY <2>1, LeaseConstants DEF BackendRow, AcquiredDeadlines, KeyDeadlines
  <2> HIDE DEF row, new
  <2>4. keyRow' \in [Keys -> BackendKey \cup {None}] /\ backend' \in [Backends -> BackendRow \cup {None}]
    BY <1>7, <2>2, <2>3, Zenon DEF InsertBackend, Insertable, row, new
  <2> QED
    BY <1>7, <2>4, IdleConnType, Zenon DEF InsertBackend, Insertable
<1>8. ASSUME NEW r \in renewReqs, HandleRenewKey(r) PROVE TypeOK'
  BY <1>8, LeaseConstants DEF HandleRenewKey, HasRow, RenewedDeadlines, BackendKey, KeyDeadlines
<1>9. ASSUME NEW b \in Backends, HandleTerminated(b) PROVE TypeOK'
  BY <1>9, Zenon DEF HandleTerminated, HasRow
<1>10. ASSUME NEW k \in Keys, prevent_renew(k) PROVE TypeOK'
  <2>1. keyRow[k] \in BackendKey
    BY <1>10, Zenon DEF prevent_renew
  <2>2. [keyRow[k] EXCEPT !.allow_renew = FALSE] \in BackendKey
    BY <2>1, RowUpdateType, Zenon
  <2> QED
    BY <1>10, <2>2, Zenon DEF prevent_renew
<1>11. ASSUME NEW b \in Backends, HandleSpawn(b) PROVE TypeOK'
  BY <1>11 DEF HandleSpawn, BackendRow
<1>12. ASSUME NEW b \in Backends, StartContainer(b) PROVE TypeOK'
  BY <1>12, Zenon DEF StartContainer
<1>13. ASSUME NEW b \in Backends, RenewStep(b) PROVE TypeOK'
  BY <1>13, OtherConstants DEF RenewStep, BackendRow
<1>14. ASSUME NEW b \in Backends, SoftStep(b) PROVE TypeOK'
  BY <1>14, Zenon DEF SoftStep
<1>15. ASSUME NEW b \in Backends, HardStep(b) PROVE TypeOK'
  BY <1>15, Zenon DEF HardStep
<1>16. ASSUME NEW b \in Backends, Terminated(b) PROVE TypeOK'
  BY <1>16, Zenon DEF Terminated
<1>17. ASSUME NEW b \in Backends, OrphanExits(b) PROVE TypeOK'
  BY <1>17, Zenon DEF OrphanExits
<1>18. ASSUME NEW r \in renewResps, HandleRenewKeyResponse(r) PROVE TypeOK'
  BY <1>18, Zenon DEF HandleRenewKeyResponse
<1>19. ASSUME NEW d \in Drones, NEW S \in SUBSET Backends, Reconnect(d, S) PROVE TypeOK'
  BY <1>19, Zenon DEF Reconnect, Replayable
<1>20. ASSUME NEW d \in Drones, Crash(d) PROVE TypeOK'
  BY <1>20 DEF Crash
<1>21. ASSUME NEW d \in Drones, NEW S \in SUBSET Backends, Restart(d, S) PROVE TypeOK'
  BY <1>21, Zenon DEF Restart
<1>22. ASSUME NEW r \in renewReqs, LoseRequest(r) PROVE TypeOK'
  BY <1>22, Zenon DEF LoseRequest
<1>23. ASSUME NEW r \in renewResps, LoseResponse(r) PROVE TypeOK'
  BY <1>23, Zenon DEF LoseResponse
<1>24. CASE UNCHANGED vars
  BY <1>24, Zenon DEF vars
<1> QED
  BY <1>1, <1>2, <1>3, <1>4, <1>5, <1>6, <1>7, <1>8, <1>9, <1>10, <1>11, <1>12, <1>13, <1>14,
     <1>15, <1>16, <1>17, <1>18, <1>19, <1>20, <1>21, <1>22, <1>23, <1>24, Zenon
  DEF Next, ConnectNext, ControllerNext, DroneNext, BackendNext, NetworkNext

-----------------------------------------------------------------------------
(* What the steps that matter to a lease do to it *)

\* The fields of rows, handles and messages, as the arithmetic needs them.
Fields ==
  /\ now \in Int /\ Gap \in Nat /\ Gap > 0
  /\ \A b \in Backends : backend[b] # None =>
       /\ backend[b].key \in Keys /\ backend[b].drone \in Drones
       /\ Offset[DroneOf(b)] \in Int
       /\ backend[b].deadlines \in KeyDeadlines
       /\ backend[b].deadlines.soft_terminate_at \in Int
       /\ backend[b].deadlines.hard_terminate_at \in Int
  /\ \A b \in Backends : handles[b] # None => handles[b].hard_terminate_at \in Int
  /\ \A k \in Keys : keyRow[k] # None => keyRow[k].id \in Backends /\ keyRow[k].expires_at \in Int
  /\ \A r \in renewReqs : r.backend \in Backends /\ r.local_time \in Int
  /\ \A r \in renewResps : r.backend \in Backends /\ r.deadlines.hard_terminate_at \in Int

\* A deadline that a drone's clock has not reached is not past.
LEMMA NotPast ==
  ASSUME NEW t \in Int, NEW offset \in Int, NEW h \in Int, NEW gap \in Nat, t + offset < h
  PROVE  ~(h - offset + gap < t)
OBVIOUS

\* The type invariant gives the fields their types.
LEMMA FieldTypes == TypeOK => Fields
BY LeaseConstants, OtherConstants
   DEF TypeOK, Fields, Gap, DroneOf, BackendRow, BackendKey, KeyDeadlines

\* Types before and after a step.
LEMMA StepTypes == IInv /\ [Next]_vars => TypeOK /\ TypeOK' /\ Fields /\ Fields'
<1>1. TypeOK' => Fields'
  BY FieldTypes, PTL
<1> QED
  BY <1>1, FieldTypes, TypeStep, Zenon DEF IInv

\* A step that neither touches a row, nor gives a drone or a message a
\* deadline, nor starts a backend.
Quiet ==
  /\ UNCHANGED <<now, keyRow, backend>>
  /\ reported \subseteq reported' /\ late \subseteq late' /\ orphaned \subseteq orphaned'
  /\ renewReqs' \subseteq renewReqs /\ renewResps' \subseteq renewResps
  /\ \A b \in Backends : handles'[b] \in {None, handles[b]}
  /\ \A b \in Backends : exec'[b] # "none" => exec[b] # "none"

\* Every step of the system is one of nine that matter to a lease, or quiet.
LEMMA StepKinds ==
  ASSUME TypeOK, [Next]_vars
  PROVE  \/ Tick
         \/ \E c \in Connectors : RemoveKey(c)
         \/ \E c \in Connectors, b \in Backends : InsertBackend(c, b)
         \/ \E r \in renewReqs : HandleRenewKey(r)
         \/ \E b \in Backends : HandleTerminated(b)
         \/ \E k \in Keys : prevent_renew(k)
         \/ \E b \in Backends : HandleSpawn(b)
         \/ \E b \in Backends : RenewStep(b)
         \/ \E r \in renewResps : HandleRenewKeyResponse(r)
         \/ Quiet
<1> USE DEF Quiet, dbVars, droneVars, netVars
<1>1. ASSUME NEW c \in Connectors, NEW k \in Keys, CheckKey(c, k) PROVE Quiet
  BY <1>1, Zenon DEF CheckKey
<1>2. ASSUME NEW c \in Connectors, NEW d \in Drones, NEW s \in 0..MaxTime, PickDrone(c, d, s)
      PROVE Quiet
  BY <1>2, Zenon DEF PickDrone
<1>3. ASSUME NEW c \in Connectors, NoSpawn(c) \/ BeginTxn(c) PROVE Quiet
  BY <1>3, Zenon DEF NoSpawn, BeginTxn
<1>4. ASSUME NEW b \in Backends, StartContainer(b) \/ SoftStep(b) \/ HardStep(b) PROVE Quiet
  BY <1>4, Zenon DEF StartContainer, SoftStep, HardStep, TypeOK
<1>5. ASSUME NEW b \in Backends, Terminated(b) \/ OrphanExits(b) PROVE Quiet
  BY <1>5, Zenon DEF Terminated, OrphanExits, TypeOK
<1>6. ASSUME NEW d \in Drones, NEW S \in SUBSET Backends, Reconnect(d, S) \/ Restart(d, S) PROVE Quiet
  BY <1>6 DEF Reconnect, Replayable, Restart, TypeOK
<1>7. ASSUME NEW d \in Drones, Crash(d) PROVE Quiet
  BY <1>7, Zenon DEF Crash, TypeOK
<1>8. CASE NetworkNext
  BY <1>8, Zenon DEF NetworkNext, LoseRequest, LoseResponse
<1>9. CASE UNCHANGED vars
  BY <1>9, Zenon DEF vars
<1> QED
  BY <1>1, <1>2, <1>3, <1>4, <1>5, <1>6, <1>7, <1>8, <1>9, Zenon
  DEF Next, ConnectNext, ControllerNext, DroneNext, BackendNext

\* Rows keep their holder and do not expire earlier.
RowsExtended ==
  \A k \in Keys : keyRow[k] # None =>
    /\ keyRow'[k] # None
    /\ keyRow'[k].id = keyRow[k].id
    /\ keyRow[k].expires_at <= keyRow'[k].expires_at

\* renew_key only moves the expiration of a row forward.
LEMMA RenewExtends ==
  ASSUME TypeOK, RowsOK, NEW r \in renewReqs, HandleRenewKey(r)
  PROVE  RowsExtended
<1> DEFINE k == backend[r.backend].key
           t == now + KEY_LEASE_EXPIRATION
<1>1. CASE keyRow' = keyRow
  BY <1>1, FieldTypes DEF RowsExtended, Fields
<1>2. CASE keyRow' # keyRow
  <2>1. keyRow' = [keyRow EXCEPT ![k].expires_at = t] /\ keyRow[k] # None /\ keyRow[k].id = r.backend
    BY <1>2, Zenon DEF HandleRenewKey, HasRow
  <2>2. CASE k \in Keys
    <3>1. keyRow[k] \in BackendKey /\ t \in Int
      BY <2>1, <2>2, LeaseConstants DEF TypeOK
    <3>2. keyRow[k].expires_at <= t
      BY <2>1, <2>2, Zenon DEF RowsOK
    <3>3. keyRow'[k] = [keyRow[k] EXCEPT !.expires_at = t]
      BY <2>1, <2>2, Zenon DEF TypeOK
    <3>4. /\ keyRow'[k] \in BackendKey
          /\ keyRow'[k].id = keyRow[k].id
          /\ keyRow'[k].expires_at = t
      BY <3>1, <3>3, Zenon DEF BackendKey
    <3>5. \A j \in Keys \ {k} : keyRow'[j] = keyRow[j]
      BY <2>1, Zenon DEF TypeOK
    <3> HIDE DEF k, t
    <3> QED
      BY <3>2, <3>4, <3>5, NoneIsNoRecord, FieldTypes DEF RowsExtended, Fields
  <2>3. CASE k \notin Keys
    BY <2>1, <2>3, FieldTypes DEF RowsExtended, Fields, TypeOK
  <2> QED
    BY <2>2, <2>3, Zenon
<1> QED
  BY <1>1, <1>2, Zenon

\* prevent_renew leaves holder and expiration of every row alone.
LEMMA PreventExtends ==
  ASSUME TypeOK, NEW k \in Keys, prevent_renew(k)
  PROVE  RowsExtended /\ \A j \in Keys : keyRow'[j] # None =>
           keyRow[j] # None /\ keyRow'[j].id = keyRow[j].id /\ keyRow'[j].expires_at = keyRow[j].expires_at
<1>1. keyRow[k] \in BackendKey
  BY Zenon DEF prevent_renew, TypeOK
<1>2. keyRow'[k] = [keyRow[k] EXCEPT !.allow_renew = FALSE]
  BY Zenon DEF prevent_renew, TypeOK
<1>3. /\ keyRow[k] # None /\ keyRow'[k] # None
      /\ keyRow'[k].id = keyRow[k].id
      /\ keyRow'[k].expires_at = keyRow[k].expires_at
  BY <1>1, <1>2, RowUpdateType, NoneIsNoRecord, Zenon DEF BackendKey
<1>4. \A j \in Keys \ {k} : keyRow'[j] = keyRow[j]
  BY Zenon DEF prevent_renew, TypeOK
<1> QED
  BY <1>3, <1>4, FieldTypes DEF RowsExtended, Fields

-----------------------------------------------------------------------------
(* Conjuncts of the inductive invariant, one lemma each *)

\* Once covered, a deadline stays covered: the row that covers it is only
\* extended, deleted after the report of the backend, or removed when it has
\* expired, and then the deadline is past as well.
LEMMA CoveredKept ==
  ASSUME IInv, [Next]_vars, NEW b \in Backends, NEW h \in Int, backend[b] # None, Covered(b, h)
  PROVE  Covered(b, h)'
<1> TypeOK /\ TypeOK' /\ Fields /\ Fields'
  BY StepTypes, Zenon
<1> USE DEF dbVars, droneVars, netVars, Covered, HasRow, RowExpires, DroneOf
<1>1. CASE Tick
  BY <1>1, SMTT(20) DEF Tick, Fields
<1>2. ASSUME NEW c \in Connectors, RemoveKey(c) PROVE Covered(b, h)'
  <2>1. \/ keyRow' = keyRow
        \/ /\ keyRow[conn[c].key] # None
           /\ keyRow[conn[c].key].expires_at < now
           /\ keyRow' = [keyRow EXCEPT ![conn[c].key] = None]
    BY <1>2, Zenon DEF RemoveKey, Removable
  <2>2. conn[c].key \in Keys
    BY <1>2, Zenon DEF RemoveKey, Removable, IInv, ConnOK
  <2>3. reported' = reported /\ backend' = backend /\ now' = now
    BY <1>2, Zenon DEF RemoveKey
  <2>4. backend[b].key \in Keys /\ keyRow \in [Keys -> BackendKey \cup {None}]
    BY Zenon DEF Fields, TypeOK
  <2>5. CASE keyRow'[backend[b].key] = keyRow[backend[b].key]
    BY <2>3, <2>5, Zenon
  <2>6. CASE keyRow'[backend[b].key] # keyRow[backend[b].key]
    <3>1. keyRow[backend[b].key] # None /\ keyRow[backend[b].key].expires_at < now
      BY <2>1, <2>2, <2>4, <2>6, Zenon
    <3>2. /\ keyRow[backend[b].key].expires_at \in Int /\ now \in Int
          /\ Offset[DroneOf(b)] \in Int /\ Gap \in Int
      BY <2>4, <3>1 DEF Fields
    <3> QED  BY <2>3, <3>1, <3>2
  <2> QED  BY <2>5, <2>6, Zenon
<1>3. ASSUME NEW c \in Connectors, NEW b2 \in Backends, InsertBackend(c, b2) PROVE Covered(b, h)'
  <2>1. backend'[b] = backend[b]
    BY <1>3, Zenon DEF InsertBackend, Insertable, TypeOK
  <2>2. conn[c].key \in Keys
    BY <1>3, Zenon DEF InsertBackend, Insertable, IInv, ConnOK
  <2>3. HasRow(b) => keyRow'[backend[b].key] = keyRow[backend[b].key]
    BY <1>3, <2>2, Zenon DEF InsertBackend, Insertable, TypeOK, Fields
  <2> QED
    BY <1>3, <2>1, <2>3, Zenon DEF InsertBackend, Insertable
<1>4. ASSUME NEW r \in renewReqs, HandleRenewKey(r) PROVE Covered(b, h)'
  <2>1. RowsExtended
    BY <1>4, RenewExtends, Zenon DEF IInv
  <2> QED
    BY <1>4, <2>1 DEF HandleRenewKey, HasRow, RowsExtended, Fields
<1>5. ASSUME NEW b2 \in Backends, HandleTerminated(b2) PROVE Covered(b, h)'
  BY <1>5 DEF HandleTerminated, HasRow, Fields, TypeOK, IInv, DroneOK
<1>6. ASSUME NEW k \in Keys, prevent_renew(k) PROVE Covered(b, h)'
  <2>1. RowsExtended
    BY <1>6, PreventExtends, Zenon
  <2> QED
    BY <1>6, <2>1 DEF prevent_renew, RowsExtended, Fields
<1>7. ASSUME NEW b2 \in Backends, HandleSpawn(b2) \/ RenewStep(b2) PROVE Covered(b, h)'
  BY <1>7, Zenon DEF HandleSpawn, RenewStep
<1>8. ASSUME NEW r \in renewResps, HandleRenewKeyResponse(r) PROVE Covered(b, h)'
  BY <1>8, Zenon DEF HandleRenewKeyResponse
<1>9. CASE Quiet
  BY <1>9, Zenon DEF Quiet
<1> QED
  BY <1>1, <1>2, <1>3, <1>4, <1>5, <1>6, <1>7, <1>8, <1>9, StepKinds, Zenon

\* Every row names a backend of its own key, and no row is held longer than
\* KEY_LEASE_EXPIRATION from now.
LEMMA RowsStep == IInv /\ [Next]_vars => RowsOK'
<1> SUFFICES ASSUME IInv, [Next]_vars PROVE RowsOK'
  BY Zenon
<1> TypeOK /\ TypeOK' /\ Fields /\ Fields'
  BY StepTypes, Zenon
<1> USE DEF dbVars, droneVars, netVars
<1>1. CASE Tick
  BY <1>1, LeaseConstants DEF Tick, IInv, RowsOK, Fields
<1>2. ASSUME NEW c \in Connectors, RemoveKey(c) PROVE RowsOK'
  BY <1>2, Zenon DEF RemoveKey, Removable, IInv, RowsOK, ConnOK, TypeOK
<1>3. ASSUME NEW c \in Connectors, NEW b \in Backends, InsertBackend(c, b) PROVE RowsOK'
  <2>1. CASE keyRow[conn[c].key] # None
    BY <1>3, <2>1, Zenon DEF InsertBackend, Insertable, IInv, RowsOK
  <2>2. CASE keyRow[conn[c].key] = None
    <3>1. /\ conn[c].key \in Keys /\ conn[c].asOf <= now
          /\ conn[c].asOf \in Int /\ conn[c].base \in Int
      BY <1>3, Zenon DEF InsertBackend, Insertable, IInv, ConnOK, TypeOK, ConnectState
    <3>2. /\ keyRow'[conn[c].key].id = b
          /\ keyRow'[conn[c].key].expires_at = conn[c].asOf + KEY_LEASE_EXPIRATION
          /\ \A k \in Keys \ {conn[c].key} : keyRow'[k] = keyRow[k]
      BY <1>3, <2>2, <3>1 DEF InsertBackend, Insertable, TypeOK
    <3>3. /\ backend'[b] # None /\ backend'[b].key = conn[c].key
          /\ backend'[b].deadlines = AcquiredDeadlines(conn[c].base)
          /\ \A b2 \in Backends \ {b} : backend'[b2] = backend[b2]
      <4>1. backend'[b] = [key |-> conn[c].key, drone |-> conn[c].drone, token |-> conn[c].asOf,
                           deadlines |-> AcquiredDeadlines(conn[c].base)]
        BY <1>3, <2>2, Zenon DEF InsertBackend, Insertable, TypeOK
      <4>2. [key |-> conn[c].key, drone |-> conn[c].drone, token |-> conn[c].asOf,
             deadlines |-> AcquiredDeadlines(conn[c].base)] \in BackendRow
        BY <1>3, <3>1, LeaseConstants
        DEF InsertBackend, Insertable, IInv, ConnOK, BackendRow, KeyDeadlines, AcquiredDeadlines
      <4> QED
        BY <1>3, <2>2, <4>1, <4>2, NoneIsNoRecord DEF InsertBackend, Insertable, TypeOK
    <3> QED
      BY <1>3, <3>1, <3>2, <3>3, LeaseConstants
      DEF InsertBackend, Insertable, IInv, RowsOK, Fields, AcquiredDeadlines
  <2> QED
    BY <2>1, <2>2, Zenon
<1>4. ASSUME NEW r \in renewReqs, HandleRenewKey(r) PROVE RowsOK'
  <2>1. RowsExtended
    BY <1>4, RenewExtends, Zenon DEF IInv
  <2>2. \A k \in Keys : keyRow'[k] # None => keyRow[k] # None
    BY <1>4, Zenon DEF HandleRenewKey, HasRow, TypeOK
  <2>3. \A k \in Keys : keyRow'[k] # None => keyRow'[k].expires_at <= now + KEY_LEASE_EXPIRATION
    BY <1>4, LeaseConstants DEF HandleRenewKey, HasRow, TypeOK, IInv, RowsOK, Fields, BackendKey
  <2> QED
    BY <1>4, <2>1, <2>2, <2>3, Zenon DEF HandleRenewKey, HasRow, RowsExtended, IInv, RowsOK
<1>5. ASSUME NEW b \in Backends, HandleTerminated(b) PROVE RowsOK'
  BY <1>5, Zenon DEF HandleTerminated, HasRow, IInv, RowsOK, TypeOK
<1>6. ASSUME NEW k \in Keys, prevent_renew(k) PROVE RowsOK'
  BY <1>6, PreventExtends, Zenon DEF prevent_renew, IInv, RowsOK
<1>7. ASSUME NEW b \in Backends, HandleSpawn(b) \/ RenewStep(b) PROVE RowsOK'
  BY <1>7, Zenon DEF HandleSpawn, RenewStep, IInv, RowsOK
<1>8. ASSUME NEW r \in renewResps, HandleRenewKeyResponse(r) PROVE RowsOK'
  BY <1>8, Zenon DEF HandleRenewKeyResponse, IInv, RowsOK
<1>9. CASE Quiet
  BY <1>9, Zenon DEF Quiet, IInv, RowsOK
<1> QED
  BY <1>1, <1>2, <1>3, <1>4, <1>5, <1>6, <1>7, <1>8, <1>9, StepKinds, Zenon

\* A connect() in progress knows its key; from the pick of the drone on, the
\* local time it works with is no later than the transaction's now().
LEMMA ConnStep == IInv /\ [Next]_vars => ConnOK'
<1> SUFFICES ASSUME IInv, [Next]_vars PROVE ConnOK'
  BY Zenon
<1> TypeOK /\ TypeOK' /\ now \in Int /\ now' \in Int
  BY StepTypes, Zenon DEF Fields
<1>a. IdleConn.pc = "idle"
  BY Zenon DEF IdleConn
<1> USE DEF dbVars, droneVars, netVars
<1>0. CASE UNCHANGED <<now, conn>>
  BY <1>0, Zenon DEF IInv, ConnOK
<1>1. CASE Tick
  BY <1>1, OtherConstants DEF Tick, IInv, ConnOK, TypeOK, ConnectState
<1>2. ASSUME NEW c \in Connectors, NEW k \in Keys, CheckKey(c, k) PROVE ConnOK'
  BY <1>2, Zenon DEF CheckKey, IInv, ConnOK, TypeOK, IdleConn
<1>3. ASSUME NEW c \in Connectors, RemoveKey(c) PROVE ConnOK'
  BY <1>3 DEF RemoveKey, Removable, IInv, ConnOK, TypeOK, IdleConn, ConnectState
<1>4. ASSUME NEW c \in Connectors, NEW d \in Drones, NEW s \in 0..MaxTime, PickDrone(c, d, s)
      PROVE ConnOK'
  BY <1>4, OtherConstants DEF PickDrone, IInv, ConnOK, TypeOK, ConnectState
<1>5. ASSUME NEW c \in Connectors, now' = now, conn' = [conn EXCEPT ![c] = IdleConn]
      PROVE ConnOK'
  <2>1. ASSUME NEW x \in Connectors PROVE conn'[x] = conn[x] \/ conn'[x].pc = "idle"
    BY <1>a, <1>5, <2>1, Zenon DEF TypeOK
  <2> QED
    BY <1>5, <2>1, Zenon DEF IInv, ConnOK
<1>6. ASSUME NEW c \in Connectors, BeginTxn(c) PROVE ConnOK'
  BY <1>6, SMTT(20) DEF BeginTxn, IInv, ConnOK, TypeOK, ConnectState
<1>7. CASE ControllerNext
  BY <1>0, <1>7, Zenon DEF ControllerNext, HandleRenewKey, HandleTerminated, HasRow, prevent_renew
<1>8. ASSUME NEW b \in Backends, BackendNext(b) PROVE UNCHANGED <<now, conn>>
  BY <1>8, Zenon DEF BackendNext, HandleSpawn, StartContainer, RenewStep, SoftStep, HardStep, Terminated,
              OrphanExits
<1>9. CASE DroneNext
  BY <1>0, <1>8, <1>9, Zenon DEF DroneNext, HandleRenewKeyResponse, Reconnect, Replayable, Crash, Restart
<1>10. CASE NetworkNext
  BY <1>0, <1>10, Zenon DEF NetworkNext, LoseRequest, LoseResponse
<1>11. CASE UNCHANGED vars
  BY <1>0, <1>11, Zenon DEF vars
<1> QED
  BY <1>1, <1>2, <1>3, <1>4, <1>5, <1>6, <1>7, <1>9, <1>10, <1>11, Zenon
  DEF Next, ConnectNext, NoSpawn, InsertBackend, Insertable

\* A drone has a handle, runs, stores or has reported only what was scheduled
\* to it, and what it runs it has a handle for, unless the backend was
\* reported terminated or left behind by a crash.
LEMMA DroneStep == IInv /\ [Next]_vars => DroneOK'
<1> SUFFICES ASSUME IInv, [Next]_vars PROVE DroneOK'
  BY Zenon
<1> TypeOK /\ TypeOK' /\ Fields
  BY StepTypes, Zenon
<1> USE DEF dbVars, droneVars, netVars, DroneOf, OnDrone
<1>0. CASE UNCHANGED <<backend, up, handles, exec, stored, reported, orphaned>>
  BY <1>0, Zenon DEF IInv, DroneOK
<1>1. ASSUME NEW c \in Connectors, NEW b \in Backends, InsertBackend(c, b) PROVE DroneOK'
  <2>1. ASSUME NEW x \in Backends, backend[x] # None PROVE backend'[x] = backend[x]
    BY <1>1, <2>1, Zenon DEF InsertBackend, Insertable, TypeOK
  <2> QED
    BY <1>1, <2>1, Zenon DEF InsertBackend, Insertable, IInv, DroneOK, TypeOK
<1>2. CASE ConnectNext
  BY <1>0, <1>1, <1>2, ZenonT(60) DEF ConnectNext, CheckKey, RemoveKey, Removable, PickDrone, NoSpawn, BeginTxn
<1>3. CASE ControllerNext
  BY <1>0, <1>3, Zenon DEF ControllerNext, HandleRenewKey, HandleTerminated, HasRow, prevent_renew
<1>4. ASSUME NEW b \in Backends, HandleSpawn(b) PROVE DroneOK'
  BY <1>4, NoneIsNoRecord DEF HandleSpawn, IInv, DroneOK, TypeOK, Fields
<1>5. ASSUME NEW b \in Backends, StartContainer(b) \/ SoftStep(b) \/ HardStep(b) PROVE DroneOK'
  BY <1>5 DEF StartContainer, SoftStep, HardStep, IInv, DroneOK, TypeOK
<1>6. ASSUME NEW b \in Backends, RenewStep(b) PROVE DroneOK'
  BY <1>0, <1>6, Zenon DEF RenewStep
<1>7. ASSUME NEW b \in Backends, Terminated(b) \/ OrphanExits(b) PROVE DroneOK'
  BY <1>7 DEF Terminated, OrphanExits, IInv, DroneOK, TypeOK
<1>8. ASSUME NEW r \in renewResps, HandleRenewKeyResponse(r) PROVE DroneOK'
  <2>1. \A b \in Backends : handles'[b] # None <=> handles[b] # None
    BY <1>8, NoneIsNoRecord DEF HandleRenewKeyResponse, TypeOK
  <2> QED
    BY <1>8, <2>1, Zenon DEF HandleRenewKeyResponse, IInv, DroneOK
<1>9. ASSUME NEW d \in Drones, NEW S \in SUBSET Backends, Reconnect(d, S) PROVE DroneOK'
  BY <1>9, Zenon DEF Reconnect, Replayable, IInv, DroneOK, TypeOK
<1>10. ASSUME NEW d \in Drones, Crash(d) PROVE DroneOK'
  <2>1. ASSUME NEW b \in Backends, handles'[b] # None PROVE backend'[b] # None /\ up'[DroneOf(b)']
    BY <1>10, <2>1, Zenon DEF Crash, IInv, DroneOK, TypeOK, Fields
  <2>2. ASSUME NEW b \in Backends, exec'[b] # "none"
        PROVE backend'[b] # None /\ (handles'[b] # None \/ b \in reported' \cup orphaned')
    BY <1>10, <2>2, Zenon DEF Crash, IInv, DroneOK, TypeOK
  <2> QED
    BY <1>10, <2>1, <2>2, Zenon DEF Crash, IInv, DroneOK
<1>11. ASSUME NEW d \in Drones, NEW S \in SUBSET Backends, Restart(d, S) PROVE DroneOK'
  <2>1. ASSUME NEW b \in Backends, handles'[b] # None PROVE backend'[b] # None /\ up'[DroneOf(b)']
    BY <1>11, <2>1, Zenon DEF Restart, IInv, DroneOK, TypeOK, Fields
  <2>2. ASSUME NEW b \in Backends, exec'[b] # "none"
        PROVE backend'[b] # None /\ (handles'[b] # None \/ b \in reported' \cup orphaned')
    BY <1>11, <2>2, Zenon DEF Restart, IInv, DroneOK, TypeOK
  <2> QED
    BY <1>11, <2>1, <2>2, Zenon DEF Restart, IInv, DroneOK
<1>12. CASE Tick \/ NetworkNext \/ UNCHANGED vars
  BY <1>0, <1>12, Zenon DEF Tick, NetworkNext, LoseRequest, LoseResponse, vars
<1> QED
  BY <1>2, <1>3, <1>4, <1>5, <1>6, <1>7, <1>8, <1>9, <1>10, <1>11, <1>12, Zenon
  DEF Next, DroneNext, BackendNext

-----------------------------------------------------------------------------
(* The other conjuncts of the inductive invariant *)

\* Every hard deadline a drone has, or can still get from its Spawn action or
\* from a renewal on its way, is covered.
LEMMA LeasesStep == IInv /\ [Next]_vars => LeasesCovered'
<1> SUFFICES ASSUME IInv, [Next]_vars PROVE LeasesCovered'
  BY Zenon
<1> TypeOK /\ TypeOK' /\ Fields /\ Fields'
  BY StepTypes, Zenon
<1> DEFINE
      Spawns == \A b \in Backends : backend[b] # None =>
                  Covered(b, backend[b].deadlines.hard_terminate_at)
      Handles == \A b \in Backends : handles[b] # None => Covered(b, handles[b].hard_terminate_at)
      Resps == \A r \in renewResps : backend[r.backend] # None /\
                  Covered(r.backend, r.deadlines.hard_terminate_at)
      Reqs == \A r \in renewReqs : backend[r.backend] # None /\
                  r.local_time <= LocalTime(DroneOf(r.backend))
<1>a. Spawns /\ Handles /\ Resps /\ Reqs
  BY Zenon DEF IInv, LeasesCovered
<1>b. LeasesCovered' <=> Spawns' /\ Handles' /\ Resps' /\ Reqs'
  BY Zenon DEF LeasesCovered
<1>c. \A b \in Backends, h \in Int : backend[b] # None /\ Covered(b, h) => Covered(b, h)'
  BY CoveredKept
<1>d. \A b \in Backends : handles[b] # None => backend[b] # None
  BY Zenon DEF IInv, DroneOK
<1>e. ASSUME backend' = backend PROVE Spawns'
  BY <1>a, <1>c, <1>e, Zenon DEF Covered, HasRow, RowExpires, DroneOf, Fields
<1>f. ASSUME \A b \in Backends : handles'[b] \in {None, handles[b]} PROVE Handles'
  BY <1>a, <1>c, <1>d, <1>f, Zenon DEF Covered, HasRow, RowExpires, DroneOf, Fields
<1>g. ASSUME renewResps' \subseteq renewResps, \A b \in Backends : backend[b] # None => backend'[b] = backend[b]
      PROVE Resps'
  BY <1>a, <1>c, <1>g, Zenon DEF Covered, HasRow, RowExpires, DroneOf, Fields
<1>h. ASSUME renewReqs' \subseteq renewReqs, now <= now',
             \A b \in Backends : backend[b] # None => backend'[b] = backend[b]
      PROVE Reqs'
  BY <1>a, <1>h DEF DroneOf, LocalTime, Fields
<1> HIDE DEF Spawns, Handles, Resps, Reqs
<1> USE DEF dbVars, droneVars, netVars
<1>i. ASSUME backend' = backend, now <= now', renewReqs' \subseteq renewReqs, renewResps' \subseteq renewResps,
             \A b \in Backends : handles'[b] \in {None, handles[b]}
      PROVE LeasesCovered'
  BY <1>b, <1>e, <1>f, <1>g, <1>h, <1>i, Zenon
<1>j. now <= now
  BY DEF Fields
<1>1. CASE Tick \/ Quiet
  BY <1>1, <1>i DEF Tick, Quiet, Fields
<1>7. ASSUME NEW c \in Connectors, RemoveKey(c) PROVE LeasesCovered'
  BY <1>7, <1>i, <1>j, Zenon DEF RemoveKey, Removable
<1>8. ASSUME NEW b \in Backends, HandleTerminated(b) PROVE LeasesCovered'
  BY <1>8, <1>i, <1>j, ZenonT(20) DEF HandleTerminated, HasRow, TypeOK
<1>9. ASSUME NEW k \in Keys, prevent_renew(k) PROVE LeasesCovered'
  BY <1>9, <1>i, <1>j, Zenon DEF prevent_renew
<1>2. ASSUME NEW c \in Connectors, NEW b \in Backends, InsertBackend(c, b) PROVE LeasesCovered'
  <2>1. \A x \in Backends : backend[x] # None => backend'[x] = backend[x]
    BY <1>2, Zenon DEF InsertBackend, Insertable, TypeOK
  <2>2. CASE keyRow[conn[c].key] # None
    BY <1>2, <2>1, <2>2, <1>i, <1>j, Zenon DEF InsertBackend, Insertable
  <2>3. CASE keyRow[conn[c].key] = None
    <3>1. /\ conn[c].key \in Keys /\ conn[c].drone \in Drones
          /\ conn[c].asOf \in Int /\ conn[c].base \in Int
          /\ conn[c].base - Offset[conn[c].drone] <= conn[c].asOf
          /\ Offset[conn[c].drone] \in Int
      BY <1>2, OtherConstants, Zenon DEF InsertBackend, Insertable, IInv, ConnOK, TypeOK, ConnectState
    <3>2. /\ keyRow'[conn[c].key] = [id |-> b, allow_renew |-> TRUE,
                                     expires_at |-> conn[c].asOf + KEY_LEASE_EXPIRATION]
          /\ backend'[b] = [key |-> conn[c].key, drone |-> conn[c].drone, token |-> conn[c].asOf,
                            deadlines |-> AcquiredDeadlines(conn[c].base)]
          /\ \A x \in Backends \ {b} : backend'[x] = backend[x]
      BY <1>2, <2>3, <3>1, Zenon DEF InsertBackend, Insertable, TypeOK
    <3>3. [id |-> b, allow_renew |-> TRUE, expires_at |-> conn[c].asOf + KEY_LEASE_EXPIRATION] \in BackendKey
      BY <3>1, LeaseConstants DEF BackendKey
    <3>4. Covered(b, backend[b].deadlines.hard_terminate_at)'
      BY <3>1, <3>2, <3>3, LeaseConstants, NoneIsNoRecord
      DEF Covered, HasRow, RowExpires, DroneOf, Gap, AcquiredDeadlines
    <3>5. Spawns'
      BY <1>a, <1>c, <3>2, <3>4, Zenon DEF Spawns, Covered, HasRow, RowExpires, DroneOf, Fields
    <3> QED
      BY <1>2, <2>1, <3>5, <1>b, <1>f, <1>g, <1>h, <1>j, Zenon DEF InsertBackend, Insertable
  <2> QED
    BY <2>2, <2>3, Zenon
<1>3. ASSUME NEW r \in renewReqs, HandleRenewKey(r) PROVE LeasesCovered'
  <2> DEFINE k == backend[r.backend].key
             new == [backend |-> r.backend, deadlines |-> RenewedDeadlines(r.local_time)]
  <2>1. CASE renewResps' = renewResps
    BY <1>3, <2>1, <1>i, <1>j, Zenon DEF HandleRenewKey, HasRow
  <2>2. CASE renewResps' # renewResps
    <3>1. /\ keyRow[k] # None /\ keyRow[k].id = r.backend
          /\ keyRow' = [keyRow EXCEPT ![k].expires_at = now + KEY_LEASE_EXPIRATION]
          /\ renewResps' = renewResps \cup {new}
          /\ backend' = backend
      BY <1>3, <2>2, Zenon DEF HandleRenewKey, HasRow
    <3>2. /\ r.backend \in Backends /\ backend[r.backend] # None /\ r.local_time \in Int
          /\ k \in Keys /\ backend[r.backend].drone \in Drones
          /\ Offset[DroneOf(r.backend)] \in Int
          /\ r.local_time <= now + Offset[DroneOf(r.backend)]
      BY <1>a, Zenon DEF Reqs, Fields, LocalTime
    <3>3. keyRow[k] \in BackendKey
      BY <3>1, <3>2 DEF TypeOK
    <3>4. keyRow'[k] = [keyRow[k] EXCEPT !.expires_at = now + KEY_LEASE_EXPIRATION]
      BY <3>1, <3>2, Zenon DEF TypeOK
    <3>5. /\ keyRow'[k] \in BackendKey
          /\ keyRow'[k].id = r.backend
          /\ keyRow'[k].expires_at = now + KEY_LEASE_EXPIRATION
      BY <3>1, <3>3, <3>4, LeaseConstants DEF BackendKey, Fields
    <3>6. /\ new.backend = r.backend
          /\ new.deadlines.hard_terminate_at = r.local_time + KEY_LEASE_HARD_TERMINATE_AFTER
      BY DEF RenewedDeadlines
    <3> HIDE DEF new
    <3>7. backend'[new.backend] # None /\ Covered(new.backend, new.deadlines.hard_terminate_at)'
      BY <1>3, <3>1, <3>2, <3>5, <3>6, LeaseConstants, NoneIsNoRecord
      DEF HandleRenewKey, Covered, HasRow, RowExpires, DroneOf, Gap, Fields
    <3>8. Resps'
      BY <1>a, <1>c, <3>1, <3>7, Zenon DEF Resps, Covered, HasRow, RowExpires, DroneOf, Fields
    <3> QED
      BY <1>3, <3>8, <1>b, <1>e, <1>f, <1>h, <1>j, Zenon DEF HandleRenewKey, HasRow
  <2> QED
    BY <2>1, <2>2, Zenon
<1>4. ASSUME NEW b \in Backends, HandleSpawn(b) PROVE LeasesCovered'
  <2>1. Handles'
    BY <1>4, <1>a, <1>c, <1>d DEF HandleSpawn, Spawns, Handles, Covered, HasRow, RowExpires, DroneOf, Fields, TypeOK
  <2> QED
    BY <1>4, <2>1, <1>b, <1>e, <1>g, <1>h, <1>j, Zenon DEF HandleSpawn
<1>5. ASSUME NEW b \in Backends, RenewStep(b) PROVE LeasesCovered'
  <2>1. Reqs'
    BY <1>5, <1>a DEF RenewStep, Reqs, LocalTime, DroneOf, Fields
  <2> QED
    BY <1>5, <2>1, <1>b, <1>e, <1>f, <1>g, Zenon DEF RenewStep
<1>6. ASSUME NEW r \in renewResps, HandleRenewKeyResponse(r) PROVE LeasesCovered'
  <2>1. Handles'
    BY <1>6, <1>a, <1>c, <1>d
    DEF HandleRenewKeyResponse, Resps, Handles, Covered, HasRow, RowExpires, DroneOf, Fields, TypeOK
  <2> QED
    BY <1>6, <2>1, <1>b, <1>e, <1>g, <1>h, <1>j, Zenon DEF HandleRenewKeyResponse
<1> QED
  BY <1>1, <1>2, <1>3, <1>4, <1>5, <1>6, <1>7, <1>8, <1>9, StepKinds, Zenon

\* A backend its drone may be running has its row, unexpired: time does not
\* pass the row's expiration while the backend is alive, because the kill is
\* due before; and a backend is spawned in time or counted as late.
LEMMA RunningStep == IInv /\ [Next]_vars => RunningHasRow'
<1> SUFFICES ASSUME IInv, [Next]_vars,
                    NEW b \in Backends, b \notin reported' \cup late' \cup orphaned', exec'[b] # "none"
             PROVE  (HasRow(b) /\ now <= RowExpires(b))'
  BY Zenon DEF RunningHasRow
<1> TypeOK /\ TypeOK' /\ Fields /\ Fields'
  BY StepTypes, Zenon
<1> USE DEF dbVars, droneVars, netVars
<1>a. ASSUME b \notin reported \cup late \cup orphaned, exec[b] # "none"
      PROVE  /\ HasRow(b) /\ now <= RowExpires(b)
             /\ backend[b] # None /\ handles[b] # None /\ up[DroneOf(b)]
             /\ Covered(b, handles[b].hard_terminate_at)
  BY <1>a, Zenon DEF IInv, RunningHasRow, DroneOK, LeasesCovered
<1>b. ASSUME b \notin reported \cup late \cup orphaned, exec[b] # "none", now' = now, backend' = backend,
             RowsExtended
      PROVE  (HasRow(b) /\ now <= RowExpires(b))'
  BY <1>a, <1>b DEF RowsExtended, HasRow, RowExpires, Fields
<1>1. CASE Tick
  <2>1. b \notin reported \cup late \cup orphaned /\ exec[b] # "none" /\ ~KillIsDue(b)
    BY <1>1, Zenon DEF Tick
  <2>2. now < handles[b].hard_terminate_at - Offset[DroneOf(b)] + Gap
    BY <1>a, <2>1, KillFitsInGap DEF KillIsDue, LocalTime, Gap, Fields
  <2>3. now < RowExpires(b)
    BY <1>a, <2>1, <2>2 DEF Covered, HasRow, RowExpires, Fields
  <2> QED
    BY <1>1, <1>a, <2>1, <2>3 DEF Tick, HasRow, RowExpires, Fields
<1>2. ASSUME NEW c \in Connectors, RemoveKey(c) PROVE (HasRow(b) /\ now <= RowExpires(b))'
  <2>1. b \notin reported \cup late \cup orphaned /\ exec[b] # "none"
    BY <1>2, Zenon DEF RemoveKey, Removable
  <2>2. \/ keyRow' = keyRow
        \/ /\ keyRow[conn[c].key] # None
           /\ keyRow[conn[c].key].expires_at < now
           /\ keyRow' = [keyRow EXCEPT ![conn[c].key] = None]
    BY <1>2, Zenon DEF RemoveKey, Removable
  <2>3. keyRow'[backend[b].key] = keyRow[backend[b].key]
    BY <1>a, <2>1, <2>2 DEF HasRow, RowExpires, Fields, TypeOK
  <2> QED
    BY <1>2, <1>a, <2>1, <2>3, Zenon DEF RemoveKey, Removable, HasRow, RowExpires
<1>3. ASSUME NEW c \in Connectors, NEW x \in Backends, InsertBackend(c, x)
      PROVE (HasRow(b) /\ now <= RowExpires(b))'
  <2>1. b \notin reported \cup late \cup orphaned /\ exec[b] # "none"
    BY <1>3, Zenon DEF InsertBackend, Insertable
  <2>2. backend'[b] = backend[b]
    BY <1>3, <1>a, <2>1, Zenon DEF InsertBackend, Insertable, TypeOK
  <2>3. keyRow'[backend[b].key] = keyRow[backend[b].key]
    BY <1>3, <1>a, <2>1 DEF InsertBackend, Insertable, HasRow, Fields, TypeOK
  <2> QED
    BY <1>3, <1>a, <2>1, <2>2, <2>3, Zenon DEF InsertBackend, Insertable, HasRow, RowExpires
<1>4. ASSUME NEW r \in renewReqs, HandleRenewKey(r) PROVE (HasRow(b) /\ now <= RowExpires(b))'
  <2>1. RowsExtended
    BY <1>4, RenewExtends, Zenon DEF IInv
  <2> QED
    BY <1>4, <1>b, <2>1, Zenon DEF HandleRenewKey, HasRow
<1>5. ASSUME NEW x \in Backends, HandleTerminated(x) PROVE (HasRow(b) /\ now <= RowExpires(b))'
  <2>1. b \notin reported \cup late \cup orphaned /\ exec[b] # "none" /\ b # x
    BY <1>5, Zenon DEF HandleTerminated, HasRow
  <2>2. keyRow'[backend[b].key] = keyRow[backend[b].key]
    BY <1>5, <1>a, <2>1, Zenon DEF HandleTerminated, HasRow, Fields, TypeOK
  <2> QED
    BY <1>5, <1>a, <2>1, <2>2, Zenon DEF HandleTerminated, HasRow, RowExpires
<1>6. ASSUME NEW k \in Keys, prevent_renew(k) PROVE (HasRow(b) /\ now <= RowExpires(b))'
  <2>1. RowsExtended
    BY <1>6, PreventExtends, Zenon
  <2> QED
    BY <1>6, <1>b, <2>1, Zenon DEF prevent_renew
<1>7. ASSUME NEW x \in Backends, HandleSpawn(x) PROVE (HasRow(b) /\ now <= RowExpires(b))'
  <2>1. CASE b = x
    <3>1. /\ backend[b] # None
          /\ now + Offset[DroneOf(b)] <= backend[b].deadlines.soft_terminate_at
          /\ b \notin reported
      BY <1>7, <2>1 DEF HandleSpawn, LocalTime, Fields
    <3>2. /\ backend[b].deadlines.soft_terminate_at <= backend[b].deadlines.hard_terminate_at
          /\ Covered(b, backend[b].deadlines.hard_terminate_at)
      BY <3>1, Zenon DEF IInv, RowsOK, LeasesCovered
    <3>3. HasRow(b) /\ now <= RowExpires(b)
      BY <3>1, <3>2 DEF Covered, HasRow, RowExpires, Fields
    <3> QED
      BY <1>7, <3>3, Zenon DEF HandleSpawn, HasRow, RowExpires
  <2>2. CASE b # x
    BY <1>7, <1>a, <2>2, Zenon DEF HandleSpawn, HasRow, RowExpires, TypeOK
  <2> QED
    BY <2>1, <2>2, Zenon
<1>8. ASSUME NEW x \in Backends, RenewStep(x) PROVE (HasRow(b) /\ now <= RowExpires(b))'
  BY <1>8, <1>a, SMTT(20) DEF RenewStep, HasRow, RowExpires
<1>9. ASSUME NEW r \in renewResps, HandleRenewKeyResponse(r) PROVE (HasRow(b) /\ now <= RowExpires(b))'
  BY <1>9, <1>a, Zenon DEF HandleRenewKeyResponse, HasRow, RowExpires
<1>10. CASE Quiet
  BY <1>10, <1>a, Zenon DEF Quiet, HasRow, RowExpires
<1> QED
  BY <1>1, <1>2, <1>3, <1>4, <1>5, <1>6, <1>7, <1>8, <1>9, <1>10, StepKinds, Zenon

-----------------------------------------------------------------------------
(* Theorems *)

\* The conjuncts together are inductive: connect(), renew_key, update_state,
\* prevent_renew and the drone's key manager keep them, for any number of
\* drones with any clocks.
THEOREM Invariance == Spec => []IInv
<1>1. Init => IInv
  <2>1. Init => TypeOK
    BY TypeInit, Zenon
  <2>2. Init => RowsOK /\ LeasesCovered /\ DroneOK /\ RunningHasRow
    BY Zenon DEF Init, RowsOK, LeasesCovered, DroneOK, RunningHasRow
  <2>3. Init => ConnOK
    BY DEF Init, IdleConn, ConnOK
  <2> QED
    BY <2>1, <2>2, <2>3, Zenon DEF IInv
<1>2. IInv /\ [Next]_vars => IInv'
  BY TypeStep, RowsStep, ConnStep, LeasesStep, DroneStep, RunningStep, Zenon DEF IInv
<1> QED
  BY <1>1, <1>2, PTL DEF Spec

\* Every state of the database, the drones and the messages is well typed.
THEOREM TypeCorrect == Spec => []TypeOK
<1>1. IInv => TypeOK
  BY Zenon DEF IInv
<1> QED
  BY <1>1, Invariance, PTL

\* No two backends hold an unexpired lease on the same key at the same time,
\* unless one was reported terminated: what check_key, remove_key and the
\* deadlines computed by controllers are for.
THEOREM LeaseMutualExclusion == Spec => []LeaseExclusion
<1>1. IInv => LeaseExclusion
  <2> SUFFICES ASSUME IInv, NEW b1 \in Backends \ reported, NEW b2 \in Backends \ reported,
                      b1 # b2, SameKey(b1, b2), HoldsLease(b1), HoldsLease(b2)
               PROVE  FALSE
    BY Zenon DEF LeaseExclusion
  <2>1. Fields
    BY FieldTypes, Zenon DEF IInv
  <2>2. ASSUME NEW b \in Backends \ reported, HoldsLease(b) PROVE HasRow(b)
    <3>1. Covered(b, handles[b].hard_terminate_at)
      BY <2>2, Zenon DEF HoldsLease, IInv, LeasesCovered
    <3>2. /\ now \in Int /\ Gap \in Nat /\ Offset[DroneOf(b)] \in Int
          /\ handles[b].hard_terminate_at \in Int
          /\ now + Offset[DroneOf(b)] < handles[b].hard_terminate_at
      BY <2>1, <2>2, Zenon DEF HoldsLease, LocalTime, Fields
    <3>3. ~(handles[b].hard_terminate_at - Offset[DroneOf(b)] + Gap < now)
      BY <3>2, NotPast, Zenon
    <3> QED
      BY <2>2, <3>1, <3>3, Zenon DEF Covered
  <2>3. HasRow(b1) /\ HasRow(b2)
    BY <2>2, Zenon
  <2> QED
    BY <2>3, Zenon DEF HasRow, SameKey
<1> QED
  BY <1>1, Invariance, PTL

\* Containers of two backends with the same key never overlap, unless one was
\* spawned late, orphaned by a crash, or reported terminated before.
THEOREM RunningMutualExclusion == Spec => []RunningExclusion
<1>1. IInv => RunningExclusion
  BY Zenon DEF IInv, RunningHasRow, RunningExclusion, Running, HasRow, SameKey
<1> QED
  BY <1>1, Invariance, PTL

\* remove_key and update_state take a key only from a backend that was
\* reported terminated, has no handle, or is past its hard deadline by more
\* than the time a kill takes.
THEOREM KeysTakenSafely == Spec => KeyTakenSafely
<1>1. IInv /\ [Next]_vars => TakesKeySafely
  <2> SUFFICES ASSUME IInv, [Next]_vars, NEW k \in Keys, NEW b \in Backends,
                      keyRow[k] # None, keyRow[k].id = b, keyRow'[k] = None,
                      b \notin reported, handles[b] # None
               PROVE  LocalTime(DroneOf(b)) > handles[b].hard_terminate_at + KillLatency
    BY Zenon DEF TakesKeySafely
  <2> TypeOK /\ TypeOK' /\ Fields
    BY StepTypes, Zenon
  <2>1. /\ Covered(b, handles[b].hard_terminate_at)
        /\ backend[b] # None /\ backend[b].key = k
    BY Zenon DEF IInv, LeasesCovered, RowsOK
  <2>2. keyRow[k].expires_at < now
    <3> USE DEF dbVars, droneVars, netVars
    <3>1. ASSUME NEW c \in Connectors, RemoveKey(c) PROVE <2>2
      BY <3>1, Zenon DEF RemoveKey, Removable, TypeOK
    <3>2. ASSUME NEW c \in Connectors, NEW x \in Backends, InsertBackend(c, x) PROVE <2>2
      BY <3>2, Zenon DEF InsertBackend, Insertable, TypeOK
    <3>3. ASSUME NEW r \in renewReqs, HandleRenewKey(r) PROVE <2>2
      BY <3>3, RenewExtends, Zenon DEF RowsExtended, IInv
    <3>4. ASSUME NEW x \in Backends, HandleTerminated(x) PROVE <2>2
      BY <3>4, Zenon DEF HandleTerminated, HasRow, TypeOK
    <3>5. ASSUME NEW j \in Keys, prevent_renew(j) PROVE <2>2
      BY <3>5, PreventExtends, Zenon DEF RowsExtended
    <3>6. ASSUME keyRow' = keyRow PROVE <2>2
      BY <3>6, Zenon
    <3> QED
      BY <3>1, <3>2, <3>3, <3>4, <3>5, <3>6, StepKinds, Zenon
      DEF Tick, HandleSpawn, RenewStep, HandleRenewKeyResponse, Quiet
  <2> QED
    BY <2>1, <2>2, KillFitsInGap DEF Covered, HasRow, RowExpires, LocalTime, Gap, Fields
<1> QED
  BY <1>1, Invariance, PTL DEF Spec, KeyTakenSafely
=============================================================================
