--------------------------- MODULE EventDelivery ---------------------------
(***************************************************************************)
(* How the statuses of backends get from a drone to the database: the      *)
(* drone's state store with its log of unacknowledged events, the socket   *)
(* to the controller, update_state in the database, and the                *)
(* acknowledgements back; with reconnects, failing updates, and crashes of *)
(* the drone followed by terminate_preexisting_backends.                   *)
(*                                                                         *)
(* Messages of a connection are a set: the database keeps the highest      *)
(* status whatever the order.  A connection that the drone has left may    *)
(* still be read by the controller, but its acknowledgements reach nobody. *)
(***************************************************************************)
EXTENDS BackendState, FiniteSets

CONSTANTS
  Backends,
  Reported,    \* the statuses that backend managers report
  Durable,     \* is the state store a file (db_path), or in memory
  MaxEvents,   \* bound on event ids that backend managers cause
  MaxFaults,   \* bound on events that are not acknowledged on their connection
  MaxCrashes   \* bound on crashes of the drone

ASSUME DeliveryConstants ==
  /\ Reported \subseteq BackendStatus
  /\ Durable \in BOOLEAN
  /\ MaxEvents \in Nat
  /\ MaxFaults \in Nat
  /\ MaxCrashes \in Nat

VARIABLES
  store,     \* table "backend" of the state store
  events,    \* table "event" of the state store
  nextId,    \* its next id
  phase,     \* where the drone process is
  sweep,     \* terminate_preexisting_backends: what it has yet to do for each
  wire,      \* events sent on the current connection
  old,       \* events sent on earlier connections
  acks,      \* AckEvents sent on the current connection, or being handled
  db,        \* backend.last_status in the database
  faults,    \* number of events not acknowledged so far
  crashes,   \* number of crashes so far
  entered,   \* history: the statuses registered for each backend
  orphaned   \* history: backends that were active at a crash

vars == <<store, events, nextId, phase, sweep, wire, old, acks, db, faults, crashes, entered,
          orphaned>>

Event == [id : Nat, backend : Backends, status : BackendStatus]

\* "fresh" is a process that has never been connected: the state store has no
\* listener.  One that is reconnecting still has the listener of the last
\* connection.
Phase == {"down", "starting", "fresh", "connected", "reconnecting"}

TypeOK ==
  /\ store \in [Backends -> BackendStatus \cup {Absent}]
  /\ events \subseteq Event
  /\ nextId \in Nat
  /\ phase \in Phase
  /\ sweep \in [Backends -> {"listed", "killing", Absent}]
  /\ wire \subseteq Event
  /\ old \subseteq Event
  /\ acks \subseteq Nat
  /\ db \in [Backends -> BackendStatus]
  /\ faults \in Nat
  /\ crashes \in Nat
  /\ entered \in [Backends -> SUBSET BackendStatus]
  /\ orphaned \subseteq Backends

Init ==
  /\ store = [b \in Backends |-> Absent]
  /\ events = {}
  /\ nextId = 1
  /\ phase = "fresh"
  /\ sweep = [b \in Backends |-> Absent]
  /\ wire = {}
  /\ old = {}
  /\ acks = {}
  /\ db = [b \in Backends |-> "scheduled"]
  /\ faults = 0
  /\ crashes = 0
  /\ entered = [b \in Backends |-> {}]
  /\ orphaned = {}

-----------------------------------------------------------------------------
(* The drone *)

\* register_event: state and event are written in one transaction; then the
\* listener, if there is one, sends the event on its connection.
register_event(b, status) ==
  LET e == [id |-> nextId, backend |-> b, status |-> status] IN
  /\ store' = [store EXCEPT ![b] = status]
  /\ events' = events \cup {e}
  /\ nextId' = nextId + 1
  /\ wire' = IF phase = "connected" THEN wire \cup {e} ELSE wire
  /\ old' = IF phase = "reconnecting" THEN old \cup {e} ELSE old
  /\ entered' = [entered EXCEPT ![b] = @ \cup {status}]

\* The state callback of a backend manager, or the executor for a backend
\* without one.
SetState(b, status) ==
  /\ phase \in {"fresh", "connected", "reconnecting"}
  /\ nextId <= MaxEvents
  /\ register_event(b, status)
  /\ UNCHANGED <<phase, sweep, acks, db, faults, crashes, orphaned>>

\* Mutant: events are only sent when they are registered.
ConnectNoReplay ==
  /\ phase \in {"fresh", "reconnecting"}
  /\ phase' = "connected"
  /\ UNCHANGED <<store, events, nextId, sweep, wire, old, acks, db, faults, crashes, entered,
                 orphaned>>

\* register_listener with a new connection: all unacknowledged events are sent.
Connect ==
  /\ phase \in {"fresh", "reconnecting"}
  /\ phase' = "connected"
  /\ wire' = events
  /\ UNCHANGED <<store, events, nextId, sweep, old, acks, db, faults, crashes, entered, orphaned>>

\* The connection breaks or its time is up.  AckEvents that a task has taken
\* up are still handled, those in the socket are not.
Disconnect(handled) ==
  /\ phase = "connected"
  /\ handled \subseteq acks
  /\ phase' = "reconnecting"
  /\ old' = old \cup wire
  /\ wire' = {}
  /\ acks' = handled
  /\ UNCHANGED <<store, events, nextId, sweep, db, faults, crashes, entered, orphaned>>

\* ack_event
HandleAck(id) ==
  /\ phase \in {"connected", "reconnecting"}
  /\ id \in acks
  /\ acks' = acks \ {id}
  /\ events' = {e \in events : e.id # id}
  /\ UNCHANGED <<store, nextId, phase, sweep, wire, old, db, faults, crashes, entered, orphaned>>

\* A store in memory is gone with the process.
Crash ==
  /\ phase # "down"
  /\ crashes < MaxCrashes
  /\ crashes' = crashes + 1
  /\ phase' = "down"
  /\ orphaned' = orphaned \cup {b \in Backends : store[b] \notin {Absent, "terminated"}}
  /\ old' = old \cup wire
  /\ wire' = {}
  /\ acks' = {}
  /\ sweep' = [b \in Backends |-> Absent]
  /\ store' = IF Durable THEN store ELSE [b \in Backends |-> Absent]
  /\ events' = IF Durable THEN events ELSE {}
  /\ nextId' = IF Durable THEN nextId ELSE 1
  /\ UNCHANGED <<db, faults, entered>>

\* Mutant: a backend that was being hard-terminated is taken for terminated.
active_backends_skip == {b \in Backends : store[b] \notin {Absent, "hard-terminating", "terminated"}}

active_backends == {b \in Backends : store[b] \notin {Absent, "terminated"}}

\* Executor::new starts with the active backends in the store.
Restart ==
  /\ phase = "down"
  /\ phase' = "starting"
  /\ sweep' = [b \in Backends |-> IF b \in active_backends THEN "listed" ELSE Absent]
  /\ UNCHANGED <<store, events, nextId, wire, old, acks, db, faults, crashes, entered, orphaned>>

\* terminate_preexisting_backends: each is first registered as being
\* hard-terminated, ...
TerminatePreexisting(b) ==
  /\ phase = "starting"
  /\ sweep[b] = "listed"
  /\ sweep' = [sweep EXCEPT ![b] = "killing"]
  /\ register_event(b, "hard-terminating")
  /\ UNCHANGED <<phase, acks, db, faults, crashes, orphaned>>

\* ... and as terminated when the runtime has terminated it or given up.
PreexistingTerminated(b) ==
  /\ phase = "starting"
  /\ sweep[b] = "killing"
  /\ sweep' = [sweep EXCEPT ![b] = Absent]
  /\ register_event(b, "terminated")
  /\ UNCHANGED <<phase, acks, db, faults, crashes, orphaned>>

\* The executor is there once all of them are done (join_all).
Started ==
  /\ phase = "starting"
  /\ \A b \in Backends : sweep[b] = Absent
  /\ phase' = "fresh"
  /\ UNCHANGED <<store, events, nextId, sweep, wire, old, acks, db, faults, crashes, entered,
                 orphaned>>

-----------------------------------------------------------------------------
(* The controller *)

\* Mutant: the last update wins.
update_state_last(e) == db' = [db EXCEPT ![e.backend] = e.status]

\* update_state writes nothing unless the status is a later one.
update_state(e) ==
  IF as_int[db[e.backend]] < as_int[e.status]
    THEN db' = [db EXCEPT ![e.backend] = e.status]
    ELSE UNCHANGED db

\* Mutant: the event is acknowledged even if the update failed.
HandleEventAckFirst(e, updated, acked) ==
  /\ phase = "connected"
  /\ e \in wire
  /\ acked => updated
  /\ wire' = wire \ {e}
  /\ IF updated THEN update_state(e) ELSE UNCHANGED db
  /\ acks' = acks \cup {e.id}
  /\ faults' = IF acked THEN faults ELSE faults + 1
  /\ faults' <= MaxFaults
  /\ UNCHANGED <<store, events, nextId, phase, sweep, old, crashes, entered, orphaned>>

\* handle_message_from_drone for a BackendEvent.  The update fails, or a full
\* queue on the way swallows the event or its AckEvent: then nothing is
\* acknowledged, and the event is not sent again on this connection.
HandleEvent(e, updated, acked) ==
  /\ phase = "connected"
  /\ e \in wire
  /\ acked => updated
  /\ wire' = wire \ {e}
  /\ IF updated THEN update_state(e) ELSE UNCHANGED db
  /\ acks' = IF acked THEN acks \cup {e.id} ELSE acks
  /\ faults' = IF acked THEN faults ELSE faults + 1
  /\ faults' <= MaxFaults
  /\ UNCHANGED <<store, events, nextId, phase, sweep, old, crashes, entered, orphaned>>

\* The same for an event of a connection that the drone has left.
HandleOldEvent(e) ==
  /\ e \in old
  /\ old' = old \ {e}
  /\ update_state(e)
  /\ UNCHANGED <<store, events, nextId, phase, sweep, wire, acks, faults, crashes, entered,
                 orphaned>>

-----------------------------------------------------------------------------
DroneNext ==
  \/ \E b \in Backends, status \in Reported : SetState(b, status)
  \/ Connect
  \/ \E handled \in SUBSET acks : Disconnect(handled)
  \/ \E id \in acks : HandleAck(id)
  \/ Crash
  \/ Restart
  \/ \E b \in Backends : TerminatePreexisting(b) \/ PreexistingTerminated(b)
  \/ Started

ControllerNext ==
  \/ \E e \in wire, updated \in BOOLEAN, acked \in BOOLEAN : HandleEvent(e, updated, acked)
  \/ \E e \in old : HandleOldEvent(e)

Next == DroneNext \/ ControllerNext

Spec == Init /\ [][Next]_vars

\* More ids than these are never used: after each crash the sweep registers at
\* most two events for each backend.
Ids == 1 .. (MaxEvents + 2 * MaxCrashes * Cardinality(Backends))

\* connect_with_retry goes on until it succeeds, every connection ends with
\* the reconnect interval at the latest, and a process that crashed is
\* started again and goes through its start.  A message that is sent on
\* connection after connection gets through in the end.
Fairness ==
  /\ WF_vars(Connect)
  /\ WF_vars(\E handled \in SUBSET acks : Disconnect(handled))
  /\ WF_vars(Restart \/ Started)
  /\ \A b \in Backends : WF_vars(TerminatePreexisting(b) \/ PreexistingTerminated(b))
  /\ \A id \in Ids : SF_vars(\E e \in wire : e.id = id /\ HandleEvent(e, TRUE, TRUE))

FairSpec == Spec /\ Fairness

-----------------------------------------------------------------------------
(* Properties *)

\* An event leaves the drone's log only when the database knows its status or
\* a later one: acknowledgements that are late, of an earlier connection or
\* of an update that changed nothing never make the drone forget a status.
AckSafe ==
  Durable =>
    \A b \in Backends : \A status \in entered[b] :
      \/ as_int[status] <= as_int[db[b]]
      \/ \E e \in events : e.backend = b /\ e.status = status

\* Drone and controller together implement the abstract mirror: the database
\* shows a status the backend had, and moves only forward.
Mirror == INSTANCE StatusMirror WITH truth <- entered, view <- db
MirrorsStatus == Mirror!Spec

\* Every termination that the drone has registered gets into the database,
\* however often the connection breaks and the drone crashes.
TerminationReported == Mirror!EndIsLearnt

\* docs/pages/concepts/backend-lifecycle.mdx: "Every backend will eventually
\* reach the `terminated` state unless the drone responsible for it is
\* permanently lost."  Stated for the backends active when a drone crashes
\* that is started again.
CrashedBackendTerminates ==
  \A b \in Backends : b \in orphaned ~> db[b] = "terminated"

-----------------------------------------------------------------------------
(* The inductive invariant behind AckSafe and MirrorsStatus *)

\* Ids are used once, so an event and its copies on the wire agree, ...
IdsOK ==
  /\ \A e \in events \cup wire : e.id < nextId
  /\ \A id \in acks : id < nextId
  /\ \A e, f \in events \cup wire : e.id = f.id => e = f

\* ... an acknowledged event is known to the database, ...
AcksOK ==
  \A e \in events : e.id \in acks => as_int[e.status] <= as_int[db[e.backend]]

\* ... and what is under way happened.
MessagesOK ==
  \A e \in events \cup wire \cup old : e.status \in entered[e.backend]

IInv == TypeOK /\ IdsOK /\ AcksOK /\ MessagesOK /\ AckSafe

=============================================================================
