------------------------------ MODULE KeyLease ------------------------------
(***************************************************************************)
(* The key lease: how controllers hand a key to a backend through the      *)
(* backend_key table, how the drone that runs the backend renews it, and   *)
(* what the drone does when it cannot.                                     *)
(*                                                                         *)
(* Controllers run connect(), one SQL statement or transaction per step,   *)
(* several at a time.  Drones keep their own clocks: a drone's local time  *)
(* is the database's time plus an unknown constant, and the deadlines of a *)
(* lease are always in the local time of the drone.  Messages may be       *)
(* delayed, reordered, repeated or never delivered, drones may crash with  *)
(* their containers left running, and restart.                             *)
(***************************************************************************)
EXTENDS Integers, FiniteSets

CONSTANTS
  Keys,         \* (namespace, name) pairs
  Backends,     \* backend ids, each used by at most one connect()
  Drones,
  Connectors,   \* connect() requests that can be in progress at a time
  None,         \* an absent row, handle, backend or drone
  Offset,       \* Offset[d]: what drone d's clock shows minus database time
  KEY_LEASE_RENEW_AFTER,
  KEY_LEASE_SOFT_TERMINATE_AFTER,
  KEY_LEASE_HARD_TERMINATE_AFTER,
  KEY_LEASE_EXPIRATION,
  KillLatency,  \* a container is gone this long after its hard deadline
  MaxStaleness, \* bound on the age of the local time a drone last reported
  MaxInFlight,  \* bound on renewal messages in flight
  MaxRespawns,  \* bound on Spawn actions handled again after the first time
  MaxTime,      \* bound on the database clock
  MaxCrashes    \* bound on the number of drone crashes

\* The first line is asserted by the doc test of backend_key.rs.
ASSUME LeaseConstants ==
  /\ KEY_LEASE_RENEW_AFTER \in Nat \ {0}
  /\ KEY_LEASE_SOFT_TERMINATE_AFTER \in Nat
  /\ KEY_LEASE_HARD_TERMINATE_AFTER \in Nat
  /\ KEY_LEASE_EXPIRATION \in Nat
  /\ KEY_LEASE_RENEW_AFTER < KEY_LEASE_SOFT_TERMINATE_AFTER
  /\ KEY_LEASE_SOFT_TERMINATE_AFTER < KEY_LEASE_HARD_TERMINATE_AFTER
  /\ KEY_LEASE_HARD_TERMINATE_AFTER < KEY_LEASE_EXPIRATION

\* Killing a container fits in the gap between hard deadline and expiration.
ASSUME KillFitsInGap ==
  /\ KillLatency \in Nat
  /\ KillLatency <= KEY_LEASE_EXPIRATION - KEY_LEASE_HARD_TERMINATE_AFTER

ASSUME OtherConstants ==
  /\ Offset \in [Drones -> Int]
  /\ MaxStaleness \in Nat
  /\ MaxInFlight \in Nat
  /\ MaxRespawns \in Nat
  /\ MaxTime \in Nat
  /\ MaxCrashes \in Nat

VARIABLES
  now,        \* the database's clock
  keyRow,     \* backend_key: the row of each key, or None
  backend,    \* backend and the Spawn action of each backend, or None
  dbTerminated, \* backends whose last_status is terminated
  conn,       \* connect() requests in progress
  up,         \* is the drone process running
  crashes,    \* number of crashes so far
  handles,    \* KeyManager.handles: the deadlines of the backend's key, or None
  loop,       \* what renew_key_loop does next for the backend
  exec,       \* the executor's view of the backend
  stored,     \* backends that are active in the drone's sqlite store
  reported,   \* backends the drone has registered a Terminated event for
  renewReqs,  \* RenewKeyRequests sent by drones
  renewResps, \* RenewKeyResponses sent by controllers
  spawned,    \* history: backends whose Spawn action has been handled
  respawns,   \* number of Spawn actions handled again
  late,       \* history: spawned after the soft deadline of the action
  orphaned    \* history: container left without its drone by a crash

dbVars == <<keyRow, backend, dbTerminated>>
droneVars == <<up, crashes, handles, loop, exec, stored, reported, spawned,
               respawns, late, orphaned>>
netVars == <<renewReqs, renewResps>>
vars == <<now, dbVars, conn, droneVars, netVars>>

-----------------------------------------------------------------------------
(* Data *)

KeyDeadlines == [renew_at : Int, soft_terminate_at : Int, hard_terminate_at : Int]

BackendKey == [id : Backends, expires_at : Int, allow_renew : BOOLEAN]

BackendRow == [key : Keys, drone : Drones, token : Int, deadlines : KeyDeadlines]

ASSUME NoneIsNoRecord == None \notin BackendKey \cup BackendRow \cup KeyDeadlines

\* A connect() request: the statement it runs next, the key, the holder of
\* an expired key, the drone picked and its local time, the transaction's now().
ConnectState ==
  [pc : {"idle", "remove", "pick", "begin", "insert"}, key : Keys \cup {None},
   id : Backends \cup {None}, drone : Drones \cup {None}, base : Int, asOf : Int]

IdleConn == [pc |-> "idle", key |-> None, id |-> None, drone |-> None, base |-> 0, asOf |-> 0]

LocalTime(d) == now + Offset[d]

\* The drone a backend was scheduled to.
DroneOf(b) == backend[b].drone

\* The row of b's key is b's.
HasRow(b) == keyRow[backend[b].key] # None /\ keyRow[backend[b].key].id = b

OnDrone(d) == {b \in Backends : backend[b] # None /\ DroneOf(b) = d}

\* The deadlines of a Spawn action.  The hard deadline is computed with the
\* soft constant, as in the code.
AcquiredDeadlines(localTime) ==
  [renew_at |-> localTime + KEY_LEASE_RENEW_AFTER,
   soft_terminate_at |-> localTime + KEY_LEASE_SOFT_TERMINATE_AFTER,
   hard_terminate_at |-> localTime + KEY_LEASE_SOFT_TERMINATE_AFTER]

\* The deadlines of a renewal, from the local time in the request.
RenewedDeadlines(localTime) ==
  [renew_at |-> localTime + KEY_LEASE_RENEW_AFTER,
   soft_terminate_at |-> localTime + KEY_LEASE_SOFT_TERMINATE_AFTER,
   hard_terminate_at |-> localTime + KEY_LEASE_HARD_TERMINATE_AFTER]

\* BackendKeyResult::is_live
is_live(row) == now < row.expires_at

TypeOK ==
  /\ now \in Nat
  /\ keyRow \in [Keys -> BackendKey \cup {None}]
  /\ backend \in [Backends -> BackendRow \cup {None}]
  /\ dbTerminated \subseteq Backends
  /\ conn \in [Connectors -> ConnectState]
  /\ up \in [Drones -> BOOLEAN]
  /\ crashes \in Nat
  /\ handles \in [Backends -> KeyDeadlines \cup {None}]
  /\ loop \in [Backends -> {"renew", "soft", "hard", "done"}]
  /\ exec \in [Backends -> {"none", "loading", "running", "stopping"}]
  /\ stored \subseteq Backends
  /\ reported \subseteq Backends
  /\ renewReqs \subseteq [backend : Backends, local_time : Int]
  /\ renewResps \subseteq [backend : Backends, deadlines : KeyDeadlines]
  /\ spawned \subseteq Backends
  /\ respawns \in Nat
  /\ late \subseteq Backends
  /\ orphaned \subseteq Backends

Init ==
  /\ now = 0
  /\ keyRow = [k \in Keys |-> None]
  /\ backend = [b \in Backends |-> None]
  /\ dbTerminated = {}
  /\ conn = [c \in Connectors |-> IdleConn]
  /\ up = [d \in Drones |-> TRUE]
  /\ crashes = 0
  /\ handles = [b \in Backends |-> None]
  /\ loop = [b \in Backends |-> "renew"]
  /\ exec = [b \in Backends |-> "none"]
  /\ stored = {}
  /\ reported = {}
  /\ renewReqs = {}
  /\ renewResps = {}
  /\ spawned = {}
  /\ respawns = 0
  /\ late = {}
  /\ orphaned = {}

-----------------------------------------------------------------------------
(* Time.  Timers and kills are as prompt as KillLatency says: time does not *)
(* pass while a live drone still runs a backend whose hard deadline, plus   *)
(* the latency, has come.                                                   *)

KillIsDue(b) ==
  /\ backend[b] # None
  /\ up[DroneOf(b)]
  /\ handles[b] # None
  /\ exec[b] # "none"
  /\ LocalTime(DroneOf(b)) >= handles[b].hard_terminate_at + KillLatency

Tick ==
  /\ now < MaxTime
  /\ \A b \in Backends : ~KillIsDue(b)
  /\ now' = now + 1
  /\ UNCHANGED <<dbVars, conn, droneVars, netVars>>

-----------------------------------------------------------------------------
(* connect(): one step per statement.  A retry after FailedToRemoveKey or   *)
(* FailedToAcquireKey starts at check_key again, like a new request.        *)

\* check_key: a live key ends the request without a change; an expired one
\* has to be removed; an absent one goes on to the spawn.
CheckKey(c, k) ==
  /\ conn[c] = IdleConn
  /\ keyRow[k] # None => ~is_live(keyRow[k])
  /\ conn' = [conn EXCEPT ![c] =
       IF keyRow[k] = None
         THEN [IdleConn EXCEPT !.pc = "pick", !.key = k]
         ELSE [IdleConn EXCEPT !.pc = "remove", !.key = k, !.id = keyRow[k].id]]
  /\ UNCHANGED <<now, dbVars, droneVars, netVars>>

\* Mutant: the row is deleted by key, whoever holds it by now.
RemovableAnyHolder(row, b) == row # None

\* The where clause of remove_key: the row is that of b and is still expired.
Removable(row, b) == row # None /\ row.id = b /\ row.expires_at < now

\* remove_key deletes the row that check_key found expired.
RemoveKey(c) ==
  LET k == conn[c].key
      removed == Removable(keyRow[k], conn[c].id)
  IN
  /\ conn[c].pc = "remove"
  /\ keyRow' = IF removed THEN [keyRow EXCEPT ![k] = None] ELSE keyRow
  /\ conn' = [conn EXCEPT ![c] = IF removed THEN [@ EXCEPT !.pc = "pick", !.id = None]
                                            ELSE IdleConn]
  /\ UNCHANGED <<now, backend, dbTerminated, droneVars, netVars>>

\* pick_drone_for_spawn reads last_local_time: what the drone's clock showed
\* when it sent the heartbeat that arrived last.
PickDrone(c, d, sentAt) ==
  /\ conn[c].pc = "pick"
  /\ sentAt <= now /\ now <= sentAt + MaxStaleness
  /\ conn' = [conn EXCEPT ![c] =
       [@ EXCEPT !.pc = "begin", !.drone = d, !.base = sentAt + Offset[d]]]
  /\ UNCHANGED <<now, dbVars, droneVars, netVars>>

\* KeyUnheldNoSpawnConfig, NoClusterProvided, NoDroneAvailable: the request
\* ends, a key it removed stays removed.
NoSpawn(c) ==
  /\ conn[c].pc = "pick"
  /\ conn' = [conn EXCEPT ![c] = IdleConn]
  /\ UNCHANGED <<now, dbVars, droneVars, netVars>>

\* The transaction of create_backend_with_key starts; its now() is fixed here.
BeginTxn(c) ==
  /\ conn[c].pc = "begin"
  /\ conn' = [conn EXCEPT ![c] = [@ EXCEPT !.pc = "insert", !.asOf = now]]
  /\ UNCHANGED <<now, dbVars, droneVars, netVars>>

\* The unique index of backend_key on (namespace, key_name).
Insertable(k) == keyRow[k] = None

\* The transaction inserts the backend, its key and the Spawn action, or
\* fails on the unique index of (namespace, name).
InsertBackend(c, b) ==
  LET k == conn[c].key
      d == conn[c].drone
      t == conn[c].asOf
  IN
  /\ conn[c].pc = "insert"
  /\ backend[b] = None
  /\ IF Insertable(k)
       THEN /\ keyRow' = [keyRow EXCEPT ![k] = [id |-> b, allow_renew |-> TRUE,
                             expires_at |-> t + KEY_LEASE_EXPIRATION]]
            /\ backend' = [backend EXCEPT ![b] = [key |-> k, drone |-> d, token |-> t,
                             deadlines |-> AcquiredDeadlines(conn[c].base)]]
       ELSE UNCHANGED <<keyRow, backend>>
  /\ conn' = [conn EXCEPT ![c] = IdleConn]
  /\ UNCHANGED <<now, dbTerminated, droneVars, netVars>>

-----------------------------------------------------------------------------
(* The controller's end of a drone's socket *)

\* renew_key: the row is extended whether or not it has expired; without a
\* row that allows it the handler fails and sends no response.
HandleRenewKey(r) ==
  LET b == r.backend
      k == backend[b].key
  IN
  /\ r \in renewReqs
  /\ renewReqs' = renewReqs \ {r}
  /\ IF HasRow(b) /\ keyRow[k].allow_renew
       THEN /\ keyRow' = [keyRow EXCEPT ![k].expires_at = now + KEY_LEASE_EXPIRATION]
            /\ renewResps' = renewResps \cup
                 {[backend |-> b, deadlines |-> RenewedDeadlines(r.local_time)]}
       ELSE UNCHANGED <<keyRow, renewResps>>
  /\ UNCHANGED <<now, backend, dbTerminated, conn, droneVars>>

\* Mutant: any state report deletes the key.
HandleTerminatedAnyState(b) ==
  /\ b \in spawned
  /\ keyRow' = IF HasRow(b) THEN [keyRow EXCEPT ![backend[b].key] = None] ELSE keyRow
  /\ UNCHANGED <<now, backend, dbTerminated, conn, droneVars, netVars>>

\* update_state with a Terminated state: the first one deletes the key.
HandleTerminated(b) ==
  /\ b \in reported \ dbTerminated
  /\ dbTerminated' = dbTerminated \cup {b}
  /\ keyRow' = IF HasRow(b) THEN [keyRow EXCEPT ![backend[b].key] = None] ELSE keyRow
  /\ UNCHANGED <<now, backend, conn, droneVars, netVars>>

\* An administrator forbids renewals of a key.
prevent_renew(k) ==
  /\ keyRow[k] # None
  /\ keyRow[k].allow_renew
  /\ keyRow' = [keyRow EXCEPT ![k].allow_renew = FALSE]
  /\ UNCHANGED <<now, backend, dbTerminated, conn, droneVars, netVars>>

-----------------------------------------------------------------------------
(* The drone *)

\* handle_message for a Spawn action.  The action is sent until it is acked,
\* and copies in flight may arrive later still.  A past deadline is only
\* logged; a key that is registered already ends the handler.
HandleSpawn(b) ==
  LET d == DroneOf(b)
      key == backend[b].deadlines
  IN
  /\ backend[b] # None
  /\ up[d]
  /\ handles[b] = None
  /\ handles' = [handles EXCEPT ![b] = key]
  /\ loop' = [loop EXCEPT ![b] = "renew"]
  /\ exec' = [exec EXCEPT ![b] = IF @ = "none" THEN "loading" ELSE @]
  /\ stored' = stored \cup {b}
  /\ b \in spawned => respawns < MaxRespawns
  /\ spawned' = spawned \cup {b}
  /\ respawns' = IF b \in spawned THEN respawns + 1 ELSE respawns
  /\ late' = IF key.soft_terminate_at < LocalTime(d) THEN late \cup {b} ELSE late
  /\ UNCHANGED <<now, dbVars, conn, up, crashes, reported, orphaned, netVars>>

\* The executor gets to the point where the container runs.
StartContainer(b) ==
  /\ backend[b] # None
  /\ up[DroneOf(b)]
  /\ exec[b] = "loading"
  /\ exec' = [exec EXCEPT ![b] = "running"]
  /\ UNCHANGED <<now, dbVars, conn, up, crashes, handles, loop, stored, reported, spawned,
                 respawns, late, orphaned, netVars>>

\* One turn of renew_key_loop in the renewal window; it then sleeps until
\* the soft deadline.
RenewStep(b) ==
  LET t == LocalTime(DroneOf(b))
  IN
  /\ backend[b] # None /\ up[DroneOf(b)] /\ handles[b] # None
  /\ loop[b] = "renew"
  /\ Cardinality(renewReqs) + Cardinality(renewResps) < MaxInFlight
  /\ handles[b].renew_at <= t
  /\ t < handles[b].soft_terminate_at /\ t < handles[b].hard_terminate_at
  /\ renewReqs' = renewReqs \cup {[backend |-> b, local_time |-> t]}
  /\ loop' = [loop EXCEPT ![b] = "soft"]
  /\ UNCHANGED <<now, dbVars, conn, up, crashes, handles, exec, stored, reported, spawned,
                 respawns, late, orphaned, renewResps>>

\* Its turn after the soft deadline: terminate softly, sleep until the hard one.
SoftStep(b) ==
  LET t == LocalTime(DroneOf(b))
  IN
  /\ backend[b] # None /\ up[DroneOf(b)] /\ handles[b] # None
  /\ loop[b] \in {"renew", "soft"}
  /\ handles[b].soft_terminate_at <= t /\ t < handles[b].hard_terminate_at
  /\ loop' = [loop EXCEPT ![b] = "hard"]
  /\ exec' = [exec EXCEPT ![b] = IF @ = "none" THEN @ ELSE "stopping"]
  /\ UNCHANGED <<now, dbVars, conn, up, crashes, handles, stored, reported, spawned,
                 respawns, late, orphaned, netVars>>

\* Its turn after the hard deadline: terminate hard, then the loop ends.
HardStep(b) ==
  /\ backend[b] # None /\ up[DroneOf(b)] /\ handles[b] # None
  /\ loop[b] # "done"
  /\ handles[b].hard_terminate_at <= LocalTime(DroneOf(b))
  /\ loop' = [loop EXCEPT ![b] = "done"]
  /\ exec' = [exec EXCEPT ![b] = IF @ = "none" THEN @ ELSE "stopping"]
  /\ UNCHANGED <<now, dbVars, conn, up, crashes, handles, stored, reported, spawned,
                 respawns, late, orphaned, netVars>>

\* handle_message for a RenewKeyResponse: new deadlines restart the loop.
HandleRenewKeyResponse(r) ==
  LET b == r.backend
  IN
  /\ r \in renewResps
  /\ up[DroneOf(b)]
  /\ renewResps' = renewResps \ {r}
  /\ IF handles[b] = None
       THEN UNCHANGED <<handles, loop>>
       ELSE /\ handles' = [handles EXCEPT ![b] = r.deadlines]
            /\ loop' = [loop EXCEPT ![b] = "renew"]
  /\ UNCHANGED <<now, dbVars, conn, up, crashes, exec, stored, reported, spawned,
                 respawns, late, orphaned, renewReqs>>

\* The backend fails to start, exits or is killed.  Registering the
\* Terminated event calls the listener, which unregisters the key before
\* the event is sent.
Terminated(b) ==
  /\ backend[b] # None
  /\ up[DroneOf(b)]
  /\ exec[b] # "none"
  /\ exec' = [exec EXCEPT ![b] = "none"]
  /\ handles' = [handles EXCEPT ![b] = None]
  /\ loop' = [loop EXCEPT ![b] = "renew"]
  /\ stored' = stored \ {b}
  /\ reported' = reported \cup {b}
  /\ UNCHANGED <<now, dbVars, conn, up, crashes, spawned, respawns, late, orphaned, netVars>>

\* Mutant: the replay of any event unregisters the key.
ReplayableAny(d) == OnDrone(d)

\* Backends of d whose Terminated event may still be unacked.
Replayable(d) == reported \cap OnDrone(d)

\* A new connection: set_sender restarts every loop, and register_listener
\* replays the unacked events, which unregisters the keys of the backends
\* in replayed.
Reconnect(d, replayed) ==
  /\ up[d]
  /\ replayed \subseteq Replayable(d)
  /\ handles' = [b \in Backends |-> IF b \in replayed THEN None ELSE handles[b]]
  /\ loop' = [b \in Backends |-> IF b \in OnDrone(d) THEN "renew" ELSE loop[b]]
  /\ UNCHANGED <<now, dbVars, conn, up, crashes, exec, stored, reported, spawned,
                 respawns, late, orphaned, netVars>>

\* The drone process dies: its tasks are gone, its containers are not.
Crash(d) ==
  LET containers == {b \in OnDrone(d) : exec[b] \in {"running", "stopping"}}
  IN
  /\ up[d]
  /\ crashes < MaxCrashes
  /\ crashes' = crashes + 1
  /\ up' = [up EXCEPT ![d] = FALSE]
  /\ handles' = [b \in Backends |-> IF b \in OnDrone(d) THEN None ELSE handles[b]]
  /\ loop' = [b \in Backends |-> IF b \in OnDrone(d) THEN "renew" ELSE loop[b]]
  /\ exec' = [b \in Backends |-> IF b \in OnDrone(d) \ containers THEN "none" ELSE exec[b]]
  /\ orphaned' = orphaned \cup containers
  /\ UNCHANGED <<now, dbVars, conn, stored, reported, spawned, respawns, late, netVars>>

\* A container exits while nobody watches it.
OrphanExits(b) ==
  /\ backend[b] # None
  /\ ~up[DroneOf(b)]
  /\ exec[b] # "none"
  /\ exec' = [exec EXCEPT ![b] = "none"]
  /\ UNCHANGED <<now, dbVars, conn, up, crashes, handles, loop, stored, reported, spawned,
                 respawns, late, orphaned, netVars>>

\* Executor::new terminates the backends that are active in the store before
\* the drone connects.  A backend whose container could not be killed in 10
\* attempts is marked terminated all the same.
Restart(d, failed) ==
  LET active == OnDrone(d) \cap stored
  IN
  /\ ~up[d]
  /\ failed \subseteq active
  /\ up' = [up EXCEPT ![d] = TRUE]
  /\ exec' = [b \in Backends |-> IF b \in active \ failed THEN "none" ELSE exec[b]]
  /\ stored' = stored \ active
  /\ reported' = reported \cup active
  /\ UNCHANGED <<now, dbVars, conn, crashes, handles, loop, spawned, respawns, late, orphaned,
                 netVars>>

\* A connection breaks with messages in it.
LoseRequest(r) ==
  /\ r \in renewReqs
  /\ renewReqs' = renewReqs \ {r}
  /\ UNCHANGED <<now, dbVars, conn, droneVars, renewResps>>

LoseResponse(r) ==
  /\ r \in renewResps
  /\ renewResps' = renewResps \ {r}
  /\ UNCHANGED <<now, dbVars, conn, droneVars, renewReqs>>

-----------------------------------------------------------------------------

ConnectNext ==
  \E c \in Connectors :
    \/ \E k \in Keys : CheckKey(c, k)
    \/ RemoveKey(c)
    \/ \E d \in Drones, sentAt \in 0..MaxTime : PickDrone(c, d, sentAt)
    \/ NoSpawn(c)
    \/ BeginTxn(c)
    \/ \E b \in Backends : InsertBackend(c, b)

ControllerNext ==
  \/ \E r \in renewReqs : HandleRenewKey(r)
  \/ \E b \in Backends : HandleTerminated(b)
  \/ \E k \in Keys : prevent_renew(k)

BackendNext(b) ==
  \/ HandleSpawn(b)
  \/ StartContainer(b)
  \/ RenewStep(b)
  \/ SoftStep(b)
  \/ HardStep(b)
  \/ Terminated(b)
  \/ OrphanExits(b)

DroneNext ==
  \/ \E b \in Backends : BackendNext(b)
  \/ \E r \in renewResps : HandleRenewKeyResponse(r)
  \/ \E d \in Drones :
       \/ \E replayed \in SUBSET Backends : Reconnect(d, replayed)
       \/ Crash(d)
       \/ \E failed \in SUBSET Backends : Restart(d, failed)

NetworkNext ==
  \/ \E r \in renewReqs : LoseRequest(r)
  \/ \E r \in renewResps : LoseResponse(r)

Next == Tick \/ ConnectNext \/ ControllerNext \/ DroneNext \/ NetworkNext

Spec == Init /\ [][Next]_vars

-----------------------------------------------------------------------------
(* Properties *)

\* The drone may run b now: it has a handle for b's key and the hard
\* deadline has not come.
HoldsLease(b) ==
  /\ backend[b] # None
  /\ handles[b] # None
  /\ LocalTime(DroneOf(b)) < handles[b].hard_terminate_at

\* The container of b may be running.
Running(b) == exec[b] \in {"running", "stopping"}

SameKey(b1, b2) ==
  backend[b1] # None /\ backend[b2] # None /\ backend[b1].key = backend[b2].key

\* Two backends that have not been reported terminated never both hold an
\* unexpired lease on the same key, whatever the clocks of their drones show:
\* the deadlines handed out by create_backend_with_key and by renewals always
\* end before remove_key can free the key.
LeaseExclusion ==
  \A b1, b2 \in Backends \ reported :
    b1 # b2 /\ SameKey(b1, b2) => ~(HoldsLease(b1) /\ HoldsLease(b2))

\* Containers of two backends with the same key overlap only if one of the
\* two was spawned after its deadline, was left running by a crash of its
\* drone, or had been reported terminated before.
RunningExclusion ==
  \A b1, b2 \in Backends \ (reported \cup late \cup orphaned) :
    b1 # b2 /\ SameKey(b1, b2) => ~(Running(b1) /\ Running(b2))

\* A step that takes a key from b does so once b was reported terminated, or
\* once the time by which the drone must have killed b is over.
TakesKeySafely ==
  \A k \in Keys, b \in Backends :
    /\ keyRow[k] # None /\ keyRow[k].id = b
    /\ keyRow'[k] = None
    => \/ b \in reported
       \/ handles[b] = None
       \/ LocalTime(DroneOf(b)) > handles[b].hard_terminate_at + KillLatency

\* A key is taken from a backend only once the drone has reported it
\* terminated, or once the time by which the drone must have killed it is
\* over.  (remove_key, and the delete in update_state.)
KeyTakenSafely == [][TakesKeySafely]_vars

\* docs/pages/developing/keys.mdx: "For a given key, Plane guarantees that at
\* most one backend will be running at a time."
OneBackendPerKey ==
  \A b1, b2 \in Backends : b1 # b2 /\ SameKey(b1, b2) => ~(Running(b1) /\ Running(b2))

-----------------------------------------------------------------------------
(* The inductive invariant.  Its heart is Covered: a hard deadline h that   *)
(* the drone has, or may still get, for b is either past by more than the   *)
(* gap between hard deadline and expiration, or the key row still names b   *)
(* and does not expire before that gap is over.                             *)

Gap == KEY_LEASE_EXPIRATION - KEY_LEASE_HARD_TERMINATE_AFTER

RowExpires(b) == keyRow[backend[b].key].expires_at

Covered(b, h) ==
  \/ b \in reported
  \/ HasRow(b) /\ h - Offset[DroneOf(b)] + Gap <= RowExpires(b)
  \/ h - Offset[DroneOf(b)] + Gap < now

RowsOK ==
  /\ \A k \in Keys : keyRow[k] # None =>
       /\ backend[keyRow[k].id] # None
       /\ backend[keyRow[k].id].key = k
       /\ keyRow[k].expires_at <= now + KEY_LEASE_EXPIRATION
  /\ \A b \in Backends : backend[b] # None =>
       backend[b].deadlines.soft_terminate_at <= backend[b].deadlines.hard_terminate_at

ConnOK ==
  \A c \in Connectors :
    /\ conn[c].pc # "idle" => conn[c].key \in Keys
    /\ conn[c].pc \in {"begin", "insert"} =>
         conn[c].drone \in Drones /\ conn[c].base - Offset[conn[c].drone] <= now
    /\ conn[c].pc = "insert" =>
         conn[c].base - Offset[conn[c].drone] <= conn[c].asOf /\ conn[c].asOf <= now

LeasesCovered ==
  /\ \A b \in Backends : backend[b] # None => Covered(b, backend[b].deadlines.hard_terminate_at)
  /\ \A b \in Backends : handles[b] # None => Covered(b, handles[b].hard_terminate_at)
  /\ \A r \in renewResps : /\ backend[r.backend] # None
                           /\ Covered(r.backend, r.deadlines.hard_terminate_at)
  /\ \A r \in renewReqs : /\ backend[r.backend] # None
                          /\ r.local_time <= LocalTime(DroneOf(r.backend))

\* Everything the drone knows of a backend, it knows from its Spawn action.
DroneOK ==
  /\ \A b \in Backends : handles[b] # None => backend[b] # None /\ up[DroneOf(b)]
  /\ \A b \in Backends : exec[b] # "none" =>
       /\ backend[b] # None
       /\ handles[b] # None \/ b \in reported \cup orphaned
  /\ \A b \in stored \cup reported : backend[b] # None

\* A backend that the drone may be running still has its row, unexpired.
RunningHasRow ==
  \A b \in Backends \ (reported \cup late \cup orphaned) :
    exec[b] # "none" => HasRow(b) /\ now <= RowExpires(b)

\* The inductive invariant of KeyLease: what connect(), renew_key and the
\* drone's key manager maintain together.
IInv == TypeOK /\ RowsOK /\ ConnOK /\ LeasesCovered /\ DroneOK /\ RunningHasRow

=============================================================================
