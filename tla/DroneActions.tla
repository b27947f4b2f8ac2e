---------------------------- MODULE DroneActions ----------------------------
(***************************************************************************)
(* How Spawn and Terminate actions get from the database to a drone: the   *)
(* backend_action table, the notification and the periodic resending of    *)
(* what is not acknowledged, the handle_message tasks of the drone, which  *)
(* run concurrently, and what they do to the key manager and the           *)
(* executor.  The loop of a key handle that finds its key expired          *)
(* terminates through the same code.                                       *)
(*                                                                         *)
(* A backend manager is live until it is Terminated (module BackendManager *)
(* has the details); time is left out, so that a key may expire at once    *)
(* (a Spawn that arrives after its deadline is not ignored).               *)
(***************************************************************************)
EXTENDS Naturals, Sequences, FiniteSets

CONSTANTS
  Backends,
  Tasks,          \* bound on handle_message tasks at a time
  PendingLimit,   \* pending_actions_limit
  MaxTerminates,  \* bound on Terminate actions
  MaxFaults       \* bound on disconnects, failing kills and lost acknowledgements

ASSUME ActionConstants ==
  /\ PendingLimit \in Nat \ {0}
  /\ MaxTerminates \in Nat
  /\ MaxFaults \in Nat

VARIABLES
  actions,     \* table "backend_action" in the order of created_at
  acked,       \* those with an acked_at
  connected,   \* is the drone's socket up
  wire,        \* actions sent on the connection
  ackWire,     \* AckActions sent on the connection
  task,        \* the handle_message tasks
  handles,     \* KeyManager.handles
  loop,        \* the renew_key_loop of each handle: waiting, or killing
  manager,     \* Executor.backends
  faults,      \* number of failures so far
  applied,     \* history: actions that were applied
  robbed,      \* history: backends whose key was unregistered for another end than theirs
  doubled,     \* history: backends with a second manager before the end of the first
  ended        \* history: backends registered as Terminated

dbVars == <<actions, acked>>
netVars == <<connected, wire, ackWire>>
droneVars == <<task, handles, loop, manager>>
historyVars == <<applied, robbed, doubled, ended>>
vars == <<dbVars, netVars, droneVars, faults, historyVars>>

Ids == DOMAIN actions
Idle == [pc |-> "idle", id |-> 0, left |-> FALSE]
Live(b) == manager[b] = "live"

BackendOf(t) == actions[task[t].id].backend

TypeOK ==
  /\ actions \in Seq([kind : {"spawn", "terminate"}, backend : Backends])
  /\ acked \subseteq Ids
  /\ connected \in BOOLEAN
  /\ wire \subseteq Ids
  /\ ackWire \subseteq Ids
  /\ task \in [Tasks -> [pc : {"idle", "register", "apply", "kill", "ack"}, id : Nat,
                       left : BOOLEAN]]
  /\ \A t \in Tasks : task[t].pc = "idle" \/ task[t].id \in Ids
  /\ handles \subseteq Backends
  /\ loop \in [Backends -> {"waiting", "killing", "done"}]
  /\ manager \in [Backends -> {"none", "live", "terminated"}]
  /\ faults \in 0..MaxFaults
  /\ applied \subseteq Ids
  /\ robbed \subseteq Backends
  /\ doubled \subseteq Backends
  /\ ended \subseteq Backends

Init ==
  /\ actions = <<>>
  /\ acked = {}
  /\ connected = FALSE
  /\ wire = {}
  /\ ackWire = {}
  /\ task = [t \in Tasks |-> Idle]
  /\ handles = {}
  /\ loop = [b \in Backends |-> "done"]
  /\ manager = [b \in Backends |-> "none"]
  /\ faults = 0
  /\ applied = {}
  /\ robbed = {}
  /\ doubled = {}
  /\ ended = {}

-----------------------------------------------------------------------------
(* The controller *)

\* create_pending_action: the row and the notification are one transaction;
\* the notification may or may not find a socket to the drone.
create_pending_action(kind, b, notified) ==
  /\ notified => connected
  /\ actions' = Append(actions, [kind |-> kind, backend |-> b])
  /\ wire' = IF notified THEN wire \cup {Len(actions) + 1} ELSE wire
  /\ UNCHANGED <<acked, connected, ackWire, droneVars, faults, historyVars>>

\* create_backend_with_key
CreateSpawn(b, notified) ==
  /\ \A id \in Ids : actions[id].backend # b
  /\ create_pending_action("spawn", b, notified)

\* The terminate endpoints and the sweep loop, for a backend with a row.
CreateTerminate(b, notified) ==
  /\ \E id \in Ids : actions[id].backend = b
  /\ Cardinality({id \in Ids : actions[id].kind = "terminate"}) < MaxTerminates
  /\ create_pending_action("terminate", b, notified)

\* pending_actions: the oldest without an acknowledgement.
pending_actions ==
  {id \in Ids \ acked : Cardinality({older \in Ids \ acked : older < id}) < PendingLimit}

\* process_pending_actions, after connecting and every five seconds.
process_pending_actions ==
  /\ connected
  /\ wire' = wire \cup pending_actions
  /\ UNCHANGED <<dbVars, connected, ackWire, droneVars, faults, historyVars>>

\* Mutant: all actions of the backend are acknowledged.
HandleAckActionBackend(id) ==
  /\ id \in ackWire
  /\ ackWire' = ackWire \ {id}
  /\ acked' = acked \cup {other \in Ids : actions[other].backend = actions[id].backend}
  /\ UNCHANGED <<actions, connected, wire, droneVars, faults, historyVars>>

\* ack_pending_action
HandleAckAction(id) ==
  /\ id \in ackWire
  /\ ackWire' = ackWire \ {id}
  /\ acked' = acked \cup {id}
  /\ UNCHANGED <<actions, connected, wire, droneVars, faults, historyVars>>

\* The update fails, or a full queue swallows the AckAction.
LoseAck(id) ==
  /\ id \in ackWire
  /\ faults < MaxFaults
  /\ faults' = faults + 1
  /\ ackWire' = ackWire \ {id}
  /\ UNCHANGED <<dbVars, connected, wire, droneVars, historyVars>>

Connect ==
  /\ ~connected
  /\ connected' = TRUE
  /\ UNCHANGED <<dbVars, wire, ackWire, droneVars, faults, historyVars>>

\* What was sent and not received is lost; tasks go on.
Disconnect ==
  /\ connected
  /\ faults < MaxFaults
  /\ faults' = faults + 1
  /\ connected' = FALSE
  /\ wire' = {}
  /\ ackWire' = {}
  /\ task' = [t \in Tasks |-> IF task[t].pc = "idle" THEN Idle ELSE [task[t] EXCEPT !.left = TRUE]]
  /\ UNCHANGED <<dbVars, handles, loop, manager, historyVars>>

-----------------------------------------------------------------------------
(* The drone *)

SetTask(t, pc) == task' = [task EXCEPT ![t].pc = pc]
EndTask(t) == task' = [task EXCEPT ![t] = Idle]

\* drone_loop spawns handle_message for every message.
Receive(t, id) ==
  /\ connected
  /\ id \in wire
  /\ task[t].pc = "idle"
  /\ wire' = wire \ {id}
  /\ task' = [task EXCEPT ![t] = [pc |-> IF actions[id].kind = "spawn" THEN "register" ELSE "apply",
                                  id |-> id, left |-> FALSE]]
  /\ UNCHANGED <<dbVars, connected, ackWire, handles, loop, manager, faults, historyVars>>

\* Mutant: a key that is registered already is registered again.
RegisterKeyAgain(t) ==
  /\ task[t].pc = "register"
  /\ handles' = handles \cup {BackendOf(t)}
  /\ loop' = [loop EXCEPT ![BackendOf(t)] = "waiting"]
  /\ SetTask(t, "apply")
  /\ UNCHANGED <<dbVars, netVars, manager, faults, historyVars>>

\* register_key, or the end of the task without an acknowledgement.
RegisterKey(t) ==
  /\ task[t].pc = "register"
  /\ IF BackendOf(t) \in handles
       THEN EndTask(t) /\ UNCHANGED <<handles, loop>>
       ELSE /\ handles' = handles \cup {BackendOf(t)}
            /\ loop' = [loop EXCEPT ![BackendOf(t)] = "waiting"]
            /\ SetTask(t, "apply")
  /\ UNCHANGED <<dbVars, netVars, manager, faults, historyVars>>

\* The listener of the state store: a Terminated event unregisters the key,
\* which aborts its loop.  It is the event of the manager itself, or one that
\* was registered without it.
RegisterTerminated(b, own) ==
  /\ ended' = ended \cup {b}
  /\ handles' = handles \ {b}
  /\ loop' = [loop EXCEPT ![b] = "done"]
  /\ robbed' = IF own THEN robbed ELSE robbed \cup ({b} \cap handles)

\* apply_action for Spawn: a new manager, whatever was there.
ApplySpawn(t) ==
  /\ task[t].pc = "apply"
  /\ actions[task[t].id].kind = "spawn"
  /\ manager' = [manager EXCEPT ![BackendOf(t)] = "live"]
  /\ doubled' = IF Live(BackendOf(t)) THEN doubled \cup {BackendOf(t)} ELSE doubled
  /\ applied' = applied \cup {task[t].id}
  /\ SetTask(t, "ack")
  /\ UNCHANGED <<dbVars, netVars, handles, loop, faults, robbed, ended>>

\* Mutant: the key is given up when the backend is told to terminate.
ApplyTerminateReleases(t) ==
  /\ task[t].pc = "apply"
  /\ actions[task[t].id].kind = "terminate"
  /\ manager[BackendOf(t)] # "none"
  /\ RegisterTerminated(BackendOf(t), Live(BackendOf(t)))
  /\ applied' = applied \cup {task[t].id}
  /\ SetTask(t, "ack")
  /\ UNCHANGED <<dbVars, netVars, manager, faults, doubled>>

\* apply_action for Terminate: told to a live manager; one that is
\* Terminated registers that once more.
ApplyTerminate(t) ==
  /\ task[t].pc = "apply"
  /\ actions[task[t].id].kind = "terminate"
  /\ manager[BackendOf(t)] # "none"
  /\ IF Live(BackendOf(t))
       THEN UNCHANGED <<handles, loop, robbed, ended>>
       ELSE RegisterTerminated(BackendOf(t), FALSE)
  /\ applied' = applied \cup {task[t].id}
  /\ SetTask(t, "ack")
  /\ UNCHANGED <<dbVars, netVars, manager, faults, doubled>>

\* Without a manager the runtime is asked to terminate whatever there is, ...
ApplyToMissing(t) ==
  /\ task[t].pc = "apply"
  /\ actions[task[t].id].kind = "terminate"
  /\ manager[BackendOf(t)] = "none"
  /\ SetTask(t, "kill")
  /\ UNCHANGED <<dbVars, netVars, handles, loop, manager, faults, historyVars>>

\* ... and when it has, the backend is registered as lost.
KillDone(t) ==
  /\ task[t].pc = "kill"
  /\ RegisterTerminated(BackendOf(t), FALSE)
  /\ applied' = applied \cup {task[t].id}
  /\ SetTask(t, "ack")
  /\ UNCHANGED <<dbVars, netVars, manager, faults, doubled>>

\* An error of the runtime ends the task without an acknowledgement.
KillFails(t) ==
  /\ task[t].pc = "kill"
  /\ faults < MaxFaults
  /\ faults' = faults + 1
  /\ EndTask(t)
  /\ UNCHANGED <<dbVars, netVars, handles, loop, manager, historyVars>>

\* AckAction goes to the connection the action came from.  One that the drone
\* has left may be open, and read by the controller, as long as a task uses it.
SendAck(t, sent) ==
  /\ task[t].pc = "ack"
  /\ ackWire' = IF sent THEN ackWire \cup {task[t].id} ELSE ackWire
  /\ faults' = IF sent \/ task[t].left THEN faults ELSE faults + 1
  /\ faults' <= MaxFaults
  /\ EndTask(t)
  /\ UNCHANGED <<dbVars, connected, wire, handles, loop, manager, historyVars>>

\* renew_key_loop finds the key expired and terminates through apply_action.
KeyExpires(b) ==
  /\ b \in handles
  /\ loop[b] = "waiting"
  /\ IF manager[b] = "terminated"
       THEN RegisterTerminated(b, FALSE)
       ELSE /\ loop' = [loop EXCEPT ![b] = IF Live(b) THEN "done" ELSE "killing"]
            /\ UNCHANGED <<handles, robbed, ended>>
  /\ UNCHANGED <<dbVars, netVars, task, manager, faults, applied, doubled>>

LoopKillDone(b) ==
  /\ loop[b] = "killing"
  /\ RegisterTerminated(b, FALSE)
  /\ UNCHANGED <<dbVars, netVars, task, manager, faults, applied, doubled>>

\* The manager of a backend comes to its end: by the exit event, which
\* removes it, or by a failure, which leaves it in the map.
ManagerEnds(b, removed) ==
  /\ Live(b)
  /\ manager' = [manager EXCEPT ![b] = IF removed THEN "none" ELSE "terminated"]
  /\ RegisterTerminated(b, TRUE)
  /\ UNCHANGED <<dbVars, netVars, task, faults, applied, doubled>>

\* The exit event of a manager that is Terminated already removes it and
\* registers Terminated again.
LateExit(b) ==
  /\ manager[b] = "terminated"
  /\ manager' = [manager EXCEPT ![b] = "none"]
  /\ RegisterTerminated(b, FALSE)
  /\ UNCHANGED <<dbVars, netVars, task, faults, applied, doubled>>

-----------------------------------------------------------------------------
ControllerNext ==
  \/ \E b \in Backends, notified \in BOOLEAN :
       CreateSpawn(b, notified) \/ CreateTerminate(b, notified)
  \/ process_pending_actions
  \/ \E id \in ackWire : HandleAckAction(id) \/ LoseAck(id)
  \/ Connect
  \/ Disconnect

TaskNext(t) ==
  \/ \E id \in wire : Receive(t, id)
  \/ RegisterKey(t)
  \/ ApplySpawn(t)
  \/ ApplyTerminate(t)
  \/ ApplyToMissing(t)
  \/ KillDone(t)
  \/ KillFails(t)
  \/ \E sent \in BOOLEAN : SendAck(t, sent)

BackendNext(b) ==
  \/ KeyExpires(b)
  \/ LoopKillDone(b)
  \/ \E removed \in BOOLEAN : ManagerEnds(b, removed)
  \/ LateExit(b)

Next ==
  \/ ControllerNext
  \/ \E t \in Tasks : TaskNext(t)
  \/ \E b \in Backends : BackendNext(b)

Spec == Init /\ [][Next]_vars

\* A drone connects again and again, pending actions are sent every five
\* seconds, tasks run to their end, and an action that is sent again and again
\* is received.
AllIds == 1 .. (Cardinality(Backends) + MaxTerminates)
Fairness ==
  /\ WF_vars(Connect)
  /\ WF_vars(process_pending_actions)
  /\ \A t \in Tasks :
       WF_vars(RegisterKey(t) \/ ApplySpawn(t) \/ ApplyTerminate(t) \/ ApplyToMissing(t)
               \/ KillDone(t) \/ SendAck(t, TRUE))
  /\ \A id \in AllIds :
       SF_vars(\E t \in Tasks : Receive(t, id)) /\ WF_vars(HandleAckAction(id))

FairSpec == Spec /\ Fairness

-----------------------------------------------------------------------------
(* Properties *)

\* Deliveries of a Spawn, however often it is sent, and deliveries of
\* Terminates together never leave a live backend without the handle that
\* renews its key and terminates it when that fails; except for a backend
\* whose key was unregistered because a termination found no live manager.
LiveHasHandle ==
  \A b \in Backends \ robbed : Live(b) => b \in handles

\* Under the same exception a Spawn that is delivered twice does not replace
\* the manager of the first: registering the key is what keeps it out.
NoSecondManager == doubled \subseteq robbed

\* Every Terminate is acknowledged in the end, and every Spawn is applied:
\* neither is lost with a notification, a connection or a failing kill.
ActionsDelivered ==
  \A id \in AllIds :
    /\ (id \in Ids /\ actions[id].kind = "terminate") ~> id \in acked
    /\ (id \in Ids /\ actions[id].kind = "spawn") ~> id \in applied

-----------------------------------------------------------------------------
(* The inductive invariant behind LiveHasHandle and NoSecondManager *)

\* Task t has registered the key of b and is about to start its manager.
Spawning(t, b) ==
  task[t].pc = "apply" /\ actions[task[t].id] = [kind |-> "spawn", backend |-> b]

\* The key handle of a backend admits one manager, live or about to be.
OnePerHandle(b) ==
  /\ Live(b) => b \in handles
  /\ \A t \in Tasks : Spawning(t, b) => b \in handles /\ ~Live(b)
  /\ \A t, u \in Tasks : Spawning(t, b) /\ Spawning(u, b) => t = u

IInv == TypeOK /\ NoSecondManager /\ \A b \in Backends \ robbed : OnePerHandle(b)

=============================================================================
