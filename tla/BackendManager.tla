--------------------------- MODULE BackendManager ---------------------------
(***************************************************************************)
(* The backend manager of one backend, from the Spawn action on: the state *)
(* behind its mutex, the task that drives the next change, the callers of  *)
(* terminate and mark_terminated, the executor's map of managers, and the  *)
(* container as Docker sees it.                                            *)
(*                                                                         *)
(* set_state runs under the mutex and is one step.  Whoever calls it has   *)
(* computed the new state before, outside of that critical section:        *)
(* terminate and mark_terminated from the state they read in an earlier    *)
(* one, a task from the state it was started for.  A task that is past its *)
(* future and waits for the mutex cannot be aborted any more.  "calls"     *)
(* holds these computed states on their way.                               *)
(***************************************************************************)
EXTENDS BackendState, FiniteSets

CONSTANTS
  MaxTerminates,  \* bound on Terminate actions
  MaxErrors       \* bound on failures of Docker and of the state store

ASSUME ManagerConstants == MaxTerminates \in Nat /\ MaxErrors \in Nat

VARIABLES
  state,       \* BackendManagerState.state
  task,        \* where the task in BackendManagerState.handle is, or Absent
  calls,       \* states that set_state has been called with and not yet set
  inMap,       \* is the manager in Executor.backends
  request,     \* the Docker request for the container's start in progress
  container,   \* the container in Docker
  exitEvent,   \* a die event that the event listener has not handled
  terminates,  \* number of Terminate actions so far
  errors,      \* number of failures so far
  stuck,       \* history: the state callback failed
  missed,      \* history: an exit event came before the manager was in the map
  entered      \* history: how often each status was set

vars == <<state, task, calls, inMap, request, container, exitEvent, terminates, errors, stuck,
          missed, entered>>

\* The awaits of the futures of step_state.
TaskStep == {"prepare", "spawn", "create", "start", "port", "wait", "inspect", "stop", "pending"}

TypeOK ==
  /\ state \in State
  /\ task \in TaskStep \cup {Absent}
  /\ calls \subseteq State
  /\ inMap \in {"new", "yes", "removed"}
  /\ request \in {"create", "start", Absent}
  /\ container \in {Absent, "created", "running", "exited"}
  /\ exitEvent \in BOOLEAN
  /\ terminates \in 0..MaxTerminates
  /\ errors \in 0..MaxErrors
  /\ stuck \in BOOLEAN
  /\ missed \in BOOLEAN
  /\ entered \in [BackendStatus -> Nat]

\* BackendManager::new calls set_state with the default state.
Init ==
  /\ state = Plain("scheduled")
  /\ task = Absent
  /\ calls = {Plain("scheduled")}
  /\ inMap = "new"
  /\ request = Absent
  /\ container = Absent
  /\ exitEvent = FALSE
  /\ terminates = 0
  /\ errors = 0
  /\ stuck = FALSE
  /\ missed = FALSE
  /\ entered = [s \in BackendStatus |-> 0]

-----------------------------------------------------------------------------
(* set_state *)

\* Mutant: nothing is started for the termination after a soft one.
step_state_no_hard(status) ==
  CASE status = "loading" -> "prepare"
    [] status = "starting" -> "spawn"
    [] status = "waiting" -> "wait"
    [] status = "terminating" -> "inspect"
    [] OTHER -> Absent

\* step_state: the task that a state starts with, if any.
step_state(status) ==
  CASE status = "loading" -> "prepare"
    [] status = "starting" -> "spawn"
    [] status = "waiting" -> "wait"
    [] status \in {"terminating", "hard-terminating"} -> "inspect"
    [] OTHER -> Absent

\* A call gets the mutex: it sets the state, drops and so aborts the current
\* task, calls the state callback and starts the next task.  Scheduled
\* releases the mutex and calls set_state again.  A failing callback leaves
\* the new state without a task.
set_state(st, ok) ==
  /\ st \in calls
  /\ state' = st
  /\ task' = IF ok THEN step_state(st.status) ELSE Absent
  /\ calls' = (calls \ {st}) \cup IF ok /\ st.status = "scheduled" THEN {Plain("loading")} ELSE {}
  /\ errors' = IF ok THEN errors ELSE errors + 1
  /\ errors' <= MaxErrors
  /\ stuck' = (stuck \/ ~ok)
  /\ entered' = [entered EXCEPT ![st.status] = @ + 1]
  /\ UNCHANGED <<inMap, request, container, exitEvent, terminates, missed>>

\* A task's future resolves to st; the task goes on to call set_state.
Resolve(st) == task' = Absent /\ calls' = calls \cup {st}

\* What an error of Docker costs.
Fail == errors < MaxErrors /\ errors' = errors + 1

-----------------------------------------------------------------------------
(* The executor *)

\* apply_action for Spawn: new() has set Scheduled and Loading when the
\* manager is inserted, and the first tasks may be done already.
Insert ==
  /\ inMap = "new"
  /\ calls \cap {Plain("scheduled"), Plain("loading")} = {}
  /\ inMap' = "yes"
  /\ UNCHANGED <<state, task, calls, request, container, exitEvent, terminates, errors, stuck, missed,
                 entered>>

\* terminate: the state is read in a critical section of its own.
terminate(kind, reason) ==
  /\ inMap = "yes"
  /\ terminates < MaxTerminates
  /\ terminates' = terminates + 1
  /\ calls' = calls \cup {IF kind = "soft" THEN to_terminating(state, reason)
                                         ELSE to_hard_terminating(state, reason)}
  /\ UNCHANGED <<state, task, inMap, request, container, exitEvent, errors, stuck, missed, entered>>

\* The event listener removes the manager and calls mark_terminated, which
\* reads the state like terminate; without a manager the event is ignored.
HandleExit ==
  /\ exitEvent
  /\ exitEvent' = FALSE
  /\ inMap' = IF inMap = "yes" THEN "removed" ELSE inMap
  /\ calls' = IF inMap = "yes" THEN calls \cup {to_terminated(state)} ELSE calls
  /\ missed' = (missed \/ inMap = "new")
  /\ UNCHANGED <<state, task, request, container, terminates, errors, stuck, entered>>

-----------------------------------------------------------------------------
(* The futures of step_state *)

PrepareDone ==
  /\ task = "prepare"
  /\ Resolve(Plain("starting"))
  /\ UNCHANGED <<state, inMap, request, container, exitEvent, terminates, errors, stuck, missed, entered>>

\* Mutant: a failed preparation is tried again by entering Loading again.
PrepareFailsAgain ==
  /\ task = "prepare"
  /\ Fail
  /\ Resolve(state)
  /\ UNCHANGED <<state, inMap, request, container, exitEvent, terminates, stuck, missed, entered>>

PrepareFails ==
  /\ task = "prepare"
  /\ Fail
  /\ Resolve(to_terminated(state))
  /\ UNCHANGED <<state, inMap, request, container, exitEvent, terminates, stuck, missed, entered>>

\* runtime.spawn: run_container asks Docker to create the container, ...
SpawnCreate ==
  /\ task = "spawn"
  /\ task' = "create"
  /\ request' = "create"
  /\ UNCHANGED <<state, calls, inMap, container, exitEvent, terminates, errors, stuck, missed, entered>>

\* ... then to start it, ...
CreateDone ==
  /\ request = "create"
  /\ container' = "created"
  /\ IF task = "create"
       THEN task' = "start" /\ request' = "start"
       ELSE request' = Absent /\ UNCHANGED task
  /\ UNCHANGED <<state, calls, inMap, exitEvent, terminates, errors, stuck, missed, entered>>

\* ... and get_port looks up its port.
StartDone ==
  /\ request = "start"
  /\ container' = "running"
  /\ request' = Absent
  /\ task' = IF task = "start" THEN "port" ELSE task
  /\ UNCHANGED <<state, calls, inMap, exitEvent, terminates, errors, stuck, missed, entered>>

PortDone ==
  /\ task = "port"
  /\ Resolve(Plain("waiting"))
  /\ UNCHANGED <<state, inMap, request, container, exitEvent, terminates, errors, stuck, missed, entered>>

\* Any of the three fails: the state becomes Terminated, whatever became of
\* the container.
SpawnFails ==
  /\ task \in {"create", "start", "port"}
  /\ Fail
  /\ Resolve(to_terminated(state))
  /\ request' = Absent
  /\ UNCHANGED <<state, inMap, container, exitEvent, terminates, stuck, missed, entered>>

\* Docker gives up a request whose task was aborted.
RequestDropped ==
  /\ request # Absent
  /\ task \notin {"create", "start"}
  /\ request' = Absent
  /\ UNCHANGED <<state, task, calls, inMap, container, exitEvent, terminates, errors, stuck, missed, entered>>

\* wait_for_backend: the backend answers, or does not in time.
WaitDone ==
  /\ task = "wait"
  /\ container = "running"
  /\ Resolve(Plain("ready"))
  /\ UNCHANGED <<state, inMap, request, container, exitEvent, terminates, errors, stuck, missed, entered>>

WaitFails(reason) ==
  /\ task = "wait"
  /\ Resolve(to_hard_terminating(state, reason))
  /\ UNCHANGED <<state, inMap, request, container, exitEvent, terminates, errors, stuck, missed, entered>>

\* Mutant: it is left to the exit event even if there is nothing to terminate.
TerminateInspectWaits ==
  /\ task = "inspect"
  /\ task' = IF container = "running" THEN "stop" ELSE "pending"
  /\ UNCHANGED <<state, calls, inMap, request, container, exitEvent, terminates, errors, stuck, missed,
                 entered>>

\* handle_terminating: a container that does not run is as good as terminated.
TerminateInspect ==
  /\ task = "inspect"
  /\ IF container = "running"
       THEN task' = "stop" /\ UNCHANGED calls
       ELSE Resolve(to_terminated(state))
  /\ UNCHANGED <<state, inMap, request, container, exitEvent, terminates, errors, stuck, missed, entered>>

\* The container is stopped or killed, or had exited (Docker answers that
\* the container is not modified).  From here only the exit event counts.
StopDone ==
  /\ task = "stop"
  /\ task' = "pending"
  /\ container' = "exited"
  /\ exitEvent' = (exitEvent \/ container = "running")
  /\ UNCHANGED <<state, calls, inMap, request, terminates, errors, stuck, missed, entered>>

\* Docker answers a kill of a container that has exited with a conflict.
StopConflict ==
  /\ task = "stop"
  /\ container = "exited"
  /\ Resolve(to_terminated(state))
  /\ UNCHANGED <<state, inMap, request, container, exitEvent, terminates, errors, stuck, missed, entered>>

\* An error is retried after a backoff.
TerminateFails ==
  /\ task \in {"inspect", "stop"}
  /\ Fail
  /\ task' = "inspect"
  /\ UNCHANGED <<state, calls, inMap, request, container, exitEvent, terminates, stuck, missed, entered>>

-----------------------------------------------------------------------------
(* Docker *)

\* The container exits by itself, or by a kill whose task was aborted.
ContainerExits ==
  /\ container = "running"
  /\ container' = "exited"
  /\ exitEvent' = TRUE
  /\ UNCHANGED <<state, task, calls, inMap, request, terminates, errors, stuck, missed, entered>>

Callers ==
  \/ \E st \in calls, ok \in BOOLEAN : set_state(st, ok)
  \/ Insert
  \/ \E kind \in TerminationKind, reason \in {"swept", "keyexpired"} : terminate(kind, reason)
  \/ HandleExit

Futures ==
  \/ PrepareDone \/ PrepareFails
  \/ SpawnCreate \/ PortDone \/ SpawnFails
  \/ WaitDone \/ \E reason \in {"startuptimeout", "internalerror"} : WaitFails(reason)
  \/ TerminateInspect \/ StopDone \/ StopConflict \/ TerminateFails

Docker == CreateDone \/ StartDone \/ RequestDropped \/ ContainerExits

Next == Callers \/ Futures \/ Docker

Spec == Init /\ [][Next]_vars

\* The runtime polls every task that is ready, the mutex is fair, Docker
\* answers, and the event listener is never blocked for good.
Fairness ==
  /\ WF_vars(\E st \in calls : set_state(st, TRUE))
  /\ WF_vars(Insert)
  /\ WF_vars(HandleExit)
  /\ WF_vars(Futures)
  /\ WF_vars(CreateDone)
  /\ WF_vars(StartDone)

FairSpec == Spec /\ Fairness

-----------------------------------------------------------------------------
(* Properties *)

\* In a state that step_state starts a task for there is a task at work, or
\* a change on its way, unless the state callback failed: aborting the old
\* task never leaves the manager without the next.
Driven ==
  \/ state.status \in {"ready", "terminated"}
  \/ task # Absent
  \/ calls # {}
  \/ stuck

\* Whatever the races, no status before termination is entered twice, so
\* runtime.spawn is called at most once for a manager.
StartedOnce ==
  \A s \in {"loading", "starting", "waiting", "ready"} : entered[s] <= 1

\* Whatever state is set or about to be set says how it came about: a
\* termination keeps the status from before its first step, through soft and
\* hard and the exit event.
CoherentStates == Coherent(state) /\ \A st \in calls : Coherent(st)

\* A manager always gets to Ready or Terminated again, unless the state
\* callback failed or the exit of the container went unnoticed because the
\* executor had not inserted the manager yet.
Settles == []<>(state.status \in {"ready", "terminated"} \/ stuck \/ missed)

=============================================================================
