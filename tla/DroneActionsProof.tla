-------------------------- MODULE DroneActionsProof --------------------------
(***************************************************************************)
(* For any backends, any number of concurrent tasks and any actions: the   *)
(* handle that register_key hands out admits one manager at a time, so     *)
(* that repeated deliveries of a Spawn neither start a backend twice nor   *)
(* leave a live one without its handle, as long as no termination that     *)
(* finds no live manager takes the handle away.                            *)
(***************************************************************************)
EXTENDS DroneActions, TLAPS

Action == [kind : {"spawn", "terminate"}, backend : Backends]

TaskState ==
  [pc : {"idle", "register", "apply", "kill", "ack"}, id : Nat, left : BOOLEAN]

\* The updates of a task's state, one for each way to go on.
LEMMA TaskUpdates ==
  ASSUME NEW x \in TaskState
  PROVE  /\ \A pc \in {"idle", "register", "apply", "kill", "ack"} : [x EXCEPT !.pc = pc] \in TaskState
         /\ [x EXCEPT !.left = TRUE] \in TaskState
         /\ [x EXCEPT !.left = TRUE].pc = x.pc /\ [x EXCEPT !.left = TRUE].id = x.id
         /\ Idle \in TaskState
  BY Zenon DEF TaskState, Idle

\* create_pending_action leaves the actions before it alone.
LEMMA AppendKeeps ==
  ASSUME actions \in Seq(Action), NEW x \in Action
  PROVE  /\ Append(actions, x) \in Seq(Action)
         /\ DOMAIN Append(actions, x) = DOMAIN actions \cup {Len(actions) + 1}
         /\ \A id \in DOMAIN actions : Append(actions, x)[id] = actions[id]
  OBVIOUS

\* What an action in the table is.
LEMMA ActionType ==
  ASSUME TypeOK, NEW id \in Ids
  PROVE  /\ actions[id] \in Action
         /\ actions[id].kind \in {"spawn", "terminate"}
         /\ actions[id].backend \in Backends
         /\ id \in Nat
  <1>1. actions \in Seq(Action)
    BY Zenon DEF TypeOK, Action
  <1>2. actions[id] \in Action /\ id \in Nat
    BY <1>1 DEF Ids
  <1> QED
    BY <1>2, Zenon DEF Action

\* A task that is at work has its action in the table.
LEMMA TaskType ==
  ASSUME TypeOK, NEW t \in Tasks
  PROVE  /\ task[t] \in TaskState
         /\ task[t].pc # "idle" => task[t].id \in Ids /\ BackendOf(t) \in Backends
  <1>1. task[t] \in TaskState
    BY Zenon DEF TypeOK, TaskState
  <1>2. task[t].pc # "idle" => task[t].id \in Ids
    BY Zenon DEF TypeOK
  <1> QED
    BY <1>1, <1>2, ActionType, Zenon DEF BackendOf

\* Changing one task keeps the tasks well typed.
LEMMA TaskStepType ==
  ASSUME TypeOK, NEW t \in Tasks, task[t].pc # "idle", UNCHANGED actions,
         (\E pc \in {"register", "apply", "kill", "ack"} : SetTask(t, pc)) \/ EndTask(t)
  PROVE  /\ task' \in [Tasks -> TaskState]
         /\ \A u \in Tasks : task'[u].pc = "idle" \/ task'[u].id \in Ids'
         /\ \A u \in Tasks : u # t => task'[u] = task[u]
  <1>1. task \in [Tasks -> TaskState]
    BY Zenon DEF TypeOK, TaskState
  <1>2. Ids' = Ids
    BY Zenon DEF Ids
  <1>3. CASE EndTask(t)
    <2>1. task' = [task EXCEPT ![t] = Idle]
      BY <1>3, Zenon DEF EndTask
    <2>2. Idle \in TaskState /\ Idle.pc = "idle"
      BY Zenon DEF Idle, TaskState
    <2> QED
      BY <1>1, <1>2, <2>1, <2>2, Zenon DEF TypeOK
  <1>4. ASSUME NEW pc \in {"register", "apply", "kill", "ack"}, SetTask(t, pc)
        PROVE  /\ task' \in [Tasks -> TaskState]
               /\ \A u \in Tasks : task'[u].pc = "idle" \/ task'[u].id \in Ids'
               /\ \A u \in Tasks : u # t => task'[u] = task[u]
    <2>1. task' = [task EXCEPT ![t] = [task[t] EXCEPT !.pc = pc]]
      BY <1>4, Zenon DEF SetTask
    <2>2. [task[t] EXCEPT !.pc = pc] \in TaskState
      BY <1>1, TaskUpdates, Zenon
    <2>3. [task[t] EXCEPT !.pc = pc].id = task[t].id
      BY <1>1, Zenon DEF TaskState
    <2> QED
      BY <1>1, <1>2, <2>1, <2>2, <2>3, Zenon DEF TypeOK
  <1> QED
    BY <1>3, <1>4, Zenon

\* The listener's part of a step keeps its variables well typed.
LEMMA TerminatedType ==
  ASSUME TypeOK, NEW b \in Backends, NEW own \in BOOLEAN, RegisterTerminated(b, own)
  PROVE  /\ handles' \subseteq Backends /\ ended' \subseteq Backends /\ robbed' \subseteq Backends
         /\ loop' \in [Backends -> {"waiting", "killing", "done"}]
  BY Zenon DEF TypeOK, RegisterTerminated

-----------------------------------------------------------------------------
(* Handles and managers *)

\* Whatever leaves handles, managers and the record of unregistered keys
\* alone and starts no manager keeps them in step: messages, acknowledgements,
\* connections, and the tasks that end.
LEMMA QuietKeeps ==
  ASSUME IInv, UNCHANGED <<handles, manager, robbed, doubled>>,
         \A t \in Tasks, b \in Backends : Spawning(t, b)' => Spawning(t, b)
  PROVE  NoSecondManager' /\ \A b \in Backends \ robbed' : OnePerHandle(b)'
  BY Zenon DEF IInv, NoSecondManager, OnePerHandle, Live

\* A Terminated event that is not the manager's own takes away the handle of
\* a backend, which is recorded, or there was none.
LEMMA RobbingKeeps ==
  ASSUME IInv, NEW c \in Backends, RegisterTerminated(c, FALSE), UNCHANGED doubled,
         \A b \in Backends : Live(b)' => Live(b),
         \A t \in Tasks, b \in Backends : Spawning(t, b)' => Spawning(t, b)
  PROVE  NoSecondManager' /\ \A b \in Backends \ robbed' : OnePerHandle(b)'
  <1>1. robbed' = robbed \cup ({c} \cap handles) /\ handles' = handles \ {c}
    BY Zenon DEF RegisterTerminated
  <1>2. NoSecondManager'
    BY <1>1, Zenon DEF IInv, NoSecondManager
  <1>3. ASSUME NEW b \in Backends \ robbed' PROVE OnePerHandle(b)'
    <2>1. OnePerHandle(b) /\ b \in Backends
      BY <1>1, Zenon DEF IInv
    <2>2. b \in handles => b \in handles'
      BY <1>1, Zenon
    <2> QED
      BY <2>1, <2>2, Zenon DEF OnePerHandle
  <1> QED
    BY <1>2, <1>3, Zenon

\* A task whose state is not changed, or changed to other than "apply", is not
\* about to start a manager if it was not before.
LEMMA NoNewSpawning ==
  ASSUME TypeOK, NEW t \in Tasks, UNCHANGED actions, task'[t].pc # "apply",
         \A u \in Tasks : u # t => task'[u] = task[u]
  PROVE  \A u \in Tasks, b \in Backends : Spawning(u, b)' => Spawning(u, b) /\ u # t
  BY Zenon DEF Spawning

\* EndTask and SetTask leave the task where they say.
LEMMA TaskAt ==
  ASSUME TypeOK, NEW t \in Tasks
  PROVE  /\ EndTask(t) => task'[t].pc = "idle"
         /\ \A pc \in {"register", "apply", "kill", "ack"} :
              SetTask(t, pc) => task'[t].pc = pc /\ task'[t].id = task[t].id
  <1>1. task \in [Tasks -> TaskState]
    BY Zenon DEF TypeOK, TaskState
  <1>2. EndTask(t) => task'[t] = Idle
    BY <1>1, Zenon DEF EndTask
  <1>3. ASSUME NEW pc \in {"register", "apply", "kill", "ack"}, SetTask(t, pc)
        PROVE  task'[t].pc = pc /\ task'[t].id = task[t].id
    <2>1. task' = [task EXCEPT ![t] = [task[t] EXCEPT !.pc = pc]]
      BY <1>3, Zenon DEF SetTask
    <2>2. task'[t] = [task[t] EXCEPT !.pc = pc]
      BY <1>1, <2>1, Zenon
    <2> QED
      BY <1>1, <2>2 DEF TaskState
  <1> QED
    BY <1>2, <1>3 DEF Idle

-----------------------------------------------------------------------------
(* The steps *)

\* A new action in the table changes none of the others.
LEMMA CreateStep ==
  ASSUME IInv, NEW kind \in {"spawn", "terminate"}, NEW b \in Backends, NEW notified \in BOOLEAN,
         create_pending_action(kind, b, notified)
  PROVE  IInv'
  <1> DEFINE x == [kind |-> kind, backend |-> b]
  <1>0. TypeOK
    BY Zenon DEF IInv
  <1>1. actions \in Seq(Action) /\ x \in Action
    BY Zenon DEF IInv, TypeOK, Action
  <1>2. actions' = Append(actions, x)
    BY Zenon DEF create_pending_action
  <1> HIDE DEF x
  <1>3. /\ actions' \in Seq(Action)
        /\ Ids' = Ids \cup {Len(actions) + 1}
        /\ \A id \in Ids : actions'[id] = actions[id]
    BY <1>1, <1>2, AppendKeeps, Zenon DEF Ids
  <1>4. UNCHANGED <<acked, connected, ackWire, task, handles, loop, manager, faults, applied, robbed,
                    doubled, ended>>
    BY Zenon DEF create_pending_action, droneVars, historyVars
  <1>5. wire' \subseteq Ids'
    BY <1>0, <1>3, Zenon DEF create_pending_action, TypeOK
  <1>6. TypeOK'
    BY <1>0, <1>3, <1>4, <1>5, Zenon DEF TypeOK, Action
  <1>7. \A t \in Tasks, c \in Backends : Spawning(t, c)' => Spawning(t, c)
    BY <1>0, <1>3, <1>4, Zenon DEF Spawning, TypeOK
  <1>8. NoSecondManager' /\ \A c \in Backends \ robbed' : OnePerHandle(c)'
    BY <1>4, <1>7, QuietKeeps, Zenon
  <1> QED
    BY <1>6, <1>8, Zenon DEF IInv

\* Resending, acknowledgements and the connection touch neither handles nor
\* managers.
LEMMA NetStep ==
  ASSUME IInv,
         \/ process_pending_actions \/ Connect \/ Disconnect
         \/ \E id \in ackWire : HandleAckAction(id) \/ LoseAck(id)
  PROVE  IInv'
  <1>0. TypeOK
    BY Zenon DEF IInv
  <1>1. UNCHANGED <<actions, handles, loop, manager, applied, robbed, doubled, ended>>
    BY Zenon DEF process_pending_actions, Connect, Disconnect, HandleAckAction, LoseAck, dbVars, droneVars,
           historyVars
  <1>2. Ids' = Ids
    BY <1>1, Zenon DEF Ids
  <1>3. /\ acked' \subseteq Ids /\ wire' \subseteq Ids /\ ackWire' \subseteq Ids
        /\ connected' \in BOOLEAN
    BY <1>0, Zenon DEF process_pending_actions, pending_actions, Connect, Disconnect, HandleAckAction, LoseAck,
                dbVars, TypeOK
  <1>4. faults' \in 0..MaxFaults
    BY <1>0, ActionConstants
       DEF process_pending_actions, Connect, Disconnect, HandleAckAction, LoseAck, TypeOK
  <1>5. /\ task' \in [Tasks -> TaskState]
        /\ \A t \in Tasks : task'[t].pc = task[t].pc /\ (task[t].pc # "idle" => task'[t].id = task[t].id)
    <2>1. task \in [Tasks -> TaskState]
      BY <1>0, Zenon DEF TypeOK, TaskState
    <2>2. CASE Disconnect
      <3>1. task' = [t \in Tasks |-> IF task[t].pc = "idle" THEN Idle ELSE [task[t] EXCEPT !.left = TRUE]]
        BY <2>2, Zenon DEF Disconnect
      <3>2. Idle \in TaskState /\ Idle.pc = "idle"
        BY Zenon DEF Idle, TaskState
      <3>3. \A t \in Tasks : /\ [task[t] EXCEPT !.left = TRUE] \in TaskState
                             /\ [task[t] EXCEPT !.left = TRUE].pc = task[t].pc
                             /\ [task[t] EXCEPT !.left = TRUE].id = task[t].id
        BY <2>1, TaskUpdates, Zenon
      <3> QED
        BY <3>1, <3>2, <3>3, Zenon
    <2>3. CASE task' = task
      BY <2>1, <2>3, Zenon
    <2> QED
      BY <2>2, <2>3, Zenon DEF process_pending_actions, Connect, HandleAckAction, LoseAck, droneVars
  <1>6. TypeOK'
    BY <1>0, <1>1, <1>2, <1>3, <1>4, <1>5, Zenon DEF TypeOK, TaskState
  <1>7. \A t \in Tasks, c \in Backends : Spawning(t, c)' => Spawning(t, c)
    BY <1>1, <1>5, Zenon DEF Spawning
  <1>8. NoSecondManager' /\ \A c \in Backends \ robbed' : OnePerHandle(c)'
    BY <1>1, <1>7, QuietKeeps, Zenon
  <1> QED
    BY <1>6, <1>8, Zenon DEF IInv

\* handle_message up to and after the changes it makes: receiving, a
\* termination without a manager that goes on to the runtime, a failing kill,
\* and the acknowledgement.
LEMMA QuietTaskStep ==
  ASSUME IInv, NEW t \in Tasks,
         \/ \E id \in wire : Receive(t, id)
         \/ ApplyToMissing(t) \/ KillFails(t) \/ \E sent \in BOOLEAN : SendAck(t, sent)
  PROVE  IInv'
  <1>0. TypeOK
    BY Zenon DEF IInv
  <1>1. UNCHANGED <<actions, acked, connected, handles, loop, manager, applied, robbed, doubled, ended>>
    BY Zenon DEF Receive, ApplyToMissing, KillFails, SendAck, dbVars, netVars, historyVars
  <1>2. Ids' = Ids
    BY <1>1, Zenon DEF Ids
  <1>3. ASSUME NEW id \in wire, Receive(t, id)
        PROVE  /\ task' \in [Tasks -> TaskState]
               /\ \A u \in Tasks : task'[u].pc = "idle" \/ task'[u].id \in Ids
               /\ \A u \in Tasks, c \in Backends : Spawning(u, c)' => Spawning(u, c)
               /\ wire' \subseteq Ids /\ ackWire' \subseteq Ids /\ faults' \in 0..MaxFaults
    <2> DEFINE y == [pc |-> IF actions[id].kind = "spawn" THEN "register" ELSE "apply", id |-> id,
                     left |-> FALSE]
    <2>1. task' = [task EXCEPT ![t] = y]
      BY <1>3, Zenon DEF Receive
    <2>2. id \in Ids /\ id \in Nat
      BY <1>0, ActionType, Zenon DEF TypeOK
    <2>3. y \in TaskState /\ y.id = id /\ (y.pc = "apply" => actions[id].kind # "spawn")
      BY <2>2, Zenon DEF TaskState
    <2> HIDE DEF y
    <2>4. \A u \in Tasks : task'[u] = IF u = t THEN y ELSE task[u]
      BY <1>0, <2>1, Zenon DEF TypeOK
    <2>5. task' \in [Tasks -> TaskState]
      BY <1>0, <2>1, <2>3, Zenon DEF TypeOK, TaskState
    <2>6. \A u \in Tasks : task'[u].pc = "idle" \/ task'[u].id \in Ids
      BY <1>0, <2>2, <2>3, <2>4, Zenon DEF TypeOK
    <2>7. \A c \in Backends : ~Spawning(t, c)'
      BY <1>1, <2>3, <2>4 DEF Spawning
    <2>8. \A u \in Tasks, c \in Backends : Spawning(u, c)' => Spawning(u, c)
      BY <1>1, <2>4, <2>7, Zenon DEF Spawning
    <2>9. wire' \subseteq Ids /\ ackWire' \subseteq Ids /\ faults' \in 0..MaxFaults
      BY <1>0, <1>3, Zenon DEF Receive, TypeOK
    <2> QED
      BY <2>5, <2>6, <2>8, <2>9, Zenon
  <1>4. ASSUME ApplyToMissing(t) \/ KillFails(t) \/ \E sent \in BOOLEAN : SendAck(t, sent)
        PROVE  /\ task' \in [Tasks -> TaskState]
               /\ \A u \in Tasks : task'[u].pc = "idle" \/ task'[u].id \in Ids
               /\ \A u \in Tasks, c \in Backends : Spawning(u, c)' => Spawning(u, c)
               /\ wire' \subseteq Ids /\ ackWire' \subseteq Ids /\ faults' \in 0..MaxFaults
    <2>1. task[t].pc # "idle" /\ (SetTask(t, "kill") \/ EndTask(t))
      BY <1>4, Zenon DEF ApplyToMissing, KillFails, SendAck
    <2>2. /\ task' \in [Tasks -> TaskState]
          /\ \A u \in Tasks : task'[u].pc = "idle" \/ task'[u].id \in Ids
          /\ \A u \in Tasks : u # t => task'[u] = task[u]
      BY <1>0, <1>1, <1>2, <2>1, TaskStepType, Zenon
    <2>3. task'[t].pc # "apply"
      BY <1>0, <2>1, TaskAt, Zenon
    <2>4. \A u \in Tasks, c \in Backends : Spawning(u, c)' => Spawning(u, c)
      BY <1>0, <1>1, <2>2, <2>3, NoNewSpawning, Zenon
    <2>5. task[t].id \in Ids
      BY <1>0, <2>1, TaskType, Zenon
    <2>6. wire' \subseteq Ids /\ ackWire' \subseteq Ids
      BY <1>0, <1>4, <2>5, Zenon DEF ApplyToMissing, KillFails, SendAck, netVars, TypeOK
    <2>7. faults' \in 0..MaxFaults
      BY <1>0, <1>4, ActionConstants DEF ApplyToMissing, KillFails, SendAck, TypeOK
    <2> QED
      BY <2>2, <2>4, <2>6, <2>7, Zenon
  <1>5. /\ task' \in [Tasks -> TaskState]
        /\ \A u \in Tasks : task'[u].pc = "idle" \/ task'[u].id \in Ids
        /\ \A u \in Tasks, c \in Backends : Spawning(u, c)' => Spawning(u, c)
        /\ wire' \subseteq Ids /\ ackWire' \subseteq Ids /\ faults' \in 0..MaxFaults
    BY <1>3, <1>4, Zenon
  <1>6. TypeOK'
    BY <1>0, <1>1, <1>2, <1>5, Zenon DEF TypeOK, TaskState
  <1>7. NoSecondManager' /\ \A c \in Backends \ robbed' : OnePerHandle(c)'
    BY <1>1, <1>5, QuietKeeps, Zenon
  <1> QED
    BY <1>6, <1>7, Zenon DEF IInv

\* register_key: the task that registers the key of a backend without a
\* handle is the only one about to start a manager, and there is none.
LEMMA RegisterKeyStep ==
  ASSUME IInv, NEW t \in Tasks, RegisterKey(t)
  PROVE  IInv'
  <1> DEFINE c == BackendOf(t)
  <1>0. TypeOK
    BY Zenon DEF IInv
  <1>1. task[t].pc = "register" /\ task[t].id \in Ids /\ c \in Backends
    BY <1>0, TaskType, Zenon DEF RegisterKey
  <1>2. UNCHANGED <<actions, acked, connected, wire, ackWire, manager, faults, applied, robbed, doubled,
                    ended>>
    BY Zenon DEF RegisterKey, dbVars, netVars, historyVars
  <1>3. SetTask(t, "apply") \/ EndTask(t)
    BY Zenon DEF RegisterKey
  <1>4. /\ task' \in [Tasks -> TaskState]
        /\ \A u \in Tasks : task'[u].pc = "idle" \/ task'[u].id \in Ids'
        /\ \A u \in Tasks : u # t => task'[u] = task[u]
    BY <1>0, <1>1, <1>2, <1>3, TaskStepType, Zenon
  <1>5. Ids' = Ids
    BY <1>2, Zenon DEF Ids
  <1>6. handles' \subseteq Backends /\ loop' \in [Backends -> {"waiting", "killing", "done"}]
    BY <1>0, <1>1, Zenon DEF RegisterKey, TypeOK
  <1>7. TypeOK'
    BY <1>0, <1>2, <1>4, <1>5, <1>6, Zenon DEF TypeOK, TaskState
  <1>8. CASE c \in handles
    <2>1. handles' = handles /\ EndTask(t)
      BY <1>8, Zenon DEF RegisterKey
    <2>2. task'[t].pc # "apply"
      BY <1>0, <2>1, TaskAt, Zenon
    <2>3. \A u \in Tasks, b \in Backends : Spawning(u, b)' => Spawning(u, b)
      BY <1>0, <1>2, <1>4, <2>2, NoNewSpawning, Zenon
    <2>4. NoSecondManager' /\ \A b \in Backends \ robbed' : OnePerHandle(b)'
      BY <1>2, <2>1, <2>3, QuietKeeps, Zenon
    <2> QED
      BY <1>7, <2>4, Zenon DEF IInv
  <1>9. CASE c \notin handles
    <2>1. handles' = handles \cup {c}
      BY <1>9, Zenon DEF RegisterKey
    <2>2. NoSecondManager'
      BY <1>2, Zenon DEF IInv, NoSecondManager
    <2>3. \A u \in Tasks, b \in Backends : u # t /\ Spawning(u, b)' => Spawning(u, b)
      BY <1>2, <1>4, Zenon DEF Spawning
    <2>4. \A b \in Backends : Spawning(t, b)' => b = c
      <3>1. task'[t].pc = "apply" => task'[t].id = task[t].id
        BY <1>0, <1>3, TaskAt, Zenon
      <3> QED
        BY <1>2, <3>1 DEF Spawning, BackendOf
    <2>5. ASSUME NEW b \in Backends \ robbed' PROVE OnePerHandle(b)'
      <3>1. OnePerHandle(b) /\ Live(b)' = Live(b)
        BY <1>2, Zenon DEF IInv, Live
      <3>2. CASE b = c
        <4>1. ~Live(b) /\ \A u \in Tasks : ~Spawning(u, b)
          BY <1>9, <3>1, <3>2, Zenon DEF OnePerHandle
        <4> QED
          BY <2>1, <2>3, <3>1, <3>2, <4>1, Zenon DEF OnePerHandle
      <3>3. CASE b # c
        BY <2>1, <2>3, <2>4, <3>1, <3>3, Zenon DEF OnePerHandle
      <3> QED
        BY <3>2, <3>3, Zenon
    <2> QED
      BY <1>7, <2>2, <2>5, Zenon DEF IInv
  <1> QED
    BY <1>8, <1>9, Zenon

\* apply_action for Spawn: the task was the only one about to start a manager,
\* and none was live.
LEMMA ApplySpawnStep ==
  ASSUME IInv, NEW t \in Tasks, ApplySpawn(t)
  PROVE  IInv'
  <1> DEFINE c == BackendOf(t)
  <1>0. TypeOK
    BY DEF IInv
  <1>1. task[t].pc = "apply" /\ task[t].id \in Ids /\ c \in Backends
    BY <1>0, TaskType, Zenon DEF ApplySpawn
  <1>2. UNCHANGED <<actions, acked, connected, wire, ackWire, handles, loop, faults, robbed, ended>>
    BY Zenon DEF ApplySpawn, dbVars, netVars
  <1>3. SetTask(t, "ack") /\ manager' = [manager EXCEPT ![c] = "live"]
    BY Zenon DEF ApplySpawn
  <1>4. /\ task' \in [Tasks -> TaskState]
        /\ \A u \in Tasks : task'[u].pc = "idle" \/ task'[u].id \in Ids'
        /\ \A u \in Tasks : u # t => task'[u] = task[u]
    BY <1>0, <1>1, <1>2, <1>3, TaskStepType, Zenon
  <1>5. Ids' = Ids
    BY <1>2, Zenon DEF Ids
  <1>6. applied' \subseteq Ids /\ doubled' \subseteq Backends
        /\ manager' \in [Backends -> {"none", "live", "terminated"}]
    BY <1>0, <1>1, Zenon DEF ApplySpawn, TypeOK
  <1>7. TypeOK'
    BY <1>0, <1>2, <1>4, <1>5, <1>6, Zenon DEF TypeOK, TaskState
  <1>8. Spawning(t, c)
    <2>1. actions[task[t].id] \in Action /\ actions[task[t].id].kind = "spawn"
      BY <1>0, <1>1, ActionType, Zenon DEF ApplySpawn
    <2>2. actions[task[t].id] = [kind |-> "spawn", backend |-> c]
      BY <2>1, Zenon DEF Action, BackendOf
    <2> QED
      BY <1>1, <2>2, Zenon DEF Spawning
  <1>9. c \notin robbed => c \in handles /\ ~Live(c) /\ \A u \in Tasks : Spawning(u, c) => u = t
    BY <1>1, <1>8, Zenon DEF IInv, OnePerHandle
  <1>10. NoSecondManager'
    <2>1. doubled' \subseteq doubled \cup ({c} \cap robbed)
      BY <1>9, Zenon DEF ApplySpawn
    <2> QED
      BY <1>2, <2>1, Zenon DEF IInv, NoSecondManager
  <1>11. task'[t].pc # "apply"
    BY <1>0, <1>3, TaskAt, Zenon
  <1>12. \A u \in Tasks, b \in Backends : Spawning(u, b)' => Spawning(u, b) /\ u # t
    BY <1>0, <1>2, <1>4, <1>11, NoNewSpawning, Zenon
  <1>13. ASSUME NEW b \in Backends \ robbed' PROVE OnePerHandle(b)'
    <2>1. OnePerHandle(b) /\ b \notin robbed
      BY <1>2, Zenon DEF IInv
    <2>2. CASE b = c
      BY <1>2, <1>9, <1>12, <2>1, <2>2, Zenon DEF OnePerHandle
    <2>3. CASE b # c
      <3>1. Live(b)' = Live(b)
        BY <1>0, <1>3, <2>3, Zenon DEF Live, TypeOK
      <3> QED
        BY <1>2, <1>12, <2>1, <3>1, Zenon DEF OnePerHandle
    <2> QED
      BY <2>2, <2>3
  <1> QED
    BY <1>7, <1>10, <1>13 DEF IInv

\* A Terminate that is told to a manager, or ends with the backend registered
\* as lost.
LEMMA TerminateStep ==
  ASSUME IInv, NEW t \in Tasks, ApplyTerminate(t) \/ KillDone(t)
  PROVE  IInv'
  <1> DEFINE c == BackendOf(t)
  <1>0. TypeOK
    BY Zenon DEF IInv
  <1>1. task[t].pc # "idle" /\ task[t].id \in Ids /\ c \in Backends
    BY <1>0, TaskType, Zenon DEF ApplyTerminate, KillDone
  <1>2. UNCHANGED <<actions, acked, connected, wire, ackWire, manager, faults, doubled>>
    BY Zenon DEF ApplyTerminate, KillDone, dbVars, netVars
  <1>3. SetTask(t, "ack")
    BY Zenon DEF ApplyTerminate, KillDone
  <1>4. /\ task' \in [Tasks -> TaskState]
        /\ \A u \in Tasks : task'[u].pc = "idle" \/ task'[u].id \in Ids'
        /\ \A u \in Tasks : u # t => task'[u] = task[u]
    BY <1>0, <1>1, <1>2, <1>3, TaskStepType, Zenon
  <1>5. Ids' = Ids /\ applied' \subseteq Ids
    BY <1>0, <1>1, <1>2, Zenon DEF Ids, ApplyTerminate, KillDone, TypeOK
  <1>6. task'[t].pc # "apply"
    BY <1>0, <1>3, TaskAt, Zenon
  <1>7. \A u \in Tasks, b \in Backends : Spawning(u, b)' => Spawning(u, b)
    BY <1>0, <1>2, <1>4, <1>6, NoNewSpawning, Zenon
  <1>8. RegisterTerminated(c, FALSE) \/ UNCHANGED <<handles, loop, robbed, ended>>
    BY Zenon DEF ApplyTerminate, KillDone
  <1>9. CASE RegisterTerminated(c, FALSE)
    <2>1. TypeOK'
      BY <1>0, <1>1, <1>2, <1>4, <1>5, <1>9, TerminatedType, Zenon DEF TypeOK, TaskState
    <2>2. \A b \in Backends : Live(b)' => Live(b)
      BY <1>2, Zenon DEF Live
    <2> QED
      BY <1>1, <1>2, <1>7, <1>9, <2>1, <2>2, RobbingKeeps, Zenon DEF IInv
  <1>10. CASE UNCHANGED <<handles, loop, robbed, ended>>
    <2>1. TypeOK'
      BY <1>0, <1>2, <1>4, <1>5, <1>10, Zenon DEF TypeOK, TaskState
    <2> QED
      BY <1>2, <1>7, <1>10, <2>1, QuietKeeps, Zenon DEF IInv
  <1> QED
    BY <1>8, <1>9, <1>10, Zenon

\* The key loop, the exit events and the end of a manager.
LEMMA BackendStep ==
  ASSUME IInv, NEW c \in Backends, BackendNext(c)
  PROVE  IInv'
  <1>0. TypeOK
    BY Zenon DEF IInv
  <1>1. UNCHANGED <<actions, acked, connected, wire, ackWire, task, faults, applied, doubled>>
    BY Zenon DEF BackendNext, KeyExpires, LoopKillDone, ManagerEnds, LateExit, dbVars, netVars
  <1>2. Ids' = Ids
    BY <1>1, Zenon DEF Ids
  <1>3. \A u \in Tasks, b \in Backends : Spawning(u, b)' = Spawning(u, b)
    BY <1>1, Zenon DEF Spawning
  <1>4. ASSUME KeyExpires(c) \/ LoopKillDone(c) \/ LateExit(c), RegisterTerminated(c, FALSE)
        PROVE  IInv'
    <2>1. manager' \in [Backends -> {"none", "live", "terminated"}]
      BY <1>0, <1>4, Zenon DEF KeyExpires, LoopKillDone, LateExit, TypeOK
    <2>2. TypeOK'
      BY <1>0, <1>1, <1>2, <1>4, <2>1, TerminatedType, Zenon DEF TypeOK
    <2>3. \A b \in Backends : Live(b)' => Live(b)
      BY <1>0, <1>4, Zenon DEF KeyExpires, LoopKillDone, LateExit, Live, TypeOK
    <2> QED
      BY <1>1, <1>3, <1>4, <2>2, <2>3, RobbingKeeps, Zenon DEF IInv
  <1>5. ASSUME KeyExpires(c), manager[c] # "terminated"
        PROVE  IInv'
    <2>1. UNCHANGED <<handles, robbed, ended, manager>>
      BY <1>5, Zenon DEF KeyExpires
    <2>2. loop' \in [Backends -> {"waiting", "killing", "done"}]
      BY <1>0, <1>5, Zenon DEF KeyExpires, TypeOK
    <2>3. TypeOK'
      BY <1>0, <1>1, <1>2, <2>1, <2>2, Zenon DEF TypeOK
    <2> QED
      BY <1>1, <1>3, <2>1, <2>3, QuietKeeps, Zenon DEF IInv
  <1>6. ASSUME NEW removed \in BOOLEAN, ManagerEnds(c, removed)
        PROVE  IInv'
    <2>1. RegisterTerminated(c, TRUE) /\ Live(c)
      BY <1>6, Zenon DEF ManagerEnds
    <2>2. manager' \in [Backends -> {"none", "live", "terminated"}] /\ ~Live(c)'
          /\ \A b \in Backends : b # c => Live(b)' = Live(b)
      BY <1>0, <1>6, Zenon DEF ManagerEnds, Live, TypeOK
    <2>3. TypeOK'
      BY <1>0, <1>1, <1>2, <2>1, <2>2, TerminatedType, Zenon DEF TypeOK
    <2>4. robbed' = robbed /\ handles' = handles \ {c}
      BY <2>1, Zenon DEF RegisterTerminated
    <2>5. NoSecondManager'
      BY <1>1, <2>4, Zenon DEF IInv, NoSecondManager
    <2>6. ASSUME NEW b \in Backends \ robbed' PROVE OnePerHandle(b)'
      <3>1. OnePerHandle(b)
        BY <2>4, Zenon DEF IInv
      <3>2. CASE b = c
        BY <1>3, <2>1, <2>2, <3>1, <3>2, Zenon DEF OnePerHandle
      <3>3. CASE b # c
        <4>1. Live(b)' = Live(b) /\ (b \in handles => b \in handles')
          BY <2>2, <2>4, <3>3, Zenon
        <4> QED
          BY <1>3, <3>1, <4>1, Zenon DEF OnePerHandle
      <3> QED
        BY <3>2, <3>3, Zenon
    <2> QED
      BY <2>3, <2>5, <2>6, Zenon DEF IInv
  <1>7. KeyExpires(c) /\ manager[c] = "terminated" => RegisterTerminated(c, FALSE)
    BY Zenon DEF KeyExpires
  <1>8. LoopKillDone(c) \/ LateExit(c) => RegisterTerminated(c, FALSE)
    BY Zenon DEF LoopKillDone, LateExit
  <1> QED
    BY <1>4, <1>5, <1>6, <1>7, <1>8, Zenon DEF BackendNext

-----------------------------------------------------------------------------
(* The theorems *)

\* The initial state satisfies the inductive invariant.
LEMMA InitInv == Init => IInv
  <1> SUFFICES ASSUME Init PROVE IInv
    BY Zenon
  <1>1. TypeOK
    <2>1. Idle \in TaskState /\ Idle.pc = "idle"
      BY Zenon DEF Idle, TaskState
    <2>2. task \in [Tasks -> TaskState] /\ \A t \in Tasks : task[t].pc = "idle"
      BY <2>1, Zenon DEF Init
    <2>3. actions \in Seq([kind : {"spawn", "terminate"}, backend : Backends])
      BY DEF Init
    <2>4. loop \in [Backends -> {"waiting", "killing", "done"}]
          /\ manager \in [Backends -> {"none", "live", "terminated"}]
      BY Zenon DEF Init
    <2>5. faults \in 0..MaxFaults
      BY ActionConstants DEF Init
    <2>6. /\ acked = {} /\ wire = {} /\ ackWire = {} /\ handles = {}
          /\ applied = {} /\ robbed = {} /\ doubled = {} /\ ended = {}
      BY Zenon DEF Init
    <2>7. connected \in BOOLEAN
      BY Zenon DEF Init
    <2> QED
      BY <2>2, <2>3, <2>4, <2>5, <2>6, <2>7, Zenon DEF TypeOK, TaskState
  <1>2. NoSecondManager
    BY Zenon DEF Init, NoSecondManager
  <1>3. \A b \in Backends : OnePerHandle(b)
    BY Zenon DEF Init, OnePerHandle, Live, Spawning, Idle
  <1> QED
    BY <1>1, <1>2, <1>3, Zenon DEF IInv

\* Every step of controller and drone keeps the inductive invariant.
LEMMA StepInv == IInv /\ [Next]_vars => IInv'
  <1> SUFFICES ASSUME IInv, [Next]_vars PROVE IInv'
    BY Zenon
  <1>1. CASE ControllerNext
    <2>1. ASSUME NEW b \in Backends, NEW notified \in BOOLEAN,
                 CreateSpawn(b, notified) \/ CreateTerminate(b, notified)
          PROVE  IInv'
      BY <2>1, CreateStep, Zenon DEF CreateSpawn, CreateTerminate
    <2> QED
      BY <1>1, <2>1, NetStep, Zenon DEF ControllerNext
  <1>2. ASSUME NEW t \in Tasks, TaskNext(t) PROVE IInv'
    BY <1>2, QuietTaskStep, RegisterKeyStep, ApplySpawnStep, TerminateStep, Zenon DEF TaskNext
  <1>3. ASSUME NEW b \in Backends, BackendNext(b) PROVE IInv'
    BY <1>3, BackendStep, Zenon
  <1>4. CASE UNCHANGED vars
    <2>1. UNCHANGED <<actions, acked, connected, wire, ackWire, task, handles, loop, manager, faults,
                      applied, robbed, doubled, ended>>
      BY <1>4, Zenon DEF vars, dbVars, netVars, droneVars, historyVars
    <2>2. TypeOK'
      BY <2>1, Zenon DEF IInv, TypeOK, Ids
    <2>3. \A t \in Tasks, b \in Backends : Spawning(t, b)' => Spawning(t, b)
      BY <2>1, Zenon DEF Spawning
    <2> QED
      BY <2>1, <2>2, <2>3, QuietKeeps, Zenon DEF IInv
  <1> QED
    BY <1>1, <1>2, <1>3, <1>4, Zenon DEF Next

\* The inductive invariant holds in every reachable state.
THEOREM Invariance == Spec => []IInv
  BY InitInv, StepInv, PTL DEF Spec

\* A live backend has the handle that renews its key, unless that was taken
\* away by a termination that found no live manager.
THEOREM LiveBackendsHaveHandles == Spec => []LiveHasHandle
  <1>1. IInv => LiveHasHandle
    BY Zenon DEF IInv, LiveHasHandle, OnePerHandle
  <1> QED
    BY <1>1, Invariance, PTL

\* Under the same exception no Spawn, however often it is delivered, replaces
\* a live manager.
THEOREM ManagersAreNotReplaced == Spec => []NoSecondManager
  <1>1. IInv => NoSecondManager
    BY Zenon DEF IInv
  <1> QED
    BY <1>1, Invariance, PTL

=============================================================================
