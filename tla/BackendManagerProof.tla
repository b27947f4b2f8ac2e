------------------------ MODULE BackendManagerProof -------------------------
(***************************************************************************)
(* A backend manager and the runtime behind a unix socket.  For any number *)
(* of Terminate actions and failures: a manager is never left without a    *)
(* driver, starts its backend at most once, and every state it sets or is  *)
(* about to set is coherent.  For any requests, events, capacity of the    *)
(* channels and number of restarts: the runtime is given a request at most *)
(* once, and none whose call has failed.                                   *)
(***************************************************************************)
EXTENDS BackendManager, UnixSocket, Functions, TLAPS

-----------------------------------------------------------------------------
(* The transitions of BackendState *)

\* The order of the statuses.
LEMMA Order ==
  /\ as_int["scheduled"] = 10 /\ as_int["loading"] = 20 /\ as_int["starting"] = 30
  /\ as_int["waiting"] = 40 /\ as_int["ready"] = 50 /\ as_int["terminating"] = 60
  /\ as_int["hard-terminating"] = 65 /\ as_int["terminated"] = 70
  /\ BeforeTermination = {"scheduled", "loading", "starting", "waiting", "ready"}
<1>1. \A s \in BackendStatus :
        as_int[s] = CASE s = "scheduled" -> 10 [] s = "loading" -> 20 [] s = "starting" -> 30
                      [] s = "waiting" -> 40 [] s = "ready" -> 50 [] s = "terminating" -> 60
                      [] s = "hard-terminating" -> 65 [] s = "terminated" -> 70
  BY Zenon DEF as_int
<1>2. /\ as_int["scheduled"] = 10 /\ as_int["loading"] = 20 /\ as_int["starting"] = 30
      /\ as_int["waiting"] = 40 /\ as_int["ready"] = 50 /\ as_int["terminating"] = 60
      /\ as_int["hard-terminating"] = 65 /\ as_int["terminated"] = 70
  BY <1>1, Zenon DEF BackendStatus
<1>3. BeforeTermination = {"scheduled", "loading", "starting", "waiting", "ready"}
  BY <1>2 DEF BeforeTermination, BackendStatus
<1> QED
  BY <1>2, <1>3, Zenon

\* What coherence means, status by status.
LEMMA CoherentCases ==
  ASSUME NEW st \in State
  PROVE  Coherent(st) <=>
           \/ st.status \in BeforeTermination /\ st = Plain(st.status)
           \/ /\ st.status = "terminating" /\ st.last_status \in BeforeTermination
              /\ st.termination = "soft" /\ st.reason # Absent
           \/ /\ st.status = "hard-terminating" /\ st.last_status \in BeforeTermination
              /\ st.termination = "hard" /\ st.reason # Absent
           \/ /\ st.status = "terminated" /\ st.last_status \in BeforeTermination
              /\ st.termination # Absent => st.reason # Absent
<1>1. st.status \in BackendStatus
  BY Zenon DEF State
<1>2. as_int[st.status] < as_int["terminating"] <=> st.status \in BeforeTermination
  BY <1>1, Order DEF BackendStatus
<1> QED
  BY <1>1, <1>2, Order, Zenon DEF Coherent, BackendStatus

GoodStates == {st \in State : Coherent(st)}

\* The to_... functions keep a state coherent, and only Plain states have a
\* status before termination.
LEMMA Transitions ==
  ASSUME NEW st \in GoodStates
  PROVE  /\ \A why \in TerminationReason :
              /\ to_terminating(st, why) \in GoodStates
              /\ to_terminating(st, why).status \in {"terminating", "hard-terminating", "terminated"}
              /\ to_hard_terminating(st, why) \in GoodStates
              /\ to_hard_terminating(st, why).status \in {"hard-terminating", "terminated"}
         /\ to_terminated(st) \in GoodStates /\ to_terminated(st).status = "terminated"
<1>1. st \in State /\ Coherent(st) /\ st.status \in BackendStatus
  BY Zenon DEF GoodStates, State
<1>2. Absent \notin TerminationReason \cup TerminationKind
  BY Zenon DEF Absent, TerminationReason, TerminationKind
<1>3. ASSUME NEW why \in TerminationReason
      PROVE  /\ to_terminating(st, why) \in GoodStates
             /\ to_terminating(st, why).status \in {"terminating", "hard-terminating", "terminated"}
  <2>1. CASE st.status \in BeforeTermination
    <3> DEFINE x == [status |-> "terminating", last_status |-> st.status, termination |-> "soft",
                     reason |-> why]
    <3>1. to_terminating(st, why) = x
      BY <2>1, Order DEF to_terminating
    <3>2. x \in State
      BY <1>1, Zenon DEF State, BackendStatus, TerminationKind
    <3>3. Coherent(x)
      BY <1>2, <2>1, <3>2, CoherentCases, Zenon
    <3> QED
      BY <3>1, <3>2, <3>3 DEF GoodStates
  <2>2. CASE st.status \notin BeforeTermination
    <3>1. st.status \in {"terminating", "hard-terminating", "terminated"}
      BY <1>1, <2>2, Order, Zenon DEF BackendStatus
    <3>2. to_terminating(st, why) = st
      BY <3>1, Order DEF to_terminating
    <3> QED
      BY <3>1, <3>2, Zenon
  <2> QED
    BY <2>1, <2>2, Zenon
<1>4. ASSUME NEW why \in TerminationReason
      PROVE  /\ to_hard_terminating(st, why) \in GoodStates
             /\ to_hard_terminating(st, why).status \in {"hard-terminating", "terminated"}
  <2>1. CASE st.status \in BeforeTermination \cup {"terminating"}
    <3> DEFINE last == IF st.status = "terminating" THEN st.last_status ELSE st.status
               x == [status |-> "hard-terminating", last_status |-> last, termination |-> "hard",
                     reason |-> why]
    <3>0. last \in BeforeTermination /\ last \in BackendStatus
      BY <1>1, <2>1, CoherentCases, Order, Zenon DEF State, BackendStatus
    <3>1. to_hard_terminating(st, why) = x
      BY <2>1, Order DEF to_hard_terminating
    <3> HIDE DEF last
    <3>2. x \in State
      BY <3>0, Zenon DEF State, BackendStatus, TerminationKind
    <3>3. Coherent(x)
      BY <1>2, <3>0, <3>2, CoherentCases, Zenon
    <3> QED
      BY <3>1, <3>2, <3>3 DEF GoodStates
  <2>2. CASE st.status \notin BeforeTermination \cup {"terminating"}
    <3>1. st.status \in {"hard-terminating", "terminated"}
      BY <1>1, <2>2, Order, Zenon DEF BackendStatus
    <3>2. to_hard_terminating(st, why) = st
      BY <3>1, Order DEF to_hard_terminating
    <3> QED
      BY <3>1, <3>2, Zenon
  <2> QED
    BY <2>1, <2>2, Zenon
<1>5. to_terminated(st) \in GoodStates /\ to_terminated(st).status = "terminated"
  <2>1. CASE st.status \in {"terminating", "hard-terminating", "terminated"}
    <3> DEFINE x == [st EXCEPT !.status = "terminated"]
    <3>1. to_terminated(st) = x
      BY <2>1, Zenon DEF to_terminated
    <3>2. /\ x \in State /\ x.status = "terminated" /\ x.last_status = st.last_status
          /\ x.termination = st.termination /\ x.reason = st.reason
      BY <1>1, Zenon DEF State, BackendStatus
    <3>3. Coherent(x)
      BY <1>1, <2>1, <3>2, CoherentCases, Order, Zenon
    <3> QED
      BY <3>1, <3>2, <3>3, Zenon DEF GoodStates
  <2>2. CASE st.status \notin {"terminating", "hard-terminating", "terminated"}
    <3> DEFINE x == [status |-> "terminated", last_status |-> st.status, termination |-> Absent,
                     reason |-> Absent]
    <3>1. to_terminated(st) = x
      BY <2>2, Zenon DEF to_terminated
    <3>2. x \in State /\ st.status \in BeforeTermination
      BY <1>1, <2>2, Order, Zenon DEF State, BackendStatus
    <3>3. Coherent(x)
      BY <3>2, CoherentCases, Zenon
    <3> QED
      BY <3>1, <3>2, <3>3 DEF GoodStates
  <2> QED
    BY <2>1, <2>2, Zenon
<1> QED
  BY <1>3, <1>4, <1>5, Zenon

\* Plain states are coherent, and tell their statuses apart.
LEMMA PlainStates ==
  /\ \A s \in BeforeTermination : Plain(s) \in GoodStates /\ Plain(s).status = s
  /\ \A st \in GoodStates : st.status \in BeforeTermination => st = Plain(st.status)
<1>1. ASSUME NEW s \in BeforeTermination PROVE Plain(s) \in State /\ Plain(s).status = s
  BY Order, Zenon DEF Plain, State, BackendStatus
<1>2. ASSUME NEW s \in BeforeTermination PROVE Coherent(Plain(s))
  BY <1>1, <1>2, CoherentCases, Zenon
<1>3. \A st \in GoodStates : st.status \in BeforeTermination => st = Plain(st.status)
  BY CoherentCases, Order, Zenon DEF GoodStates
<1> QED
  BY <1>1, <1>2, <1>3, Zenon DEF GoodStates

-----------------------------------------------------------------------------
(* The inductive invariant *)

\* A call of set_state with this status is on its way.
Called(s) == Plain(s) \in calls

\* The task at work is in runtime.spawn.
Spawning == task \in {"spawn", "create", "start", "port"}

\* The manager may still enter a status: what leads to it is on its way.
MayLoad == Called("scheduled") \/ Called("loading")
MayStart == MayLoad \/ task = "prepare" \/ Called("starting")
MayWait == MayStart \/ Spawning \/ Called("waiting")
MayBeReady == MayWait \/ task = "wait" \/ Called("ready")

\* What may still be entered has not been entered yet, ...
NotYet ==
  /\ MayLoad => entered["loading"] = 0
  /\ MayStart => entered["starting"] = 0
  /\ MayWait => entered["waiting"] = 0
  /\ MayBeReady => entered["ready"] = 0

\* ... and only one thing leads there.
OneWay ==
  /\ Called("loading") => ~Called("scheduled")
  /\ task = "prepare" => ~MayLoad
  /\ Called("starting") => ~MayLoad /\ task # "prepare"
  /\ Spawning => ~MayStart
  /\ Called("waiting") => ~MayStart /\ ~Spawning
  /\ task = "wait" => ~MayWait
  /\ Called("ready") => ~MayWait /\ task # "wait"

IInv ==
  /\ TypeOK /\ state \in GoodStates /\ calls \subseteq GoodStates
  /\ Driven /\ StartedOnce /\ NotYet /\ OneWay

-----------------------------------------------------------------------------
(* The steps *)

\* A step that enters no status and starts nothing keeps the order of things.
LEMMA QuietKeeps ==
  ASSUME IInv, UNCHANGED <<state, entered>>,
         \A s \in BeforeTermination : Called(s)' => Called(s),
         \/ task' = task
         \/ Spawning /\ task' \in {"create", "start", "port"}
         \/ task = "spawn" /\ task' = "create"
         \/ task' \in {Absent, "inspect", "stop", "pending"}
  PROVE  StartedOnce' /\ NotYet' /\ OneWay'
<1>1. {"scheduled", "loading", "starting", "waiting", "ready"} = BeforeTermination
  BY Order, Zenon
<1>2. /\ Called("scheduled")' => Called("scheduled")
      /\ Called("loading")' => Called("loading")
      /\ Called("starting")' => Called("starting")
      /\ Called("waiting")' => Called("waiting")
      /\ Called("ready")' => Called("ready")
  BY <1>1, Zenon
<1>3. /\ Spawning' => Spawning
      /\ (task = "prepare")' => task = "prepare"
      /\ (task = "wait")' => task = "wait"
  BY Zenon DEF Spawning, Absent
<1>4. /\ MayLoad' => MayLoad
      /\ MayStart' => MayStart
      /\ MayWait' => MayWait
      /\ MayBeReady' => MayBeReady
  BY <1>2, <1>3, Zenon DEF MayLoad, MayStart, MayWait, MayBeReady
<1>5. NotYet'
  BY <1>4, Zenon DEF IInv, NotYet
<1>6. OneWay'
  BY <1>2, <1>3, <1>4, Zenon DEF IInv, OneWay
<1> QED
  BY <1>5, <1>6, Zenon DEF IInv, StartedOnce

\* A call with a termination is no call with an earlier status.
LEMMA TerminationCalls ==
  ASSUME NEW st, st.status \in {"terminating", "hard-terminating", "terminated"},
         calls' \subseteq calls \cup {st}
  PROVE  \A s \in BeforeTermination : Called(s)' => Called(s)
<1>1. \A s \in BeforeTermination : Plain(s) # st
  BY PlainStates, Order
<1> QED
  BY <1>1, Zenon DEF Called

\* Which of the Plain states a set of calls has.
LEMMA PlainDiffer ==
  \A r, s \in {"scheduled", "loading", "starting", "waiting", "ready"} : Plain(r) = Plain(s) => r = s
BY Zenon DEF Plain

\* A task's future resolves to the next status: what the task led to, its call
\* now leads to.
LEMMA AdvanceKeeps ==
  ASSUME IInv, UNCHANGED <<state, entered>>, NEW s,
         \/ task = "prepare" /\ s = "starting"
         \/ task = "port" /\ s = "waiting"
         \/ task = "wait" /\ s = "ready",
         Resolve(Plain(s))
  PROVE  StartedOnce' /\ NotYet' /\ OneWay'
<1>1. ~Spawning' /\ task' # "prepare" /\ task' # "wait"
  BY Zenon DEF Resolve, Spawning, Absent
<1>2. /\ Called("scheduled")' <=> Called("scheduled")
      /\ Called("loading")' <=> Called("loading")
      /\ Called("starting")' <=> Called("starting") \/ s = "starting"
      /\ Called("waiting")' <=> Called("waiting") \/ s = "waiting"
      /\ Called("ready")' <=> Called("ready") \/ s = "ready"
  BY PlainDiffer, Zenon DEF Resolve, Called
<1>3. CASE task = "prepare" /\ s = "starting"
  BY <1>1, <1>2, <1>3, Zenon
     DEF IInv, StartedOnce, NotYet, OneWay, MayLoad, MayStart, MayWait, MayBeReady, Spawning
<1>4. CASE task = "port" /\ s = "waiting"
  BY <1>1, <1>2, <1>4, Zenon
     DEF IInv, StartedOnce, NotYet, OneWay, MayLoad, MayStart, MayWait, MayBeReady, Spawning
<1>5. CASE task = "wait" /\ s = "ready"
  BY <1>1, <1>2, <1>5, Zenon
     DEF IInv, StartedOnce, NotYet, OneWay, MayLoad, MayStart, MayWait, MayBeReady, Spawning
<1> QED
  BY <1>3, <1>4, <1>5, Zenon

\* set_state: the call is used up, and its status's task takes its place.
LEMMA SetKeeps ==
  ASSUME IInv, NEW st \in calls, NEW ok \in BOOLEAN, set_state(st, ok)
  PROVE  StartedOnce' /\ NotYet' /\ OneWay'
<1> DEFINE Early == {"scheduled", "loading", "starting", "waiting", "ready"}
           n == st.status
<1>1. st \in GoodStates /\ n \in BackendStatus
  BY Zenon DEF IInv, GoodStates, State
<1>2. n \in Early => st = Plain(n)
  BY <1>1, PlainStates, Order, Zenon
<1>3. \A s \in Early : n # s => Plain(s) # st
  BY PlainStates, Order
<1>4. /\ entered \in [BackendStatus -> Nat]
      /\ \A s \in BackendStatus : entered'[s] = IF s = n THEN entered[s] + 1 ELSE entered[s]
  BY <1>1, Zenon DEF IInv, TypeOK, set_state
<1>5. /\ entered'["loading"] = IF n = "loading" THEN entered["loading"] + 1 ELSE entered["loading"]
      /\ entered'["starting"] = IF n = "starting" THEN entered["starting"] + 1 ELSE entered["starting"]
      /\ entered'["waiting"] = IF n = "waiting" THEN entered["waiting"] + 1 ELSE entered["waiting"]
      /\ entered'["ready"] = IF n = "ready" THEN entered["ready"] + 1 ELSE entered["ready"]
  BY <1>4, Zenon DEF BackendStatus
<1>6. /\ Called("scheduled")' <=> Called("scheduled") /\ n # "scheduled"
      /\ Called("loading")' <=> (Called("loading") /\ n # "loading") \/ (ok /\ n = "scheduled")
      /\ Called("starting")' <=> Called("starting") /\ n # "starting"
      /\ Called("waiting")' <=> Called("waiting") /\ n # "waiting"
      /\ Called("ready")' <=> Called("ready") /\ n # "ready"
  <2>1. calls' = (calls \ {st}) \cup IF ok /\ n = "scheduled" THEN {Plain("loading")} ELSE {}
    BY Zenon DEF set_state
  <2>2. ASSUME NEW s \in Early, s # "loading"
        PROVE  Plain(s) \in calls' <=> Plain(s) \in calls /\ n # s
    BY <1>2, <1>3, <2>1, <2>2, PlainDiffer, Zenon
  <2>3. Plain("loading") \in calls' <=>
          (Plain("loading") \in calls /\ n # "loading") \/ (ok /\ n = "scheduled")
    <3>1. Plain("loading") = st <=> n = "loading"
      BY <1>2, <1>3, Zenon
    <3>2. CASE ok /\ n = "scheduled"
      <4>1. Plain("loading") \in calls'
        BY <2>1, <3>2, Zenon
      <4> QED
        BY <3>2, <4>1, Zenon
    <3>3. CASE ~(ok /\ n = "scheduled")
      <4>1. calls' = calls \ {st}
        BY <2>1, <3>3, Zenon
      <4>2. Plain("loading") \in calls' <=> Plain("loading") \in calls /\ n # "loading"
        BY <3>1, <4>1, Zenon
      <4> QED
        BY <3>3, <4>2, Zenon
    <3> QED
      BY <3>2, <3>3, Zenon
  <2> QED
    BY <2>2, <2>3, Zenon DEF Called
<1>7. n \in Early => Called(n)
  BY <1>2, Zenon DEF Called
<1>8. /\ task' = "prepare" => n = "loading"
      /\ Spawning' => n = "starting"
      /\ task' = "wait" => n = "waiting"
  BY <1>1, Zenon DEF set_state, step_state, Spawning, Absent, BackendStatus
<1> HIDE DEF n
<1>9. CASE n = "scheduled"
  BY <1>5, <1>6, <1>7, <1>8, <1>9, Zenon
     DEF IInv, StartedOnce, NotYet, OneWay, MayLoad, MayStart, MayWait, MayBeReady
<1>10. CASE n = "loading"
  BY <1>5, <1>6, <1>7, <1>8, <1>10
     DEF IInv, StartedOnce, NotYet, OneWay, MayLoad, MayStart, MayWait, MayBeReady
<1>11. CASE n = "starting"
  BY <1>5, <1>6, <1>7, <1>8, <1>11
     DEF IInv, StartedOnce, NotYet, OneWay, MayLoad, MayStart, MayWait, MayBeReady
<1>12. CASE n = "waiting"
  BY <1>5, <1>6, <1>7, <1>8, <1>12
     DEF IInv, StartedOnce, NotYet, OneWay, MayLoad, MayStart, MayWait, MayBeReady
<1>13. CASE n = "ready"
  BY <1>5, <1>6, <1>7, <1>8, <1>13
     DEF IInv, StartedOnce, NotYet, OneWay, MayLoad, MayStart, MayWait, MayBeReady
<1>14. CASE n \notin Early
  BY <1>5, <1>6, <1>8, <1>14, Zenon
     DEF IInv, StartedOnce, NotYet, OneWay, MayLoad, MayStart, MayWait, MayBeReady
<1> QED
  BY <1>9, <1>10, <1>11, <1>12, <1>13, <1>14, Zenon

\* Every step keeps the invariant: of the callers of set_state, of the futures
\* that step_state starts, and of Docker.
LEMMA InvariantStep == IInv /\ [Next]_vars => IInv'
<1> SUFFICES ASSUME IInv, [Next]_vars PROVE IInv'
  BY Zenon
<1>0. TypeOK /\ state \in GoodStates /\ calls \subseteq GoodStates /\ Driven
  BY Zenon DEF IInv
<1>1. GoodStates \subseteq State /\ Plain("loading") \in GoodStates
  BY PlainStates, Order, Zenon DEF GoodStates
<1>2. to_terminated(state) \in GoodStates /\ to_terminated(state).status = "terminated"
  BY <1>0, Transitions
<1>f. ASSUME Fail PROVE errors' \in 0..MaxErrors
  BY <1>0, <1>f, ManagerConstants DEF Fail, TypeOK
<1>3. ASSUME NEW st \in calls, NEW ok \in BOOLEAN, set_state(st, ok) PROVE IInv'
  <2>1. StartedOnce' /\ NotYet' /\ OneWay'
    BY <1>3, SetKeeps, Zenon
  <2>2. st \in GoodStates /\ st \in State /\ st.status \in BackendStatus
    BY <1>0, <1>1, Zenon DEF State
  <2>3. state' = st /\ calls' \subseteq GoodStates
    BY <1>0, <1>1, <1>3, Zenon DEF set_state
  <2>4. task' \in TaskStep \cup {Absent}
    BY <1>3, Zenon DEF set_state, step_state, TaskStep
  <2>5. entered' \in [BackendStatus -> Nat]
    BY <1>0, <1>3, <2>2 DEF set_state, TypeOK
  <2>6. errors' \in 0..MaxErrors
    BY <1>0, <1>3, ManagerConstants DEF set_state, TypeOK
  <2>7. TypeOK'
    BY <1>0, <1>1, <1>3, <2>2, <2>3, <2>4, <2>5, <2>6, Zenon DEF set_state, TypeOK
  <2>8. Driven'
    <3>1. CASE ~ok
      BY <1>3, <3>1, Zenon DEF set_state, Driven
    <3>2. CASE ok /\ st.status = "scheduled"
      BY <1>3, <3>2, Zenon DEF set_state, Driven
    <3>3. CASE ok /\ st.status # "scheduled"
      BY <1>3, <2>2, <3>3, Zenon DEF set_state, Driven, step_state, BackendStatus, Absent
    <3> QED
      BY <3>1, <3>2, <3>3, Zenon
  <2> QED
    BY <2>1, <2>2, <2>3, <2>7, <2>8, Zenon DEF IInv
<1>4. ASSUME NEW st \in GoodStates, st.status \in {"terminating", "hard-terminating", "terminated"},
             calls' = calls \cup {st}, task' \in {task, Absent}, UNCHANGED <<state, entered>>, TypeOK'
      PROVE  IInv'
  <2>1. \A s \in BeforeTermination : Called(s)' => Called(s)
    BY <1>4, TerminationCalls
  <2>2. StartedOnce' /\ NotYet' /\ OneWay'
    BY <1>4, <2>1, QuietKeeps, Zenon
  <2> QED
    BY <1>0, <1>4, <2>2, Zenon DEF IInv, Driven
<1>5. ASSUME UNCHANGED <<state, calls, entered>>, stuck' = stuck, TypeOK',
             \/ task' = task
             \/ Spawning /\ task' \in {"create", "start", "port"}
             \/ task' \in {"inspect", "stop", "pending"}
      PROVE  IInv'
  <2>1. StartedOnce' /\ NotYet' /\ OneWay'
    BY <1>5, QuietKeeps, Zenon DEF Called
  <2>2. Driven'
    BY <1>0, <1>5, Zenon DEF Driven, Absent
  <2> QED
    BY <1>0, <1>5, <2>1, <2>2, Zenon DEF IInv
<1>6. CASE Insert \/ StopDone \/ RequestDropped \/ ContainerExits
  <2>1. TypeOK'
    BY <1>0, <1>6, Zenon DEF TypeOK, Insert, StopDone, RequestDropped, ContainerExits, TaskStep
  <2> QED
    BY <1>5, <1>6, <2>1, Zenon DEF Insert, StopDone, RequestDropped, ContainerExits
<1>7. ASSUME NEW kind \in TerminationKind, NEW reason \in {"swept", "keyexpired"}, terminate(kind, reason)
      PROVE  IInv'
  <2>1. reason \in TerminationReason
    BY Zenon DEF TerminationReason
  <2>2. PICK st \in GoodStates : /\ st.status \in {"terminating", "hard-terminating", "terminated"}
                                 /\ calls' = calls \cup {st}
    BY <1>0, <1>7, <2>1, Transitions, Zenon DEF terminate
  <2>3. terminates' \in 0..MaxTerminates
    BY <1>0, <1>7, ManagerConstants DEF terminate, TypeOK
  <2>4. TypeOK'
    BY <1>0, <1>1, <1>7, <2>2, <2>3, Zenon DEF terminate, TypeOK
  <2> QED
    BY <1>4, <1>7, <2>2, <2>4, Zenon DEF terminate
<1>8. CASE HandleExit
  <2>1. TypeOK'
    BY <1>0, <1>1, <1>2, <1>8, Zenon DEF HandleExit, TypeOK
  <2>2. CASE inMap = "yes"
    BY <1>2, <1>4, <1>8, <2>1, <2>2, Zenon DEF HandleExit
  <2>3. CASE inMap # "yes"
    BY <1>5, <1>8, <2>1, <2>3, Zenon DEF HandleExit
  <2> QED
    BY <2>2, <2>3, Zenon
<1>9. CASE PrepareDone \/ PortDone \/ WaitDone
  <2>1. PICK s \in {"starting", "waiting", "ready"} :
             /\ Resolve(Plain(s))
             /\ \/ task = "prepare" /\ s = "starting"
                \/ task = "port" /\ s = "waiting"
                \/ task = "wait" /\ s = "ready"
    BY <1>9, Zenon DEF PrepareDone, PortDone, WaitDone
  <2>2. UNCHANGED <<state, entered, inMap, request, container, exitEvent, terminates, errors, stuck, missed>>
    BY <1>9, Zenon DEF PrepareDone, PortDone, WaitDone
  <2>3. StartedOnce' /\ NotYet' /\ OneWay'
    BY <2>1, <2>2, AdvanceKeeps, Zenon
  <2>4. task' = Absent /\ calls' = calls \cup {Plain(s)} /\ Plain(s) \in GoodStates
    BY <2>1, PlainStates, Order, Zenon DEF Resolve
  <2>5. TypeOK'
    BY <1>0, <1>1, <2>2, <2>4, Zenon DEF TypeOK
  <2> QED
    BY <1>0, <2>2, <2>3, <2>4, <2>5, Zenon DEF IInv, Driven
<1>10. CASE PrepareFails \/ SpawnFails \/ StopConflict
  <2>1. TypeOK'
    BY <1>0, <1>1, <1>2, <1>f, <1>10 DEF PrepareFails, SpawnFails, StopConflict, Resolve, TypeOK
  <2> QED
    BY <1>2, <1>4, <1>10, <2>1, Zenon DEF PrepareFails, SpawnFails, StopConflict, Resolve
<1>11. ASSUME NEW reason \in {"startuptimeout", "internalerror"}, WaitFails(reason) PROVE IInv'
  <2>1. /\ to_hard_terminating(state, reason) \in GoodStates
        /\ to_hard_terminating(state, reason).status \in {"hard-terminating", "terminated"}
    BY <1>0, Transitions, Zenon DEF TerminationReason
  <2>2. TypeOK'
    BY <1>0, <1>1, <1>11, <2>1, Zenon DEF WaitFails, Resolve, TypeOK
  <2> QED
    BY <1>4, <1>11, <2>1, <2>2, Zenon DEF WaitFails, Resolve
<1>12. CASE SpawnCreate \/ CreateDone \/ StartDone
  <2>1. TypeOK'
    BY <1>0, <1>12, Zenon DEF SpawnCreate, CreateDone, StartDone, TypeOK, TaskStep
  <2> QED
    BY <1>5, <1>12, <2>1, Zenon DEF SpawnCreate, CreateDone, StartDone, Spawning
<1>13. CASE TerminateInspect
  <2>1. TypeOK'
    BY <1>0, <1>1, <1>2, <1>13 DEF TerminateInspect, Resolve, TypeOK, TaskStep
  <2>2. CASE container = "running"
    BY <1>5, <1>13, <2>1, <2>2, Zenon DEF TerminateInspect
  <2>3. CASE container # "running"
    BY <1>2, <1>4, <1>13, <2>1, <2>3, Zenon DEF TerminateInspect, Resolve
  <2> QED
    BY <2>2, <2>3, Zenon
<1>14. CASE TerminateFails
  <2>1. TypeOK'
    BY <1>0, <1>f, <1>14, Zenon DEF TerminateFails, TypeOK, TaskStep
  <2> QED
    BY <1>5, <1>14, <2>1, Zenon DEF TerminateFails
<1>15. CASE UNCHANGED vars
  <2>1. TypeOK'
    BY <1>0, <1>15, Zenon DEF TypeOK, vars
  <2> QED
    BY <1>5, <1>15, <2>1, Zenon DEF vars
<1> QED
  BY <1>3, <1>6, <1>7, <1>8, <1>9, <1>10, <1>11, <1>12, <1>13, <1>14, <1>15, Zenon
     DEF Next, Callers, Futures, Docker

\* The invariant of a backend manager.
THEOREM Invariance == Spec => []IInv
<1>1. Init => IInv
  <2> SUFFICES ASSUME Init PROVE IInv
    BY Zenon
  <2>1. Plain("scheduled") \in GoodStates /\ Plain("scheduled") \in State
    BY PlainStates, Order, Zenon DEF GoodStates
  <2>2. TypeOK
    <3>1. terminates \in 0..MaxTerminates /\ errors \in 0..MaxErrors
      BY ManagerConstants DEF Init
    <3>2. entered \in [BackendStatus -> Nat]
      BY Zenon DEF Init
    <3>3. state \in State /\ calls \subseteq State
      BY <2>1, Zenon DEF Init
    <3> QED
      BY <3>1, <3>2, <3>3, Zenon DEF Init, TypeOK
  <2>3. \A s \in {"loading", "starting", "waiting", "ready"} : ~Called(s)
    BY PlainDiffer, Zenon DEF Init, Called
  <2>4. \A s \in BackendStatus : entered[s] = 0
    BY Zenon DEF Init
  <2>5. StartedOnce /\ NotYet
    BY <2>4 DEF StartedOnce, NotYet, BackendStatus
  <2>6. OneWay
    BY <2>3, Zenon DEF Init, OneWay, Spawning, Absent
  <2> QED
    BY <2>1, <2>2, <2>5, <2>6, Zenon DEF Init, IInv, Driven
<1> QED
  BY <1>1, InvariantStep, PTL DEF Spec

\* However many terminations and failures race with its start, a manager in a
\* state with something left to do has a task or a call that does it, unless
\* the state callback failed.
THEOREM ManagersAreDriven == Spec => []Driven
<1>1. IInv => Driven
  BY Zenon DEF IInv
<1> QED
  BY <1>1, Invariance, PTL

\* runtime.spawn is called at most once for a manager.
THEOREM BackendsStartOnce == Spec => []StartedOnce
<1>1. IInv => StartedOnce
  BY Zenon DEF IInv
<1> QED
  BY <1>1, Invariance, PTL

\* The states that are set or computed say how they came about, through any
\* sequence of terminations and exits.
THEOREM StatesAreCoherent == Spec => []CoherentStates
<1>1. IInv => CoherentStates
  BY Zenon DEF IInv, GoodStates, CoherentStates
<1> QED
  BY <1>1, Invariance, PTL

-----------------------------------------------------------------------------
(* UnixSocket: the inductive invariant *)

\* The calls whose request has not been put into the client's channel.
NotSent == {"new", "inserted", "failed"}

Disjoint(p, q) == \A r \in Range(p) : r \notin Range(q)

\* A request is in one place of one queue at most: the client's receiver, the
\* connection, or one of those the client has left.
OnePlace ==
  /\ IsInjective(rx) /\ IsInjective(link.up) /\ Disjoint(rx, link.up)
  /\ \A i \in DOMAIN left :
       /\ IsInjective(left[i]) /\ Disjoint(left[i], rx) /\ Disjoint(left[i], link.up)
       /\ \A j \in DOMAIN left : i # j => Disjoint(left[i], left[j])

UnderWay(r) ==
  \/ r \in Range(rx) \/ r \in Range(link.up)
  \/ \E i \in DOMAIN left : r \in Range(left[i])

\* What is under way was sent, and the program has not been given it; what the
\* program was given was sent, and given once.
GivenOnce ==
  \A r \in Requests :
    /\ UnderWay(r) => handled[r] = 0 /\ call[r] \notin NotSent
    /\ handled[r] \in {0, 1}
    /\ handled[r] = 1 => call[r] \notin NotSent

\* The events under way were sent, and a connection that is drained is there.
EventsSent ==
  /\ \A m \in Range(response_rx) : m \in Events => m \in sent
  /\ \A m \in Range(link.down) : m \in Events => m \in sent
  /\ server = "draining" => left # <<>>

UnixIInv == UnixTypeOK /\ OnePlace /\ GivenOnce /\ EventsSent

-----------------------------------------------------------------------------
(* UnixSocket: queues *)

\* An empty queue holds nothing.
LEMMA QueueEmpty == Range(<<>>) = {} /\ IsInjective(<<>>) /\ DOMAIN <<>> = {}
  BY DEF Range, IsInjective

\* A queue with one more message, which it did not hold.
LEMMA QueueAppend ==
  ASSUME NEW S, NEW q \in Seq(S), NEW m \in S
  PROVE  /\ Append(q, m) \in Seq(S)
         /\ \A x \in Range(Append(q, m)) : x \in Range(q) \/ x = m
         /\ IsInjective(q) /\ m \notin Range(q) => IsInjective(Append(q, m))
<1>1. Append(q, m) \in Seq(S) /\ DOMAIN q = 1..Len(q) /\ DOMAIN Append(q, m) = 1..(Len(q) + 1)
  OBVIOUS
<1>2. Append(q, m)[Len(q) + 1] = m /\ \A n \in 1..Len(q) : Append(q, m)[n] = q[n]
  OBVIOUS
<1>3. \A n \in 1..(Len(q) + 1) : n \in 1..Len(q) \/ n = Len(q) + 1
  BY <1>1
<1> QED  BY <1>1, <1>2, <1>3, Zenon DEF Range, IsInjective

\* A queue whose first message was taken.
LEMMA QueueTail ==
  ASSUME NEW S, NEW q \in Seq(S), q # <<>>
  PROVE  /\ Head(q) \in S /\ Head(q) \in Range(q)
         /\ Tail(q) \in Seq(S) /\ Len(Tail(q)) = Len(q) - 1 /\ Len(q) \in Nat \ {0}
         /\ \A x \in Range(Tail(q)) : x \in Range(q)
         /\ IsInjective(q) => IsInjective(Tail(q)) /\ Head(q) \notin Range(Tail(q))
<1>1. /\ Head(q) \in S /\ Head(q) = q[1] /\ Tail(q) \in Seq(S)
      /\ Len(q) \in Nat \ {0} /\ DOMAIN q = 1..Len(q) /\ DOMAIN Tail(q) = 1..(Len(q) - 1)
      /\ Len(Tail(q)) = Len(q) - 1
  OBVIOUS
<1>2. \A n \in 1..(Len(q) - 1) : Tail(q)[n] = q[n + 1]
  OBVIOUS
<1> QED  BY <1>1, <1>2 DEF Range, IsInjective

\* A message is sent to a receiver, which may cost it the oldest it holds.
LEMMA QueueBroadcast ==
  ASSUME NEW S, NEW q \in Seq(S), Len(q) <= Capacity, NEW m \in S
  PROVE  /\ Broadcast(q, m) \in Seq(S) /\ Len(Broadcast(q, m)) <= Capacity
         /\ \A x \in Range(Broadcast(q, m)) : x \in Range(q) \/ x = m
         /\ IsInjective(q) /\ m \notin Range(q) => IsInjective(Broadcast(q, m))
         /\ Overwritten(q) \subseteq S
<1>0. Capacity \in Nat \ {0} /\ Len(q) \in Nat
  BY UnixSocketAssumption
<1>1. CASE Len(q) < Capacity
  <2>1. Broadcast(q, m) = Append(q, m) /\ Overwritten(q) \subseteq S
    BY <1>1 DEF Broadcast, Overwritten
  <2>2. Len(Append(q, m)) <= Capacity
    BY <1>0, <1>1
  <2>3. /\ Append(q, m) \in Seq(S)
        /\ \A x \in Range(Append(q, m)) : x \in Range(q) \/ x = m
        /\ IsInjective(q) /\ m \notin Range(q) => IsInjective(Append(q, m))
    BY QueueAppend, Zenon
  <2> QED  BY <2>1, <2>2, <2>3, Zenon
<1>2. CASE ~(Len(q) < Capacity)
  <2>1. Broadcast(q, m) = Append(Tail(q), m) /\ Overwritten(q) = {Head(q)}
    BY <1>2, Zenon DEF Broadcast, Overwritten
  <2>2. q # <<>>
    BY <1>0, <1>2
  <2>3. /\ Head(q) \in S /\ Tail(q) \in Seq(S) /\ Len(Tail(q)) = Len(q) - 1
        /\ \A x \in Range(Tail(q)) : x \in Range(q)
        /\ IsInjective(q) => IsInjective(Tail(q))
    BY <2>2, QueueTail, Zenon
  <2>4. /\ Append(Tail(q), m) \in Seq(S)
        /\ \A x \in Range(Append(Tail(q), m)) : x \in Range(q) \/ x = m
        /\ IsInjective(q) /\ m \notin Range(q) => IsInjective(Append(Tail(q), m))
    BY <2>3, QueueAppend, Zenon
  <2>5. Len(Append(Tail(q), m)) <= Capacity
    BY <1>0, <2>3
  <2>6. {Head(q)} \subseteq S
    BY <2>3
  <2> QED  BY <2>1, <2>4, <2>5, <2>6, Zenon
<1> QED  BY <1>1, <1>2, Zenon

Link == [up : Seq(Requests), down : Seq(Requests \cup Events), dead : BOOLEAN]

\* The connections that the steps of client and server make of one another.
LEMMA Links ==
  /\ Closed \in Link /\ Closed.up = <<>> /\ Closed.down = <<>>
  /\ Opened \in Link /\ Opened.up = <<>> /\ Opened.down = <<>>
  /\ \A l \in Link :
       /\ l.up \in Seq(Requests) /\ l.down \in Seq(Requests \cup Events)
       /\ LET k == [up |-> <<>>, down |-> l.down, dead |-> TRUE]
          IN  k \in Link /\ k.up = <<>> /\ k.down = l.down
       /\ \A q \in Seq(Requests) :
            LET k == [l EXCEPT !.up = q] IN k \in Link /\ k.up = q /\ k.down = l.down
       /\ \A q \in Seq(Requests \cup Events) :
            LET k == [l EXCEPT !.down = q] IN k \in Link /\ k.up = l.up /\ k.down = q
<1>1. /\ Closed \in Link /\ Closed.up = <<>> /\ Closed.down = <<>>
      /\ Opened \in Link /\ Opened.up = <<>> /\ Opened.down = <<>>
  BY DEF Closed, Opened, Link
<1>2. \A l \in Link : l.up \in Seq(Requests) /\ l.down \in Seq(Requests \cup Events)
  BY DEF Link
<1>3. ASSUME NEW l \in Link
      PROVE  LET k == [up |-> <<>>, down |-> l.down, dead |-> TRUE]
             IN  k \in Link /\ k.up = <<>> /\ k.down = l.down
  BY DEF Link
<1>4. ASSUME NEW l \in Link, NEW q \in Seq(Requests)
      PROVE  LET k == [l EXCEPT !.up = q] IN k \in Link /\ k.up = q /\ k.down = l.down
  BY DEF Link
<1>5. ASSUME NEW l \in Link, NEW q \in Seq(Requests \cup Events)
      PROVE  LET k == [l EXCEPT !.down = q] IN k \in Link /\ k.up = l.up /\ k.down = q
  BY DEF Link
<1> QED  BY <1>1, <1>2, <1>3, <1>4, <1>5, Zenon

\* What the tasks hold, by its type.
LEMMA UnixFields ==
  ASSUME UnixTypeOK
  PROVE  /\ call \in [Requests -> {"new", "inserted", "waiting", "returned", "failed", "gone"}]
         /\ rx \in Seq(Requests) /\ link \in Link
         /\ link.up \in Seq(Requests) /\ link.down \in Seq(Requests \cup Events)
         /\ response_rx \in Seq(Requests \cup Events)
         /\ left \in Seq(Seq(Requests)) /\ \A i \in DOMAIN left : left[i] \in Seq(Requests)
         /\ handled \in [Requests -> Nat] /\ Pending \subseteq Requests
<1>1. link \in Link
  BY Zenon DEF UnixTypeOK, Link
<1>2. \A i \in DOMAIN left : left[i] \in Seq(Requests)
  BY DEF UnixTypeOK
<1>3. Pending \subseteq Requests
  BY DEF Pending
<1> QED  BY <1>1, <1>2, <1>3, Links, Zenon DEF UnixTypeOK

\* A step that gives the program nothing and leaves each queue of requests, or
\* empties it.
LEMMA QueuesLeft ==
  ASSUME UnixIInv, UnixTypeOK', EventsSent', handled' = handled,
         rx' \in {rx, <<>>}, (link.up)' \in {link.up, <<>>}, left' \in {left, <<>>},
         \A r \in Requests : call[r] \notin NotSent => call'[r] \notin NotSent
  PROVE  UnixIInv'
<1>1. OnePlace'
  BY QueueEmpty, Zenon DEF UnixIInv, OnePlace, Disjoint
<1>2. \A r \in Requests : UnderWay(r)' => UnderWay(r)
  BY QueueEmpty, Zenon DEF UnderWay
<1>3. GivenOnce'
  BY <1>2, Zenon DEF UnixIInv, GivenOnce
<1> QED  BY <1>1, <1>3, Zenon DEF UnixIInv


-----------------------------------------------------------------------------
(* UnixSocket: the steps that send no request *)

\* The calls go on, as far as the program and the queues are concerned.
LEMMA CallSteps ==
  ASSUME UnixIInv, NEW r \in Requests, InsertEntry(r) \/ Abort(r) \/ (Send(r) /\ UNCHANGED rx /\ call'[r] = "failed")
  PROVE  UnixIInv'
<1>0. UnixTypeOK /\ EventsSent
  BY Zenon DEF UnixIInv
<1>1. /\ link' = link /\ left' = left /\ handled' = handled /\ rx' = rx /\ client' = client
      /\ server' = server /\ program' = program /\ listening' = listening
      /\ response_rx' = response_rx /\ troubles' = troubles /\ seen' = seen /\ sent' = sent
  BY Zenon DEF InsertEntry, Abort, Send, serverVars
<1>2. response_map' \subseteq Requests
  <2>1. response_map' \in {response_map, response_map \cup {r}}
    BY Zenon DEF InsertEntry, Abort, Send
  <2> QED  BY <1>0, <2>1 DEF UnixTypeOK
<1>3. PICK s \in {"inserted", "failed", "gone"} :
        call' = [call EXCEPT ![r] = s] /\ (s # "gone" => call[r] \in NotSent)
  <2>1. CASE Send(r) /\ call'[r] = "failed"
    <3>1. call' \in {[call EXCEPT ![r] = "waiting"], [call EXCEPT ![r] = "failed"]}
          /\ call[r] = "inserted"
      BY <2>1, Zenon DEF Send
    <3>2. call' = [call EXCEPT ![r] = "failed"]
      BY <1>0, <2>1, <3>1, UnixFields
    <3> QED  BY <3>1, <3>2, Zenon DEF NotSent
  <2>2. CASE InsertEntry(r) \/ Abort(r)
    BY <2>2, Zenon DEF InsertEntry, Abort, NotSent
  <2> QED  BY <2>1, <2>2, Zenon
<1>4. call' \in [Requests -> {"new", "inserted", "waiting", "returned", "failed", "gone"}]
  BY <1>0, <1>3, UnixFields
<1>5. \A x \in Requests : call[x] \notin NotSent => call'[x] \notin NotSent
  BY <1>0, <1>3, UnixFields DEF NotSent
<1>6. disturbed' \subseteq Requests \cup Events
  <2>1. disturbed' = disturbed \/ (Send(r) /\ call'[r] = "failed")
    BY Zenon DEF InsertEntry, Abort
  <2>2. Send(r) /\ call'[r] = "failed" => disturbed' = disturbed
    <3>1. [call EXCEPT ![r] = "waiting"][r] # "failed"
      BY <1>0, UnixFields
    <3> QED  BY <3>1, Zenon DEF Send
  <2> QED  BY <1>0, <2>1, <2>2, Zenon DEF UnixTypeOK
<1>7. UnixTypeOK'
  BY <1>0, <1>1, <1>2, <1>4, <1>6, Zenon DEF UnixTypeOK
<1>8. EventsSent'
  BY <1>0, <1>1, Zenon DEF EventsSent
<1> QED  BY <1>1, <1>5, <1>7, <1>8, QueuesLeft, Zenon

\* The tasks of the client and the server connect, leave and come back.
LEMMA TaskSteps ==
  ASSUME UnixIInv,
         \/ Connect \/ ConnectTimesOut \/ ConnectionEnds \/ Resubscribe \/ Listen \/ StartServer
         \/ Accept \/ ServerResubscribes \/ StartClient
  PROVE  UnixIInv'
<1>0. UnixTypeOK /\ EventsSent
  BY Zenon DEF UnixIInv
<1>1. /\ call' = call /\ response_map' = response_map /\ left' = left /\ handled' = handled
      /\ program' = program /\ response_rx' = response_rx /\ troubles' = troubles /\ seen' = seen
      /\ sent' = sent
  BY Zenon DEF Connect, ConnectTimesOut, ConnectionEnds, Resubscribe, Listen, StartServer, Accept,
               ServerResubscribes, StartClient, serverVars, clientVars, callVars
<1>2. link' \in {link, Opened} /\ rx' \in {rx, <<>>}
  BY Zenon DEF Connect, ConnectTimesOut, ConnectionEnds, Resubscribe, Listen, StartServer, Accept,
               ServerResubscribes, StartClient, serverVars, clientVars, callVars
<1>3. /\ client' \in {"connecting", "connected", "resubscribing", "over", "down"}
      /\ server' \in {"down", "accepting", "serving", "draining", "resubscribing"}
      /\ listening' \in BOOLEAN
      /\ server' = "draining" => server = "draining" \/ left # <<>>
  BY <1>0, Zenon DEF UnixTypeOK, Connect, ConnectTimesOut, ConnectionEnds, Resubscribe, Listen, StartServer,
               Accept, ServerResubscribes, StartClient, serverVars, clientVars, callVars
<1>4. disturbed' \subseteq Requests \cup Events
  <2>1. disturbed' \in {disturbed, disturbed \cup Pending \cup (sent \ seen)}
    BY Zenon DEF Connect, ConnectTimesOut, ConnectionEnds, Resubscribe, Listen, StartServer, Accept,
                 ServerResubscribes, StartClient
  <2>2. /\ disturbed \subseteq Requests \cup Events /\ Pending \subseteq Requests /\ sent \subseteq Events
    BY <1>0, UnixFields, Zenon DEF UnixTypeOK
  <2> QED  BY <2>1, <2>2
<1>5. rx' \in Seq(Requests) /\ Len(rx') <= Capacity
  <2>1. <<>> \in Seq(Requests) /\ Len(<<>>) <= Capacity
    BY UnixSocketAssumption
  <2> QED  BY <1>0, <1>2, <2>1, Zenon DEF UnixTypeOK
<1>6. link' \in Link /\ (link.up)' \in {link.up, <<>>} /\ (link.down)' \in {link.down, <<>>}
  BY <1>0, <1>2, Links, UnixFields, Zenon
<1>7. UnixTypeOK'
  BY <1>0, <1>1, <1>3, <1>4, <1>5, <1>6, Zenon DEF UnixTypeOK, Link
<1>8. EventsSent'
  BY <1>0, <1>1, <1>3, <1>6, QueueEmpty, Zenon DEF EventsSent
<1> QED  BY <1>1, <1>2, <1>6, <1>7, <1>8, QueuesLeft, Zenon


\* A line of the server is read: a response ends its call.
LEMMA ReceiveLineStep == ASSUME UnixIInv, ReceiveLine PROVE UnixIInv'
<1> DEFINE m == Head(link.down)
<1>0. UnixTypeOK /\ EventsSent
  BY Zenon DEF UnixIInv
<1>1. /\ link.down # <<>> /\ link' = [link EXCEPT !.down = Tail(link.down)]
      /\ response_map' = response_map \ {m}
      /\ seen' \in {seen, seen \cup ({m} \cap Events)}
      /\ disturbed' \in {disturbed, disturbed \cup ({m} \cap Events)}
  BY Zenon DEF ReceiveLine
<1>2. /\ client' = client /\ listening' = listening /\ rx' = rx /\ server' = server /\ left' = left
      /\ response_rx' = response_rx /\ program' = program /\ troubles' = troubles
      /\ handled' = handled /\ sent' = sent
  BY Zenon DEF ReceiveLine, serverVars
<1>3. /\ m \in Range(link.down) /\ Tail(link.down) \in Seq(Requests \cup Events)
      /\ \A x \in Range(Tail(link.down)) : x \in Range(link.down)
  BY <1>0, <1>1, UnixFields, QueueTail, Zenon
<1>4. link' \in Link /\ (link.up)' = link.up /\ (link.down)' = Tail(link.down)
  BY <1>0, <1>1, <1>3, UnixFields, Links, Zenon
<1>5. {m} \cap Events \subseteq sent
  BY <1>0, <1>3 DEF EventsSent
<1>6. /\ response_map' \subseteq Requests /\ seen' \subseteq sent
      /\ disturbed' \subseteq Requests \cup Events
  <2> HIDE DEF m
  <2> QED  BY <1>0, <1>1, <1>5 DEF UnixTypeOK
<1>7. \A r \in Requests : call'[r] = call[r] \/ call'[r] = "returned"
  BY Zenon DEF ReceiveLine
<1>8. call' \in [Requests -> {"new", "inserted", "waiting", "returned", "failed", "gone"}]
  <2>1. call' = [r \in Requests |-> call'[r]]
    BY Zenon DEF ReceiveLine
  <2>2. \A r \in Requests : call'[r] \in {"new", "inserted", "waiting", "returned", "failed", "gone"}
    BY <1>0, <1>7, UnixFields, Zenon
  <2> QED  BY <2>1, <2>2, Zenon
<1>9. UnixTypeOK'
  BY <1>0, <1>2, <1>4, <1>6, <1>8, Zenon DEF UnixTypeOK, Link
<1>10. EventsSent'
  BY <1>0, <1>2, <1>3, <1>4, Zenon DEF EventsSent
<1>11. \A r \in Requests : call[r] \notin NotSent => call'[r] \notin NotSent
  BY <1>7, Zenon DEF NotSent
<1> QED  BY <1>2, <1>4, <1>9, <1>10, <1>11, QueuesLeft, Zenon

\* The server writes a line.
LEMMA WriteLineStep == ASSUME UnixIInv, WriteLine PROVE UnixIInv'
<1> DEFINE m == Head(response_rx)
<1>0. UnixTypeOK /\ EventsSent
  BY Zenon DEF UnixIInv
<1>1. /\ response_rx # <<>> /\ response_rx' = Tail(response_rx)
      /\ link' \in {link, [link EXCEPT !.down = Append(link.down, m)]}
  BY Zenon DEF WriteLine
<1>2. /\ call' = call /\ response_map' = response_map /\ client' = client /\ listening' = listening
      /\ rx' = rx /\ server' = server /\ left' = left /\ program' = program
      /\ troubles' = troubles /\ handled' = handled /\ sent' = sent /\ seen' = seen
      /\ disturbed' = disturbed
  BY Zenon DEF WriteLine, clientVars, callVars
<1>3. /\ m \in Range(response_rx) /\ m \in Requests \cup Events
      /\ Tail(response_rx) \in Seq(Requests \cup Events)
      /\ Len(Tail(response_rx)) = Len(response_rx) - 1 /\ Len(response_rx) \in Nat \ {0}
      /\ \A x \in Range(Tail(response_rx)) : x \in Range(response_rx)
  BY <1>0, <1>1, UnixFields, QueueTail, Zenon
<1>4. Len(response_rx') <= Capacity
  BY <1>0, <1>1, <1>3, UnixSocketAssumption DEF UnixTypeOK
<1>5. /\ Append(link.down, m) \in Seq(Requests \cup Events)
      /\ \A x \in Range(Append(link.down, m)) : x \in Range(link.down) \/ x = m
  BY <1>0, <1>3, UnixFields, QueueAppend, Zenon
<1>6. /\ link' \in Link /\ (link.up)' = link.up
      /\ (link.down)' \in {link.down, Append(link.down, m)}
  <2>1. LET k == [link EXCEPT !.down = Append(link.down, m)]
        IN  k \in Link /\ k.up = link.up /\ k.down = Append(link.down, m)
    BY <1>0, <1>5, UnixFields, Links, Zenon
  <2> QED  BY <1>0, <1>1, <2>1, UnixFields, Zenon
<1>7. UnixTypeOK'
  BY <1>0, <1>1, <1>2, <1>3, <1>4, <1>6, Zenon DEF UnixTypeOK, Link
<1>8. EventsSent'
  BY <1>0, <1>1, <1>2, <1>3, <1>5, <1>6, Zenon DEF EventsSent
<1> QED  BY <1>2, <1>6, <1>7, <1>8, QueuesLeft, Zenon

\* The program responds, or sends an event.
LEMMA ProgramSteps ==
  ASSUME UnixIInv, NEW m, (m \in Requests /\ Respond(m)) \/ (m \in Events /\ SendEvent(m))
  PROVE  UnixIInv'
<1>0. UnixTypeOK /\ EventsSent /\ m \in Requests \cup Events
  BY Zenon DEF UnixIInv
<1>1. /\ call' = call /\ response_map' = response_map /\ client' = client /\ listening' = listening
      /\ rx' = rx /\ link' = link /\ server' = server /\ left' = left /\ troubles' = troubles
      /\ handled' = handled /\ seen' = seen
      /\ response_rx' \in {response_rx, Broadcast(response_rx, m)}
  BY Zenon DEF Respond, SendEvent, Publish, clientVars, callVars
<1>2. response_rx \in Seq(Requests \cup Events) /\ Len(response_rx) <= Capacity
  BY <1>0, Zenon DEF UnixTypeOK
<1>3. /\ Broadcast(response_rx, m) \in Seq(Requests \cup Events)
      /\ Len(Broadcast(response_rx, m)) <= Capacity
      /\ \A x \in Range(Broadcast(response_rx, m)) : x \in Range(response_rx) \/ x = m
      /\ Overwritten(response_rx) \subseteq Requests \cup Events
  BY <1>0, <1>2, QueueBroadcast, Zenon
<1>4. /\ sent' \in {sent, sent \cup {m}} /\ sent' \subseteq Events /\ (m \in Events => m \in sent')
      /\ program' \subseteq Requests
  <2>1. m \notin Requests \/ m \notin Events
    BY UnixSocketAssumption
  <2>2. CASE m \in Requests /\ Respond(m)
    BY <1>0, <2>1, <2>2 DEF Respond, UnixTypeOK
  <2>3. CASE m \in Events /\ SendEvent(m)
    BY <1>0, <2>1, <2>3 DEF SendEvent, UnixTypeOK
  <2> QED  BY <2>2, <2>3, Zenon
<1>5. seen \subseteq sent'
  BY <1>0, <1>4 DEF UnixTypeOK
<1>6. disturbed' \subseteq Requests \cup Events
  <2>1. PICK D \in SUBSET {m} : disturbed' = disturbed \cup Overwritten(response_rx) \cup D
    <3>1. CASE Respond(m)
      <4>1. disturbed \cup Overwritten(response_rx) = disturbed \cup Overwritten(response_rx) \cup {}
        OBVIOUS
      <4>2. {} \in SUBSET {m}
        OBVIOUS
      <4> QED  BY <3>1, <4>1, <4>2, Zenon DEF Respond
    <3>2. CASE SendEvent(m)
      <4> DEFINE P == \/ server \in {"draining", "resubscribing"} \/ left # <<>> \/ client = "over"
      <4>1. disturbed' = disturbed \cup Overwritten(response_rx) \cup {x \in {m} : P}
        BY <3>2, Zenon DEF SendEvent
      <4>2. {x \in {m} : P} \in SUBSET {m}
        OBVIOUS
      <4> QED  BY <4>1, <4>2, Zenon
    <3> QED  BY <3>1, <3>2, Zenon
  <2>2. disturbed \subseteq Requests \cup Events
    BY <1>0, Zenon DEF UnixTypeOK
  <2> QED  BY <1>0, <1>3, <2>1, <2>2
<1>7. UnixTypeOK'
  BY <1>0, <1>1, <1>3, <1>4, <1>5, <1>6, Zenon DEF UnixTypeOK
<1>8. \A e \in sent : e \in sent'
  BY <1>4
<1>9. EventsSent'
  BY <1>0, <1>1, <1>3, <1>4, <1>8, Zenon DEF EventsSent
<1> QED  BY <1>1, <1>7, <1>9, QueuesLeft, Zenon

\* Trouble is counted.
LEMMA TroubleType == ASSUME UnixTypeOK, Trouble PROVE troubles' \in 0..MaxTroubles
  BY UnixSocketAssumption DEF UnixTypeOK, Trouble

\* The server's process stops, and what it has not read is gone.
LEMMA StopServerStep == ASSUME UnixIInv, StopServer PROVE UnixIInv'
<1>0. UnixTypeOK /\ EventsSent
  BY Zenon DEF UnixIInv
<1>1. /\ server' = "down" /\ left' = <<>> /\ response_rx' = <<>> /\ program' = {}
      /\ link' = [up |-> <<>>, down |-> link.down, dead |-> TRUE]
      /\ call' = call /\ response_map' = response_map /\ client' = client /\ listening' = listening
      /\ rx' = rx /\ handled' = handled /\ sent' = sent /\ seen' = seen
  BY Zenon DEF StopServer, clientVars, callVars
<1>2. troubles' \in 0..MaxTroubles
  BY <1>0, TroubleType, Zenon DEF StopServer
<1>3. link' \in Link /\ (link.up)' = <<>> /\ (link.down)' = link.down
  BY <1>0, <1>1, UnixFields, Links, Zenon
<1>4. disturbed' \subseteq Requests \cup Events
  <2>1. PICK P \in {Pending, {}} : disturbed' = disturbed \cup (sent \ seen) \cup P
    BY Zenon DEF StopServer
  <2>2. /\ disturbed \subseteq Requests \cup Events /\ sent \subseteq Events /\ Pending \subseteq Requests
    BY <1>0, UnixFields, Zenon DEF UnixTypeOK
  <2> QED  BY <2>1, <2>2
<1>5. /\ <<>> \in Seq(Seq(Requests)) /\ <<>> \in Seq(Requests \cup Events) /\ Len(<<>>) <= Capacity
      /\ {} \subseteq Requests
  BY UnixSocketAssumption
<1>6. UnixTypeOK'
  BY <1>0, <1>1, <1>2, <1>3, <1>4, <1>5, Zenon DEF UnixTypeOK, Link
<1>7. EventsSent'
  BY <1>0, <1>1, <1>3, QueueEmpty, Zenon DEF EventsSent
<1> QED  BY <1>1, <1>3, <1>6, <1>7, QueuesLeft, Zenon


-----------------------------------------------------------------------------
(* UnixSocket: the way of a request *)

\* What is true of a request that has not been sent.
LEMMA NotSentNotThere ==
  ASSUME UnixIInv, NEW r \in Requests, call[r] \in NotSent
  PROVE  handled[r] = 0 /\ ~UnderWay(r)
  BY Zenon DEF UnixIInv, GivenOnce

\* A request is put into the client's channel.
LEMMA SentStep ==
  ASSUME UnixIInv, NEW r \in Requests, Send(r) PROVE UnixIInv'
<1>0. UnixTypeOK /\ OnePlace /\ GivenOnce /\ EventsSent
  BY Zenon DEF UnixIInv
<1>1. CASE client \notin {"connecting", "connected"}
  <2>1. call' = [call EXCEPT ![r] = "failed"] /\ rx' = rx
    BY <1>1, Zenon DEF Send
  <2>2. call'[r] = "failed"
    BY <1>0, <2>1, UnixFields
  <2> QED  BY <2>1, <2>2, CallSteps, Zenon
<1>2. CASE client \in {"connecting", "connected"}
  <2> DEFINE P == client = "connected" /\ link.dead
  <2>1. /\ call[r] = "inserted" /\ call' = [call EXCEPT ![r] = "waiting"]
        /\ rx' = Broadcast(rx, r)
        /\ disturbed' = disturbed \cup Overwritten(rx) \cup {x \in {r} : P}
    <3>1. client \notin {"resubscribing", "over"}
      BY <1>2, Zenon
    <3> QED  BY <3>1, Zenon DEF Send
  <2>2. /\ response_map' = response_map /\ client' = client /\ listening' = listening /\ link' = link
        /\ server' = server /\ left' = left /\ response_rx' = response_rx /\ program' = program
        /\ troubles' = troubles /\ handled' = handled /\ sent' = sent /\ seen' = seen
    BY Zenon DEF Send, serverVars
  <2>3. rx \in Seq(Requests) /\ Len(rx) <= Capacity /\ IsInjective(rx)
    BY <1>0, Zenon DEF UnixTypeOK, OnePlace
  <2>4. handled[r] = 0 /\ ~UnderWay(r)
    BY <2>1, NotSentNotThere, Zenon DEF NotSent
  <2>5. r \notin Range(rx) /\ r \notin Range(link.up) /\ \A i \in DOMAIN left : r \notin Range(left[i])
    BY <2>4, Zenon DEF UnderWay
  <2>6. /\ rx' \in Seq(Requests) /\ Len(rx') <= Capacity /\ IsInjective(rx')
        /\ \A x \in Range(rx') : x \in Range(rx) \/ x = r
        /\ Overwritten(rx) \subseteq Requests
    BY <2>1, <2>3, <2>5, QueueBroadcast, Zenon
  <2>7. /\ call' \in [Requests -> {"new", "inserted", "waiting", "returned", "failed", "gone"}]
        /\ call'[r] = "waiting" /\ \A x \in Requests \ {r} : call'[x] = call[x]
    BY <1>0, <2>1, UnixFields
  <2>8. disturbed' \subseteq Requests \cup Events
    <3>1. {x \in {r} : P} \subseteq Requests
      OBVIOUS
    <3>2. disturbed \subseteq Requests \cup Events
      BY <1>0, Zenon DEF UnixTypeOK
    <3> HIDE DEF P
    <3> QED  BY <2>1, <2>6, <3>1, <3>2
  <2>9. UnixTypeOK'
    BY <1>0, <2>2, <2>6, <2>7, <2>8, Zenon DEF UnixTypeOK
  <2>10. EventsSent'
    BY <1>0, <2>2, Zenon DEF EventsSent
  <2>11. OnePlace'
    <3>1. Disjoint(rx, link.up)'
      BY <1>0, <2>2, <2>5, <2>6, Zenon DEF OnePlace, Disjoint
    <3>2. \A i \in DOMAIN left : Disjoint(left[i], rx')
      BY <1>0, <2>5, <2>6, Zenon DEF OnePlace, Disjoint
    <3> QED  BY <1>0, <2>2, <2>6, <3>1, <3>2, Zenon DEF OnePlace
  <2>12. GivenOnce'
    <3>1. \A x \in Requests \ {r} : UnderWay(x)' => UnderWay(x)
      BY <2>2, <2>6, Zenon DEF UnderWay
    <3>2. call'[r] \notin NotSent
      BY <2>7, Zenon DEF NotSent
    <3> QED  BY <1>0, <2>2, <2>4, <2>7, <3>1, <3>2, Zenon DEF GivenOnce
  <2> QED  BY <2>9, <2>10, <2>11, <2>12, Zenon DEF UnixIInv
<1> QED  BY <1>1, <1>2, Zenon

\* A request is written to the connection, or lost.
LEMMA WriteRequestStep == ASSUME UnixIInv, WriteRequest PROVE UnixIInv'
<1> DEFINE m == Head(rx)
<1>0. UnixTypeOK /\ OnePlace /\ GivenOnce /\ EventsSent
  BY Zenon DEF UnixIInv
<1>1. /\ rx # <<>> /\ rx' = Tail(rx)
      /\ link' \in {link, [link EXCEPT !.up = Append(link.up, m)]}
  BY Zenon DEF WriteRequest
<1>2. /\ call' = call /\ response_map' = response_map /\ client' = client /\ listening' = listening
      /\ server' = server /\ left' = left /\ response_rx' = response_rx /\ program' = program
      /\ troubles' = troubles /\ handled' = handled /\ sent' = sent /\ seen' = seen
      /\ disturbed' = disturbed
  BY Zenon DEF WriteRequest, callVars, serverVars
<1>3. /\ m \in Requests /\ m \in Range(rx) /\ Tail(rx) \in Seq(Requests)
      /\ Len(Tail(rx)) = Len(rx) - 1 /\ Len(rx) \in Nat \ {0}
      /\ \A x \in Range(Tail(rx)) : x \in Range(rx)
      /\ IsInjective(Tail(rx)) /\ m \notin Range(Tail(rx))
  BY <1>0, <1>1, UnixFields, QueueTail, Zenon DEF OnePlace
<1>4. m \notin Range(link.up)
  BY <1>0, <1>3, Zenon DEF OnePlace, Disjoint
<1>5. /\ Append(link.up, m) \in Seq(Requests)
      /\ \A x \in Range(Append(link.up, m)) : x \in Range(link.up) \/ x = m
      /\ IsInjective(Append(link.up, m))
  <2>1. link.up \in Seq(Requests) /\ IsInjective(link.up)
    BY <1>0, UnixFields, Zenon DEF OnePlace
  <2> HIDE DEF m
  <2> QED  BY <1>3, <1>4, <2>1, QueueAppend, Zenon
<1>6. /\ link' \in Link /\ (link.down)' = link.down
      /\ (link.up)' \in {link.up, Append(link.up, m)}
  <2>1. LET k == [link EXCEPT !.up = Append(link.up, m)]
        IN  k \in Link /\ k.up = Append(link.up, m) /\ k.down = link.down
    BY <1>0, <1>5, UnixFields, Links, Zenon
  <2> QED  BY <1>0, <1>1, <2>1, UnixFields, Zenon
<1>7. /\ IsInjective(link.up)'
      /\ \A x \in Range(link.up)' : x \in Range(link.up) \/ x = m
  BY <1>0, <1>5, <1>6, Zenon DEF OnePlace
<1>8. Len(rx') <= Capacity
  BY <1>0, <1>1, <1>3, UnixSocketAssumption DEF UnixTypeOK
<1>9. UnixTypeOK'
  BY <1>0, <1>1, <1>2, <1>3, <1>6, <1>8, Zenon DEF UnixTypeOK, Link
<1>10. EventsSent'
  BY <1>0, <1>2, <1>6, Zenon DEF EventsSent
<1> HIDE DEF m
<1>11. OnePlace'
  <2>1. \A x \in Range(rx') : x \in Range(rx) /\ x # m
    BY <1>1, <1>3, Zenon
  <2>2. Disjoint(rx, link.up)'
    BY <1>0, <1>7, <2>1, Zenon DEF OnePlace, Disjoint
  <2>3. \A i \in DOMAIN left : Disjoint(left[i], rx') /\ Disjoint(left[i], (link.up)')
    BY <1>0, <1>3, <1>7, <2>1, Zenon DEF OnePlace, Disjoint
  <2> QED  BY <1>0, <1>1, <1>2, <1>3, <1>7, <2>2, <2>3, Zenon DEF OnePlace
<1>12. GivenOnce'
  <2>1. \A x \in Requests : UnderWay(x)' => UnderWay(x)
    BY <1>1, <1>2, <1>3, <1>7, Zenon DEF UnderWay
  <2> QED  BY <1>0, <1>2, <2>1, Zenon DEF GivenOnce
<1> QED  BY <1>9, <1>10, <1>11, <1>12, Zenon DEF UnixIInv


\* The program is given a request that was under way, and no queue holds it
\* afterwards.
LEMMA HandleStep ==
  ASSUME UnixIInv, NEW m \in Requests, UnderWay(m), Handle(m), call' = call,
         \A x \in Requests : UnderWay(x)' => UnderWay(x) /\ x # m
  PROVE  GivenOnce' /\ handled' \in [Requests -> Nat] /\ (program \subseteq Requests => program' \subseteq Requests)
<1>0. UnixTypeOK /\ GivenOnce
  BY Zenon DEF UnixIInv
<1>1. handled[m] = 0 /\ call[m] \notin NotSent
  BY <1>0, Zenon DEF GivenOnce
<1>2. /\ handled' \in [Requests -> Nat] /\ handled'[m] = 1
      /\ \A x \in Requests \ {m} : handled'[x] = handled[x]
  BY <1>0, <1>1, UnixFields DEF Handle
<1>3. GivenOnce'
  <2> SUFFICES ASSUME NEW x \in Requests
               PROVE  /\ UnderWay(x)' => handled'[x] = 0 /\ call'[x] \notin NotSent
                      /\ handled'[x] \in {0, 1}
                      /\ handled'[x] = 1 => call'[x] \notin NotSent
    BY Zenon DEF GivenOnce
  <2>1. CASE x = m
    BY <1>1, <1>2, <2>1, Zenon
  <2>2. CASE x # m
    BY <1>0, <1>2, <2>2, Zenon DEF GivenOnce
  <2> QED  BY <2>1, <2>2, Zenon
<1>4. program \subseteq Requests => program' \subseteq Requests
  BY DEF Handle
<1> QED  BY <1>2, <1>3, <1>4, Zenon

\* The server reads a line of the client's connection.
LEMMA ReadLinkStep ==
  ASSUME UnixIInv, ReadLine, server = "serving" PROVE UnixIInv'
<1> DEFINE m == Head(link.up)
<1>0. UnixTypeOK /\ OnePlace /\ GivenOnce /\ EventsSent
  BY Zenon DEF UnixIInv
<1>1. /\ link.up # <<>> /\ link' = [link EXCEPT !.up = Tail(link.up)] /\ Handle(m) /\ left' = left
  BY Zenon DEF ReadLine
<1>2. /\ call' = call /\ response_map' = response_map /\ client' = client /\ listening' = listening
      /\ rx' = rx /\ server' = server /\ response_rx' = response_rx
      /\ troubles' = troubles /\ sent' = sent /\ seen' = seen /\ disturbed' = disturbed
  BY Zenon DEF ReadLine, clientVars, callVars
<1>3. link.up \in Seq(Requests) /\ IsInjective(link.up) /\ link \in Link
  BY <1>0, UnixFields, Zenon DEF OnePlace
<1>4. /\ m \in Requests /\ m \in Range(link.up) /\ Tail(link.up) \in Seq(Requests)
      /\ \A x \in Range(Tail(link.up)) : x \in Range(link.up)
      /\ IsInjective(Tail(link.up)) /\ m \notin Range(Tail(link.up))
  BY <1>1, <1>3, QueueTail, Zenon
<1>5. link' \in Link /\ (link.up)' = Tail(link.up) /\ (link.down)' = link.down
  BY <1>1, <1>3, <1>4, Links, Zenon
<1>6. OnePlace'
  BY <1>0, <1>1, <1>2, <1>4, <1>5, Zenon DEF OnePlace, Disjoint
<1> HIDE DEF m
<1>7. UnderWay(m)
  BY <1>4, Zenon DEF UnderWay
<1>8. m \notin Range(rx) /\ \A i \in DOMAIN left : m \notin Range(left[i])
  BY <1>0, <1>4, Zenon DEF OnePlace, Disjoint
<1>9. \A x \in Requests : UnderWay(x)' => UnderWay(x) /\ x # m
  BY <1>1, <1>2, <1>4, <1>5, <1>8, Zenon DEF UnderWay
<1>10. GivenOnce' /\ handled' \in [Requests -> Nat] /\ program' \subseteq Requests
  BY <1>0, <1>1, <1>2, <1>4, <1>7, <1>9, HandleStep, Zenon DEF UnixTypeOK
<1>11. UnixTypeOK'
  BY <1>0, <1>1, <1>2, <1>5, <1>10, Zenon DEF UnixTypeOK, Link
<1>12. EventsSent'
  BY <1>0, <1>1, <1>2, <1>5, Zenon DEF EventsSent
<1> QED  BY <1>6, <1>10, <1>11, <1>12, Zenon DEF UnixIInv

\* The server reads a line of a connection that the client has left.
LEMMA ReadLeftStep ==
  ASSUME UnixIInv, ReadLine, server # "serving" PROVE UnixIInv'
<1> DEFINE q == Head(left)
           m == Head(q)
<1>0. UnixTypeOK /\ OnePlace /\ GivenOnce /\ EventsSent
  BY Zenon DEF UnixIInv
<1>1. /\ server = "draining" /\ q # <<>> /\ left' = [left EXCEPT ![1] = Tail(left[1])]
      /\ Handle(m) /\ link' = link
  BY Zenon DEF ReadLine
<1>2. /\ call' = call /\ response_map' = response_map /\ client' = client /\ listening' = listening
      /\ rx' = rx /\ server' = server /\ response_rx' = response_rx
      /\ troubles' = troubles /\ sent' = sent /\ seen' = seen /\ disturbed' = disturbed
  BY Zenon DEF ReadLine, clientVars, callVars
<1>3. left # <<>> /\ left \in Seq(Seq(Requests))
  BY <1>0, <1>1, Zenon DEF EventsSent, UnixTypeOK
<1>4. q = left[1] /\ q \in Seq(Requests) /\ 1 \in DOMAIN left
  BY <1>3
<1>5. IsInjective(q)
  BY <1>0, <1>4, Zenon DEF OnePlace
<1>6. /\ m \in Requests /\ m \in Range(q) /\ Tail(q) \in Seq(Requests)
      /\ \A x \in Range(Tail(q)) : x \in Range(q)
      /\ IsInjective(Tail(q)) /\ m \notin Range(Tail(q))
  BY <1>1, <1>4, <1>5, QueueTail, Zenon
<1> HIDE DEF m, q
<1>7. /\ left' \in Seq(Seq(Requests)) /\ left' # <<>> /\ DOMAIN left' = DOMAIN left
      /\ left'[1] = Tail(q) /\ \A i \in DOMAIN left \ {1} : left'[i] = left[i]
  BY <1>1, <1>3, <1>4, <1>6
<1>8. \A i \in DOMAIN left :
        /\ IsInjective(left'[i]) /\ \A x \in Range(left'[i]) : x \in Range(left[i])
  <2> TAKE i \in DOMAIN left
  <2>1. CASE i = 1
    BY <1>4, <1>6, <1>7, <2>1, Zenon
  <2>2. CASE i # 1
    BY <1>0, <1>7, <2>2, Zenon DEF OnePlace
  <2> QED  BY <2>1, <2>2, Zenon
<1>9. OnePlace'
  <2>1. IsInjective(rx)' /\ IsInjective(link.up)' /\ Disjoint(rx, link.up)'
    BY <1>0, <1>1, <1>2, Zenon DEF OnePlace
  <2>2. ASSUME NEW i \in DOMAIN left'
        PROVE  /\ IsInjective(left'[i]) /\ Disjoint(left[i], rx)' /\ Disjoint(left[i], link.up)'
               /\ \A j \in DOMAIN left' : i # j => Disjoint(left'[i], left'[j])
    <3>1. i \in DOMAIN left
      BY <1>7, <2>2, Zenon
    <3>2. Disjoint(left[i], rx) /\ Disjoint(left[i], link.up)
      BY <1>0, <3>1, Zenon DEF OnePlace
    <3>3. \A j \in DOMAIN left : i # j => Disjoint(left[i], left[j])
      BY <1>0, <3>1, Zenon DEF OnePlace
    <3>4. Disjoint(left[i], rx)' /\ Disjoint(left[i], link.up)'
      BY <1>1, <1>2, <1>8, <3>1, <3>2, Zenon DEF Disjoint
    <3>5. \A j \in DOMAIN left' : i # j => Disjoint(left'[i], left'[j])
      BY <1>7, <1>8, <3>1, <3>3, Zenon DEF Disjoint
    <3> QED  BY <1>8, <3>1, <3>4, <3>5, Zenon
  <2> QED  BY <2>1, <2>2, Zenon DEF OnePlace
<1>10. UnderWay(m)
  BY <1>4, <1>6, Zenon DEF UnderWay
<1>11. /\ m \notin Range(rx) /\ m \notin Range(link.up)
       /\ \A i \in DOMAIN left : m \notin Range(left'[i])
  <2>1. m \notin Range(rx) /\ m \notin Range(link.up)
    BY <1>0, <1>4, <1>6, Zenon DEF OnePlace, Disjoint
  <2>2. ASSUME NEW i \in DOMAIN left, i # 1 PROVE m \notin Range(left[i])
    <3>1. Disjoint(left[1], left[i])
      BY <1>0, <1>4, <2>2, Zenon DEF OnePlace
    <3> QED  BY <1>4, <1>6, <3>1, Zenon DEF Disjoint
  <2> QED  BY <1>6, <1>7, <2>1, <2>2, Zenon
<1>12. \A x \in Requests : UnderWay(x)' => UnderWay(x) /\ x # m
  BY <1>1, <1>2, <1>7, <1>8, <1>11, Zenon DEF UnderWay
<1>13. GivenOnce' /\ handled' \in [Requests -> Nat] /\ program' \subseteq Requests
  BY <1>0, <1>1, <1>2, <1>6, <1>10, <1>12, HandleStep, Zenon DEF UnixTypeOK
<1>14. UnixTypeOK'
  BY <1>0, <1>1, <1>2, <1>7, <1>13, Zenon DEF UnixTypeOK
<1>15. EventsSent'
  BY <1>0, <1>1, <1>2, <1>7, Zenon DEF EventsSent
<1> QED  BY <1>9, <1>13, <1>14, <1>15, Zenon DEF UnixIInv


\* The server leaves a connection it has read to the end.
LEMMA ReadEndStep == ASSUME UnixIInv, ReadEnd PROVE UnixIInv'
<1>0. UnixTypeOK /\ OnePlace /\ GivenOnce /\ EventsSent
  BY Zenon DEF UnixIInv
<1>1. /\ server = "draining" /\ server' = "resubscribing" /\ left' = Tail(left) /\ response_rx' = <<>>
      /\ link' = link /\ program' = program /\ troubles' = troubles /\ handled' = handled
      /\ sent' = sent /\ seen' = seen /\ disturbed' = disturbed
      /\ call' = call /\ response_map' = response_map /\ client' = client /\ listening' = listening
      /\ rx' = rx
  BY Zenon DEF ReadEnd, clientVars, callVars
<1>2. left # <<>> /\ left \in Seq(Seq(Requests))
  BY <1>0, <1>1, Zenon DEF EventsSent, UnixTypeOK
<1>3. /\ left' \in Seq(Seq(Requests))
      /\ \A i \in DOMAIN left' : i + 1 \in DOMAIN left /\ left'[i] = left[i + 1]
      /\ \A i, j \in DOMAIN left' : i # j => i + 1 # j + 1
  BY <1>1, <1>2
<1>4. OnePlace'
  <2>1. ASSUME NEW i \in DOMAIN left'
        PROVE  /\ IsInjective(left'[i]) /\ Disjoint(left[i], rx)' /\ Disjoint(left[i], link.up)'
               /\ \A j \in DOMAIN left' : i # j => Disjoint(left'[i], left'[j])
    <3>1. i + 1 \in DOMAIN left /\ left'[i] = left[i + 1]
      BY <1>3, <2>1, Zenon
    <3>2. /\ IsInjective(left[i + 1]) /\ Disjoint(left[i + 1], rx) /\ Disjoint(left[i + 1], link.up)
          /\ \A j \in DOMAIN left : i + 1 # j => Disjoint(left[i + 1], left[j])
      BY <1>0, <3>1, Zenon DEF OnePlace
    <3>3. ASSUME NEW j \in DOMAIN left', i # j PROVE Disjoint(left'[i], left'[j])
      BY <1>3, <2>1, <3>1, <3>2, <3>3, Zenon
    <3> QED  BY <1>1, <3>1, <3>2, <3>3, Zenon
  <2> QED  BY <1>0, <1>1, <2>1, Zenon DEF OnePlace
<1>5. \A x \in Requests : UnderWay(x)' => UnderWay(x)
  BY <1>1, <1>3, Zenon DEF UnderWay
<1>6. GivenOnce'
  BY <1>0, <1>1, <1>5, Zenon DEF GivenOnce
<1>7. <<>> \in Seq(Requests \cup Events) /\ Len(<<>>) <= Capacity
  BY UnixSocketAssumption
<1>8. UnixTypeOK'
  BY <1>0, <1>1, <1>3, <1>7, Zenon DEF UnixTypeOK
<1>9. EventsSent'
  BY <1>0, <1>1, QueueEmpty, Zenon DEF EventsSent
<1> QED  BY <1>4, <1>6, <1>8, <1>9, Zenon DEF UnixIInv

\* The drone stops, and leaves a connection behind if it has one.
LEMMA StopClientStep == ASSUME UnixIInv, StopClient PROVE UnixIInv'
<1> DEFINE leaves == client = "connected" /\ ~link.dead
<1>0. UnixTypeOK /\ OnePlace /\ GivenOnce /\ EventsSent
  BY Zenon DEF UnixIInv
<1>1. /\ client' = "down" /\ listening' = FALSE /\ rx' = <<>> /\ response_map' = {} /\ link' = Closed
      /\ call' = [r \in Requests |->
                    IF call[r] \in {"inserted", "waiting"} THEN "gone" ELSE call[r]]
      /\ disturbed' = disturbed \cup (sent \ seen)
      /\ response_rx' = response_rx /\ program' = program /\ handled' = handled
      /\ sent' = sent /\ seen' = seen
  BY Zenon DEF StopClient
<1>2. troubles' \in 0..MaxTroubles
  BY <1>0, TroubleType, Zenon DEF StopClient
<1>3. /\ call' \in [Requests -> {"new", "inserted", "waiting", "returned", "failed", "gone"}]
      /\ \A r \in Requests : call[r] \notin NotSent => call'[r] \notin NotSent
  BY <1>0, <1>1, UnixFields DEF NotSent
<1>4. disturbed' \subseteq Requests \cup Events
  BY <1>0, <1>1 DEF UnixTypeOK
<1>5. link' \in Link /\ (link.up)' = <<>> /\ (link.down)' = <<>>
  BY <1>1, Links, Zenon
<1>6. /\ <<>> \in Seq(Requests) /\ Len(<<>>) <= Capacity /\ {} \subseteq Requests
  BY UnixSocketAssumption
<1>7. CASE ~leaves
  <2>1. left' = left /\ server' = server
    BY <1>7, Zenon DEF StopClient
  <2>2. UnixTypeOK'
    BY <1>0, <1>1, <1>2, <1>3, <1>4, <1>5, <1>6, <2>1, Zenon DEF UnixTypeOK, Link
  <2>3. EventsSent'
    BY <1>0, <1>1, <1>5, <2>1, QueueEmpty, Zenon DEF EventsSent
  <2> QED  BY <1>1, <1>3, <1>5, <2>1, <2>2, <2>3, QueuesLeft, Zenon
<1>8. CASE leaves
  <2>1. left' = Append(left, link.up) /\ server' \in {server, "draining"}
    BY <1>8, Zenon DEF StopClient
  <2>2. left \in Seq(Seq(Requests)) /\ link.up \in Seq(Requests)
    BY <1>0, UnixFields, Zenon
  <2> DEFINE n == Len(left) + 1
  <2>3. /\ left' \in Seq(Seq(Requests)) /\ left' # <<>>
        /\ left'[n] = link.up /\ \A i \in DOMAIN left : left'[i] = left[i]
        /\ \A i \in DOMAIN left' : i = n \/ i \in DOMAIN left
    BY <2>1, <2>2
  <2> HIDE DEF n
  <2>4. UnixTypeOK'
    <3>1. server' \in {"down", "accepting", "serving", "draining", "resubscribing"}
      BY <1>0, <2>1, Zenon DEF UnixTypeOK
    <3> QED  BY <1>0, <1>1, <1>2, <1>3, <1>4, <1>5, <1>6, <2>3, <3>1, Zenon DEF UnixTypeOK, Link
  <2>5. EventsSent'
    BY <1>0, <1>1, <1>5, <2>3, QueueEmpty, Zenon DEF EventsSent
  <2>6. OnePlace'
    <3>1. \A i \in DOMAIN left' : IsInjective(left'[i])
      BY <1>0, <2>3, Zenon DEF OnePlace
    <3>2. \A q : Disjoint(q, <<>>) /\ Disjoint(<<>>, q)
      BY QueueEmpty, Zenon DEF Disjoint
    <3>3. ASSUME NEW i \in DOMAIN left', NEW j \in DOMAIN left', i # j
          PROVE  Disjoint(left'[i], left'[j])
      <4>1. CASE i = n
        <5>1. j \in DOMAIN left
          BY <2>3, <3>3, <4>1, Zenon
        <5>2. Disjoint(left[j], link.up)
          BY <1>0, <5>1, Zenon DEF OnePlace
        <5> QED  BY <2>3, <4>1, <5>1, <5>2, Zenon DEF Disjoint
      <4>2. CASE j = n
        <5>1. i \in DOMAIN left
          BY <2>3, <3>3, <4>2, Zenon
        <5>2. Disjoint(left[i], link.up)
          BY <1>0, <5>1, Zenon DEF OnePlace
        <5> QED  BY <2>3, <4>2, <5>1, <5>2, Zenon
      <4>3. CASE i # n /\ j # n
        <5>1. i \in DOMAIN left /\ j \in DOMAIN left
          BY <2>3, <3>3, <4>3, Zenon
        <5>2. Disjoint(left[i], left[j])
          BY <1>0, <3>3, <5>1, Zenon DEF OnePlace
        <5> QED  BY <2>3, <5>1, <5>2, Zenon
      <4> QED  BY <4>1, <4>2, <4>3, Zenon
    <3> QED  BY <1>1, <1>5, <3>1, <3>2, <3>3, QueueEmpty, Zenon DEF OnePlace
  <2>7. \A x \in Requests : UnderWay(x)' => UnderWay(x)
    <3> SUFFICES ASSUME NEW x \in Requests, UnderWay(x)' PROVE UnderWay(x)
      BY Zenon
    <3>1. PICK i \in DOMAIN left' : x \in Range(left'[i])
      BY <1>1, <1>5, QueueEmpty, Zenon DEF UnderWay
    <3>2. x \in Range(link.up) \/ (i \in DOMAIN left /\ x \in Range(left[i]))
      BY <2>3, <3>1, Zenon
    <3> QED  BY <3>2, Zenon DEF UnderWay
  <2>8. GivenOnce'
    BY <1>0, <1>1, <1>3, <2>7, Zenon DEF GivenOnce
  <2> QED  BY <2>4, <2>5, <2>6, <2>8, Zenon DEF UnixIInv
<1> QED  BY <1>7, <1>8, Zenon

\* The invariant of the runtime behind a unix socket, for any requests and
\* events, any capacity of the channels and any number of restarts.
THEOREM UnixInvariance == UnixSpec => []UnixIInv
<1>1. UnixInit => UnixIInv
  <2> SUFFICES ASSUME UnixInit PROVE UnixIInv
    BY Zenon
  <2>1. /\ <<>> \in Seq(Requests) /\ <<>> \in Seq(Seq(Requests)) /\ <<>> \in Seq(Requests \cup Events)
        /\ Len(<<>>) <= Capacity /\ 0 \in 0..MaxTroubles /\ 0 \in Nat
    BY UnixSocketAssumption
  <2>2. \A S : {} \subseteq S
    OBVIOUS
  <2>3. call \in [Requests -> {"new", "inserted", "waiting", "returned", "failed", "gone"}]
    BY Zenon DEF UnixInit
  <2>4. UnixTypeOK
    BY <2>1, <2>2, <2>3, Links, Zenon DEF UnixInit, UnixTypeOK, Link
  <2>5. OnePlace
    BY Links, QueueEmpty, Zenon DEF UnixInit, OnePlace, Disjoint
  <2>6. \A r \in Requests : ~UnderWay(r) /\ handled[r] = 0
    BY Links, QueueEmpty, Zenon DEF UnixInit, UnderWay
  <2>7. GivenOnce
    <3>1. 0 \in {0, 1} /\ 0 # 1
      OBVIOUS
    <3> QED  BY <2>6, <3>1, Zenon DEF GivenOnce
  <2>8. EventsSent
    BY Links, QueueEmpty, Zenon DEF UnixInit, EventsSent
  <2> QED  BY <2>4, <2>5, <2>7, <2>8, Zenon DEF UnixIInv
<1>2. UnixIInv /\ [UnixNext]_unixVars => UnixIInv'
  <2> SUFFICES ASSUME UnixIInv, [UnixNext]_unixVars PROVE UnixIInv'
    BY Zenon
  <2>1. CASE UNCHANGED unixVars
    BY <2>1, Zenon DEF unixVars, clientVars, callVars, serverVars, UnixIInv, UnixTypeOK, OnePlace, GivenOnce,
                       UnderWay, EventsSent
  <2>2. CASE UnixNext
    <3>1. ASSUME NEW r \in Requests, InsertEntry(r) \/ Send(r) \/ Abort(r) \/ Respond(r) PROVE UnixIInv'
      BY <3>1, CallSteps, SentStep, ProgramSteps, Zenon
    <3>2. ASSUME NEW e \in Events, SendEvent(e) PROVE UnixIInv'
      BY <3>2, ProgramSteps, Zenon
    <3>3. CASE WriteRequest \/ ReceiveLine \/ ReadLine \/ WriteLine \/ ReadEnd \/ StopServer \/ StopClient
      BY <3>3, WriteRequestStep, ReceiveLineStep, ReadLinkStep, ReadLeftStep, WriteLineStep, ReadEndStep,
         StopServerStep, StopClientStep, Zenon
    <3> QED  BY <2>2, <3>1, <3>2, <3>3, TaskSteps, Zenon DEF UnixNext
  <2> QED  BY <2>1, <2>2, Zenon
<1> QED  BY <1>1, <1>2, PTL DEF UnixSpec

\* The program behind the socket is given a request at most once, whatever the
\* connections, and never one whose send_request has returned an error.
THEOREM RequestsAtMostOnce == UnixSpec => []AtMostOnce
<1>1. UnixIInv => AtMostOnce
  <2> SUFFICES ASSUME UnixIInv, NEW r \in Requests
               PROVE  handled[r] <= (IF call[r] = "failed" THEN 0 ELSE 1)
    BY Zenon DEF AtMostOnce
  <2>1. handled[r] \in {0, 1} /\ (handled[r] = 1 => call[r] # "failed")
    BY Zenon DEF UnixIInv, GivenOnce, NotSent
  <2> QED  BY <2>1
<1> QED  BY <1>1, UnixInvariance, PTL

=============================================================================
