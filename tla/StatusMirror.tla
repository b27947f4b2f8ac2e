---------------------------- MODULE StatusMirror ----------------------------
(***************************************************************************)
(* What the drone's event log and the controller promise together about    *)
(* the status of a backend: the database shows a status the backend really *)
(* had, it only moves forward, and it does not miss the end.               *)
(***************************************************************************)
EXTENDS BackendState

CONSTANT Backends

VARIABLES
  truth,  \* the statuses each backend has been in
  view    \* the status the database shows of it

vars == <<truth, view>>

Init ==
  /\ truth = [b \in Backends |-> {}]
  /\ view = [b \in Backends |-> "scheduled"]

Enter(b, status) ==
  /\ truth' = [truth EXCEPT ![b] = @ \cup {status}]
  /\ UNCHANGED view

Learn(b, status) ==
  /\ status \in truth[b]
  /\ as_int[status] > as_int[view[b]]
  /\ view' = [view EXCEPT ![b] = status]
  /\ UNCHANGED truth

Next == \E b \in Backends, status \in BackendStatus : Enter(b, status) \/ Learn(b, status)

Spec == Init /\ [][Next]_vars

\* The end of a backend becomes known.
EndIsLearnt ==
  \A b \in Backends : "terminated" \in truth[b] ~> view[b] = "terminated"

=============================================================================
