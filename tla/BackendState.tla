---------------------------- MODULE BackendState ----------------------------
(***************************************************************************)
(* The states of a backend and the transitions between them: the functions *)
(* to_... of BackendState, which the drone's backend manager and executor  *)
(* apply.  Addresses and exit codes are left out; a state is its status    *)
(* with what it says about a termination.                                  *)
(***************************************************************************)
EXTENDS Integers

Absent == "absent"

BackendStatus ==
  {"scheduled", "loading", "starting", "waiting", "ready", "terminating", "hard-terminating",
   "terminated"}

\* The number the database compares.  The derived order of the enum, which
\* the to_... functions compare with, is the same.
as_int == [s \in BackendStatus |->
  CASE s = "scheduled" -> 10
    [] s = "loading" -> 20
    [] s = "starting" -> 30
    [] s = "waiting" -> 40
    [] s = "ready" -> 50
    [] s = "terminating" -> 60
    [] s = "hard-terminating" -> 65
    [] s = "terminated" -> 70]

TerminationKind == {"soft", "hard"}

TerminationReason ==
  {"swept", "external", "keyexpired", "lost", "startuptimeout", "internalerror"}

State ==
  [status : BackendStatus,
   last_status : BackendStatus \cup {Absent},
   termination : TerminationKind \cup {Absent},
   reason : TerminationReason \cup {Absent}]

\* A state that is not about termination.
Plain(status) ==
  [status |-> status, last_status |-> Absent, termination |-> Absent, reason |-> Absent]

to_terminating(st, why) ==
  IF as_int[st.status] >= as_int["terminating"]
    THEN st
    ELSE [status |-> "terminating", last_status |-> st.status, termination |-> "soft", reason |-> why]

\* Mutant: the status before the soft termination is forgotten.
to_hard_terminating_forgetful(st, why) ==
  IF as_int[st.status] >= as_int["hard-terminating"]
    THEN st
    ELSE [status |-> "hard-terminating", last_status |-> st.status, termination |-> "hard",
          reason |-> why]

\* HardTerminating has no termination field; "hard" stands for what
\* to_terminated makes of it.
to_hard_terminating(st, why) ==
  IF as_int[st.status] >= as_int["hard-terminating"]
    THEN st
    ELSE [status |-> "hard-terminating",
          last_status |-> IF st.status = "terminating" THEN st.last_status ELSE st.status,
          termination |-> "hard",
          reason |-> why]

to_terminated(st) ==
  IF st.status \in {"terminating", "hard-terminating", "terminated"}
    THEN [st EXCEPT !.status = "terminated"]
    ELSE [status |-> "terminated", last_status |-> st.status, termination |-> Absent,
          reason |-> Absent]

\* Statuses that come before any termination.
BeforeTermination == {s \in BackendStatus : as_int[s] < as_int["terminating"]}

\* A state says how it came to terminate exactly as far as it did: the status
\* it had before, which is never one of the terminating ones, and kind and
\* reason together.
Coherent(st) ==
  CASE as_int[st.status] < as_int["terminating"] -> st = Plain(st.status)
    [] st.status = "terminating" -> /\ st.last_status \in BeforeTermination
                                    /\ st.termination = "soft" /\ st.reason # Absent
    [] st.status = "hard-terminating" -> /\ st.last_status \in BeforeTermination
                                         /\ st.termination = "hard" /\ st.reason # Absent
    [] st.status = "terminated" -> /\ st.last_status \in BeforeTermination
                                   /\ st.termination # Absent => st.reason # Absent

=============================================================================
