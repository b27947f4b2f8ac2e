------------------------------ MODULE CertLease ------------------------------
(***************************************************************************)
(* How the proxies of one cluster obtain its TLS certificate.  Every proxy *)
(* runs a refresh loop (plane/src/proxy/cert_manager.rs): it asks the      *)
(* controller for the right to publish the cluster's ACME challenge (a     *)
(* lease on the cluster's row of acme_txt_entries, database/acme.rs),      *)
(* publishes one TXT value for each of the two names of the certificate,   *)
(* waits for the ACME server to read it, and hands the certificate to the  *)
(* watcher the TLS listener resolves from.                                 *)
(*                                                                         *)
(* A tick stands for the 15 seconds of the shortest sleep.  A tick that    *)
(* passes while a message or the ACME server could have moved costs one of *)
(* MaxTroubles, as do breaks, crashes, errors and the coming of a renewal: *)
(* everything may be slow or fail, but not for ever.                       *)
(***************************************************************************)
EXTENDS Integers, FiniteSets

CONSTANTS Proxies,      \* the proxies of the cluster
          Ids,          \* tell the challenge values of one proxy apart
          LeaseTime,    \* interval '1 minute' of lease_cluster_dns
          Propagation,  \* the sleep before a challenge is validated
          LockSleep,    \* LOCK_SLEEP_TIME
          FailureSleep, \* FAILURE_SLEEP_TIME
          MaxTroubles

ASSUME CertAssumption ==
    /\ {LeaseTime, Propagation, LockSleep, FailureSleep} \subseteq Nat \ {0}
    /\ MaxTroubles \in Nat

VARIABLES row,       \* the cluster's acme_txt_entries
          process,   \* "up" | "down": the proxy's process
          connected, \* the proxy's socket to a controller
          loop,      \* the refresh loop's task
          request,   \* the request under way on the connection
          reply,     \* the response under way on the connection
          late,      \* requests of lost connections a controller still holds
          cert,      \* the value of the watch channel send_cert
          file,      \* the certificate at cert_path
          watcher,   \* the CertWatcher
          granted,   \* ticks since the lease the loop asked for was given
          troubles

net == <<request, reply, late>>
store == <<cert, file, watcher>>
vars == <<row, process, connected, loop, net, store, granted, troubles>>

NoValue == [proxy |-> "none", id |-> "none"]
Values == [proxy : Proxies, id : Ids] \cup {NoValue}

NoMessage == [kind |-> "none"]
LeaseRequest == [kind |-> "lease"]
SetTxtRecord(v) == [kind |-> "txt", value |-> v]
Requests == {NoMessage, LeaseRequest} \cup {SetTxtRecord(v) : v \in Values}
Replies == {NoMessage} \cup [kind : {"lease", "txt"}, accepted : BOOLEAN]

(* The two names of a certificate: the cluster and its wildcard.           *)
Authorizations == 1..2

Old == LeaseTime + 1
Older(age) == IF age < Old THEN age + 1 ELSE Old

NoRow == [exists |-> FALSE, by |-> "none", age |-> Old, txt |-> NoValue]

(* A task that is not there, at the start of refresh_loop_step, and        *)
(* asleep.                                                                 *)
At(pc) == [pc |-> pc, n |-> 1, timer |-> 0, value |-> NoValue]
Asleep(time) == [At("sleep") EXCEPT !.timer = time]

Waiting == {"lease", "order", "txt", "propagate", "validate", "finalize"}
PCs == Waiting \cup {"off", "step", "rest", "sleep"}

Init ==
    /\ row = NoRow
    /\ process = [p \in Proxies |-> "down"]
    /\ connected = [p \in Proxies |-> FALSE]
    /\ loop = [p \in Proxies |-> At("off")]
    /\ request = [p \in Proxies |-> NoMessage]
    /\ reply = [p \in Proxies |-> NoMessage]
    /\ late = [p \in Proxies |-> {}]
    /\ cert = [p \in Proxies |-> "none"]
    /\ file = [p \in Proxies |-> "none"]
    /\ watcher = [p \in Proxies |-> [key |-> "none", seen |-> TRUE, serving |-> FALSE]]
    /\ granted = [p \in Proxies |-> Old]
    /\ troubles = 0

Trouble ==
    /\ troubles < MaxTroubles
    /\ troubles' = troubles + 1

-----------------------------------------------------------------------------
(* The database: what the statements of AcmeDatabase do to the row, and    *)
(* whether they affected it.                                               *)

(* A lease that never runs out.                                            *)
LeaseForGood(p) == ~row.exists \/ (row.by = p /\ row.age > LeaseTime)

(* A lease that is given although another proxy's still runs.              *)
LeaseAnyway(p) == ~row.exists \/ row.age > LeaseTime \/ row.by # p

LeaseFree(p) == ~row.exists \/ row.age > LeaseTime

lease_cluster_dns(p) ==
    row' = IF LeaseFree(p) THEN [row EXCEPT !.exists = TRUE, !.by = p, !.age = 0]
                           ELSE row

LeasedBy(p) == row.exists /\ row.by = p

set_cluster_dns(p, v) == row' = [row EXCEPT !.txt = IF LeasedBy(p) THEN v ELSE @]

(* What a request does, and the answer it gets.                            *)
Perform(p, m) ==
    \/ m.kind = "lease" /\ lease_cluster_dns(p)
    \/ m.kind = "txt" /\ set_cluster_dns(p, m.value)

Accepted(p, m) == IF m.kind = "lease" THEN LeaseFree(p) ELSE LeasedBy(p)

-----------------------------------------------------------------------------
(* The controller.                                                         *)

Answer(p, accepted) ==
    /\ request' = [request EXCEPT ![p] = NoMessage]
    /\ reply' = [reply EXCEPT ![p] = [kind |-> request[p].kind, accepted |-> accepted]]

handle_message_from_proxy(p) ==
    /\ request[p] # NoMessage
    /\ Perform(p, request[p])
    /\ Answer(p, Accepted(p, request[p]))
    /\ granted' = [granted EXCEPT ![p] =
                      IF request[p].kind = "lease" /\ LeaseFree(p) THEN 0 ELSE @]
    /\ UNCHANGED <<process, connected, loop, late, store, troubles>>

(* The database fails: the proxy is told that it was refused.              *)
HandleFails(p) ==
    /\ request[p] # NoMessage
    /\ Trouble
    /\ Answer(p, FALSE)
    /\ UNCHANGED <<row, process, connected, loop, late, store, granted>>

(* A request that the controller had received before its connection was    *)
(* lost is carried out; the response goes nowhere.                         *)
HandleLate(p, m) ==
    /\ m \in late[p]
    /\ late' = [late EXCEPT ![p] = @ \ {m}]
    /\ Perform(p, m)
    /\ UNCHANGED <<process, connected, loop, request, reply, store, granted, troubles>>

-----------------------------------------------------------------------------
(* The connection of a proxy.                                              *)

(* What was under way is lost, except a request the controller has got.    *)
Lose(p) ==
    /\ connected' = [connected EXCEPT ![p] = FALSE]
    /\ request' = [request EXCEPT ![p] = NoMessage]
    /\ reply' = [reply EXCEPT ![p] = NoMessage]
    /\ \/ UNCHANGED late
       \/ /\ request[p] # NoMessage
          /\ late' = [late EXCEPT ![p] = @ \cup {request[p]}]

(* The connection ends, by an error or by the periodic reconnect.  The     *)
(* refresh loop goes on with a sender whose messages go nowhere.           *)
Break(p) ==
    /\ connected[p]
    /\ Trouble
    /\ Lose(p)
    /\ UNCHANGED <<row, process, loop, store, granted>>

(* A new loop that reads the response to its predecessor's request.        *)
KeepRequest(p) ==
    /\ process[p] = "up" /\ ~connected[p]
    /\ connected' = [connected EXCEPT ![p] = TRUE]
    /\ loop' = [loop EXCEPT ![p] = At("step")]
    /\ \E m \in late[p] \cup {NoMessage} :
          /\ request' = [request EXCEPT ![p] = m]
          /\ late' = [late EXCEPT ![p] = @ \ {m}]
    /\ UNCHANGED <<row, process, reply, store, granted, troubles>>

(* The proxy is connected again: the old loop is aborted, and a new one    *)
(* starts, subscribed to the responses from here on.                       *)
set_request_sender(p) ==
    /\ process[p] = "up" /\ ~connected[p]
    /\ connected' = [connected EXCEPT ![p] = TRUE]
    /\ loop' = [loop EXCEPT ![p] = At("step")]
    /\ UNCHANGED <<row, process, net, store, granted, troubles>>

-----------------------------------------------------------------------------
(* refresh_loop_step.                                                      *)

(* request_sender: a message sent on a lost connection goes nowhere.       *)
Send(p, m) == request' = [request EXCEPT ![p] = IF connected[p] THEN m ELSE @]

Goto(p, l) == loop' = [loop EXCEPT ![p] = l]

(* The certificate is not due for renewal: sleep until it is.              *)
Rest(p) ==
    /\ loop[p].pc = "step" /\ cert[p] = "fresh"
    /\ Goto(p, At("rest"))
    /\ UNCHANGED <<row, process, connected, net, store, granted, troubles>>

(* Without a certificate, or with one that is due, ask for the lease.      *)
RequestLease(p) ==
    /\ loop[p].pc = "step" /\ cert[p] # "fresh"
    /\ Goto(p, At("lease"))
    /\ Send(p, LeaseRequest)
    /\ UNCHANGED <<row, process, connected, reply, late, store, granted, troubles>>

ReceiveLease(p) ==
    /\ loop[p].pc = "lease" /\ reply[p] # NoMessage
    /\ reply' = [reply EXCEPT ![p] = NoMessage]
    /\ Goto(p, CASE reply[p].kind # "lease" -> At("step")
                 [] reply[p].accepted -> At("order")
                 [] OTHER -> Asleep(LockSleep))
    /\ UNCHANGED <<row, process, connected, request, late, store, granted, troubles>>

(* The sleep after a refusal or a failure is over.                         *)
Wake(p) ==
    /\ loop[p].pc = "sleep" /\ loop[p].timer = 0
    /\ Goto(p, At("step"))
    /\ UNCHANGED <<row, process, connected, net, store, granted, troubles>>

-----------------------------------------------------------------------------
(* get_certificate.                                                        *)

(* The values the ACME server gives are new: none that this proxy has      *)
(* published, or has a request for under way, is given again.              *)
FreshValues(p) ==
    {v \in [proxy : {p}, id : Ids] :
        v # row.txt /\ \A m \in late[p] : m.kind = "txt" => m.value # v}

(* The order, or the one name's authorization before, is done: publish the *)
(* value for the next name.                                                *)
Publish(p, n) ==
    LET v == CHOOSE v \in FreshValues(p) : TRUE
    IN  /\ FreshValues(p) # {}
        /\ Goto(p, [At("txt") EXCEPT !.n = n, !.value = v])
        /\ Send(p, SetTxtRecord(v))

BuildOrder(p) ==
    /\ loop[p].pc = "order"
    /\ Publish(p, 1)
    /\ UNCHANGED <<row, process, connected, reply, late, store, granted, troubles>>

ReceiveTxt(p) ==
    /\ loop[p].pc = "txt" /\ reply[p] # NoMessage
    /\ reply' = [reply EXCEPT ![p] = NoMessage]
    /\ Goto(p, IF reply[p].kind = "txt" /\ reply[p].accepted
               THEN [loop[p] EXCEPT !.pc = "propagate", !.timer = Propagation]
               ELSE Asleep(FailureSleep))
    /\ UNCHANGED <<row, process, connected, request, late, store, granted, troubles>>

Validate(p) ==
    /\ loop[p].pc = "propagate" /\ loop[p].timer = 0
    /\ Goto(p, [loop[p] EXCEPT !.pc = "validate"])
    /\ UNCHANGED <<row, process, connected, net, store, granted, troubles>>

(* The ACME server has read the TXT record (through the DNS server, which  *)
(* reads the row) and found the value of this challenge.                   *)
Authorized(p) ==
    /\ loop[p].pc = "validate"
    /\ row.txt = loop[p].value
    /\ IF loop[p].n < 2 THEN Publish(p, loop[p].n + 1)
                        ELSE Goto(p, At("finalize")) /\ UNCHANGED request
    /\ UNCHANGED <<row, process, connected, reply, late, store, granted, troubles>>

(* It found another value.                                                 *)
NotAuthorized(p) ==
    /\ loop[p].pc = "validate"
    /\ row.txt # loop[p].value
    /\ Goto(p, Asleep(FailureSleep))
    /\ UNCHANGED <<row, process, connected, net, store, granted, troubles>>

(* The ACME server cannot be reached, refuses, or takes too long.          *)
OrderFails(p) ==
    /\ loop[p].pc \in {"order", "validate", "finalize"}
    /\ Trouble
    /\ Goto(p, Asleep(FailureSleep))
    /\ UNCHANGED <<row, process, connected, net, store, granted>>

(* A CertWatcher whose receiver's value has been replaced.                 *)
Replaced(w) == [w EXCEPT !.key = IF @ = "none" THEN @ ELSE "old", !.seen = FALSE]

SendCert(p) ==
    /\ cert' = [cert EXCEPT ![p] = "fresh"]
    /\ watcher' = [watcher EXCEPT ![p] = Replaced(@)]

(* The certificate is sent to the watcher and saved, if that succeeds.     *)
Obtain(p) ==
    /\ loop[p].pc = "finalize"
    /\ SendCert(p)
    /\ Goto(p, At("step"))
    /\ \/ file' = [file EXCEPT ![p] = "fresh"] /\ UNCHANGED troubles
       \/ Trouble /\ UNCHANGED file
    /\ UNCHANGED <<row, process, connected, net, granted>>

-----------------------------------------------------------------------------
(* CertWatcher.                                                            *)

(* What update_certified_key makes of the key.                             *)
CertifiedKey(p) == IF cert[p] = "none" THEN "none" ELSE "current"

wait_for_initial_cert(p) ==
    /\ process[p] = "up" /\ ~watcher[p].serving
    /\ ~watcher[p].seen
    /\ watcher' = [watcher EXCEPT ![p] = [key |-> CertifiedKey(p), seen |-> TRUE,
                                          serving |-> CertifiedKey(p) # "none"]]
    /\ UNCHANGED <<row, process, connected, loop, net, cert, file, granted, troubles>>

(* A TLS handshake: a change of the channel is applied, and stays unseen.  *)
resolve(p) ==
    /\ watcher[p].serving /\ ~watcher[p].seen
    /\ watcher' = [watcher EXCEPT ![p].key = CertifiedKey(p)]
    /\ UNCHANGED <<row, process, connected, loop, net, cert, file, granted, troubles>>

-----------------------------------------------------------------------------
(* The process, and time.                                                  *)

(* CertManager::new: a readable file is sent to the watcher.               *)
Start(p) ==
    /\ process[p] = "down"
    /\ process' = [process EXCEPT ![p] = "up"]
    /\ LET loaded == IF file[p] \in {"fresh", "due"} THEN file[p] ELSE "none"
       IN  /\ cert' = [cert EXCEPT ![p] = loaded]
           /\ watcher' = [watcher EXCEPT ![p] = [key |-> "none", seen |-> loaded = "none",
                                                 serving |-> FALSE]]
    /\ UNCHANGED <<row, connected, loop, net, file, granted, troubles>>

(* The process ends, perhaps between the creation of the certificate's     *)
(* file and the writing of it.                                             *)
Crash(p) ==
    /\ process[p] = "up"
    /\ Trouble
    /\ process' = [process EXCEPT ![p] = "down"]
    /\ Goto(p, At("off"))
    /\ Lose(p)
    /\ cert' = [cert EXCEPT ![p] = "none"]
    /\ watcher' = [watcher EXCEPT ![p] = [key |-> "none", seen |-> TRUE, serving |-> FALSE]]
    /\ \/ UNCHANGED file
       \/ loop[p].pc = "finalize" /\ file' = [file EXCEPT ![p] = "bad"]
    /\ UNCHANGED <<row, granted>>

(* The certificate comes within RENEWAL_WINDOW of its end, and the loop's  *)
(* sleep is over.                                                          *)
RenewalDue(p) ==
    /\ cert[p] = "fresh"
    /\ Trouble
    /\ cert' = [cert EXCEPT ![p] = "due"]
    /\ file' = [file EXCEPT ![p] = IF @ = "fresh" THEN "due" ELSE @]
    /\ loop' = [loop EXCEPT ![p] = IF @.pc = "rest" THEN At("step") ELSE @]
    /\ UNCHANGED <<row, process, connected, net, watcher, granted>>

(* The loop's task is ready to run, which does not take a tick.            *)
Ready(p) ==
    \/ loop[p].pc = "step"
    \/ loop[p].pc \in {"sleep", "propagate"} /\ loop[p].timer = 0

(* What moves within a tick, unless the network, a controller or the ACME  *)
(* server is slow.                                                         *)
Urgent(p) ==
    \/ request[p] # NoMessage \/ reply[p] # NoMessage \/ late[p] # {}
    \/ loop[p].pc \in {"order", "validate", "finalize"}
    \/ process[p] = "up" /\ ~connected[p]

Less(n) == IF n > 0 THEN n - 1 ELSE 0

Tick ==
    /\ \A p \in Proxies : ~Ready(p)
    /\ IF \E p \in Proxies : Urgent(p) THEN Trouble ELSE UNCHANGED troubles
    /\ row' = [row EXCEPT !.age = Older(@)]
    /\ granted' = [p \in Proxies |-> Older(granted[p])]
    /\ loop' = [p \in Proxies |-> [loop[p] EXCEPT !.timer = Less(@)]]
    /\ UNCHANGED <<process, connected, net, store>>

Step(p) ==
    \/ handle_message_from_proxy(p)
    \/ \E m \in late[p] : HandleLate(p, m)
    \/ set_request_sender(p)
    \/ Rest(p) \/ RequestLease(p) \/ ReceiveLease(p) \/ Wake(p)
    \/ BuildOrder(p) \/ ReceiveTxt(p) \/ Validate(p)
    \/ Authorized(p) \/ NotAuthorized(p) \/ Obtain(p)
    \/ wait_for_initial_cert(p)

Next ==
    \/ \E p \in Proxies : \/ Step(p) \/ resolve(p) \/ Start(p)
                          \/ HandleFails(p) \/ OrderFails(p)
                          \/ Break(p) \/ Crash(p) \/ RenewalDue(p)
    \/ Tick

Spec == Init /\ [][Next]_vars

(* Tasks run, messages arrive, the ACME server answers, connections are    *)
(* made again, and time passes.                                            *)
FairSpec == Spec /\ (\A p \in Proxies : WF_vars(Step(p))) /\ WF_vars(Tick)

-----------------------------------------------------------------------------
RowState == [exists : BOOLEAN, by : Proxies \cup {"none"}, age : 0..Old, txt : Values]

LoopState ==
    [pc : PCs, n : Authorizations, timer : 0..(LockSleep + FailureSleep + Propagation),
     value : Values]

WatcherState == [key : {"none", "old", "current"}, seen : BOOLEAN, serving : BOOLEAN]

TypeOK ==
    /\ row \in RowState
    /\ process \in [Proxies -> {"up", "down"}]
    /\ connected \in [Proxies -> BOOLEAN]
    /\ loop \in [Proxies -> LoopState]
    /\ request \in [Proxies -> Requests]
    /\ reply \in [Proxies -> Replies]
    /\ late \in [Proxies -> SUBSET (Requests \ {NoMessage})]
    /\ cert \in [Proxies -> {"none", "fresh", "due"}]
    /\ file \in [Proxies -> {"none", "fresh", "due", "bad"}]
    /\ watcher \in [Proxies -> WatcherState]
    /\ granted \in [Proxies -> 0..Old]
    /\ troubles \in 0..MaxTroubles

(* A response that reaches a proxy is the one its refresh loop waits for:  *)
(* the "Unexpected response from cert manager" branches (cert_manager.rs   *)
(* 318-321 and 424-427) are never taken, although a reconnect aborts the   *)
(* loop between its request and the response.                              *)
ResponsesMatch ==
    \A p \in Proxies : reply[p] # NoMessage => loop[p].pc = reply[p].kind

(* While the lease a proxy runs its challenge under is younger than the    *)
(* minute that lease_cluster_dns gives it, the challenge value the proxy   *)
(* was told is published has not been replaced by another proxy's.         *)
Undisturbed ==
    \A p \in Proxies :
        loop[p].pc \in {"propagate", "validate"} /\ granted[p] <= LeaseTime
        => row.txt.proxy = p

(* Every proxy that stays up gets a certificate, and renews it: a lost     *)
(* response, a lease left behind by an aborted loop, a challenge value     *)
(* overwritten by another proxy or a damaged file only delay it.           *)
Certified ==
    \A p \in Proxies : <>[](process[p] = "up" => cert[p] = "fresh" /\ watcher[p].serving)

=============================================================================
