--------------------------- MODULE CertLeaseProof ---------------------------
(***************************************************************************)
(* The two halves of an ACME challenge.  For any proxies, lease time,      *)
(* sleeps and number of faults: a response that reaches a proxy is the one *)
(* its refresh loop waits for, and within the minute of its lease a        *)
(* proxy's published challenge value is not replaced by another proxy's.   *)
(* For any queries, clusters, capacity of the queues and number of         *)
(* mishaps: no query of the DNS server waits where no response will reach  *)
(* it, and none gets a value older than the one it may expect.             *)
(***************************************************************************)
EXTENDS CertLease, DnsLookup, TLAPS

-----------------------------------------------------------------------------
(* Types *)

\* The states that refresh_loop_step and get_certificate give their task.
LEMMA LoopStates ==
  /\ \A pc \in PCs : At(pc) \in LoopState /\ At(pc).pc = pc
  /\ \A t \in {LockSleep, FailureSleep} : Asleep(t) \in LoopState /\ Asleep(t).pc = "sleep"
  /\ \A l \in LoopState :
       /\ [l EXCEPT !.pc = "propagate", !.timer = Propagation] \in LoopState
       /\ [l EXCEPT !.pc = "validate"] \in LoopState
       /\ [l EXCEPT !.timer = Less(@)] \in LoopState
  /\ \A n \in Authorizations, v \in Values :
       /\ [At("txt") EXCEPT !.n = n, !.value = v] \in LoopState
       /\ [At("txt") EXCEPT !.n = n, !.value = v].pc = "txt"
<1> USE CertAssumption
<1>1. NoValue \in Values
  BY Zenon DEF Values
<1>2. \A pc \in PCs : At(pc) \in LoopState /\ At(pc).pc = pc
  BY <1>1 DEF At, LoopState, Authorizations
<1>3. \A t \in {LockSleep, FailureSleep} : Asleep(t) \in LoopState /\ Asleep(t).pc = "sleep"
  BY <1>1 DEF At, Asleep, LoopState, Authorizations, PCs
<1>4. ASSUME NEW l \in LoopState
      PROVE  /\ [l EXCEPT !.pc = "propagate", !.timer = Propagation] \in LoopState
             /\ [l EXCEPT !.pc = "validate"] \in LoopState
             /\ [l EXCEPT !.timer = Less(@)] \in LoopState
  <2> DEFINE T == 0..(LockSleep + FailureSleep + Propagation)
  <2>1. Propagation \in T /\ \A t \in T : Less(t) \in T
    BY DEF Less
  <2>2. {"propagate", "validate"} \subseteq PCs
    BY Zenon DEF PCs, Waiting
  <2> HIDE DEF T
  <2>3. l \in [pc : PCs, n : Authorizations, timer : T, value : Values]
    BY Zenon DEF T, LoopState
  <2>4. LoopState = [pc : PCs, n : Authorizations, timer : T, value : Values]
    BY Zenon DEF T, LoopState
  <2> QED
    BY <2>1, <2>2, <2>3, <2>4, Zenon
<1>5. ASSUME NEW n \in Authorizations, NEW v \in Values
      PROVE  /\ [At("txt") EXCEPT !.n = n, !.value = v] \in LoopState
             /\ [At("txt") EXCEPT !.n = n, !.value = v].pc = "txt"
  <2> DEFINE l == At("txt")
  <2>1. l \in LoopState /\ l.pc = "txt"
    BY <1>2, Zenon DEF PCs, Waiting
  <2> HIDE DEF l
  <2>2. [l EXCEPT !.n = n, !.value = v] \in LoopState /\ [l EXCEPT !.n = n, !.value = v].pc = "txt"
    BY <2>1, Zenon DEF LoopState
  <2> QED
    BY <2>2, Zenon DEF l
<1> QED
  BY <1>2, <1>3, <1>4, <1>5, Zenon

\* A challenge value is a new one of the proxy that publishes it.
LEMMA FreshValueType ==
  ASSUME NEW p \in Proxies, FreshValues(p) # {}
  PROVE  LET v == CHOOSE v \in FreshValues(p) : TRUE
         IN  v \in Values /\ v.proxy = p
<1> DEFINE v == CHOOSE v \in FreshValues(p) : TRUE
<1>1. v \in [proxy : {p}, id : Ids]
  BY Zenon DEF FreshValues
<1> QED
  BY <1>1, Zenon DEF Values

\* What the statements of AcmeDatabase make of the row is a row.
LEMMA RowType ==
  ASSUME row \in RowState, NEW p \in Proxies
  PROVE  /\ lease_cluster_dns(p) => row' \in RowState
         /\ \A v \in Values : set_cluster_dns(p, v) => row' \in RowState
         /\ row' = [row EXCEPT !.age = Older(@)] => row' \in RowState
<1>1. 0 \in 0..Old /\ \A a \in 0..Old : Older(a) \in 0..Old
  BY CertAssumption DEF Old, Older
<1>2. lease_cluster_dns(p) => row' \in RowState
  BY <1>1, ZenonT(60) DEF lease_cluster_dns, RowState
<1>3. ASSUME NEW v \in Values, set_cluster_dns(p, v) PROVE row' \in RowState
  BY <1>3, Zenon DEF set_cluster_dns, RowState
<1>4. row' = [row EXCEPT !.age = Older(@)] => row' \in RowState
  BY <1>1, Zenon DEF RowState
<1> QED
  BY <1>2, <1>3, <1>4, Zenon

\* Requests and responses by kind.
LEMMA MessageTypes ==
  /\ NoMessage \in Requests /\ NoMessage \in Replies
  /\ LeaseRequest \in Requests \ {NoMessage} /\ LeaseRequest.kind = "lease"
  /\ \A v \in Values : /\ SetTxtRecord(v) \in Requests \ {NoMessage}
                       /\ SetTxtRecord(v).kind = "txt" /\ SetTxtRecord(v).value = v
  /\ \A m \in Requests \ {NoMessage} :
       /\ m.kind \in {"lease", "txt"}
       /\ m.kind = "txt" => m.value \in Values
  /\ \A m \in Replies \ {NoMessage} : m.kind \in {"lease", "txt"}
  /\ \A k \in {"lease", "txt"}, a \in BOOLEAN :
       LET r == [kind |-> k, accepted |-> a]
       IN  r \in Replies /\ r # NoMessage /\ r.kind = k /\ r.accepted = a
<1> DEFINE R == {SetTxtRecord(v) : v \in Values}
<1>1. \A v \in Values : /\ SetTxtRecord(v) \in R /\ SetTxtRecord(v) # NoMessage
                         /\ SetTxtRecord(v).kind = "txt" /\ SetTxtRecord(v).value = v
  BY Zenon DEF SetTxtRecord, NoMessage
<1>2. LeaseRequest # NoMessage /\ LeaseRequest.kind = "lease"
  BY Zenon DEF LeaseRequest, NoMessage
<1>3. Requests = {NoMessage, LeaseRequest} \cup R
  BY Zenon DEF Requests
<1>4. \A k \in {"lease", "txt"}, a \in BOOLEAN :
       LET r == [kind |-> k, accepted |-> a]
       IN  r \in Replies /\ r # NoMessage /\ r.kind = k /\ r.accepted = a
  BY Zenon DEF Replies, NoMessage
<1>5. \A m \in Replies \ {NoMessage} : m.kind \in {"lease", "txt"}
  BY Zenon DEF Replies
<1>6. NoMessage \in Replies
  BY Zenon DEF Replies
<1>7. \A m \in R : m.kind = "txt" /\ m.value \in Values
  BY <1>1
<1> HIDE DEF R
<1> QED
  BY <1>1, <1>2, <1>3, <1>4, <1>5, <1>6, <1>7, Zenon

\* What the watcher's methods make of a CertWatcher is one.
LEMMA WatcherType ==
  /\ \A k \in {"none", "old", "current"}, s, g \in BOOLEAN :
       [key |-> k, seen |-> s, serving |-> g] \in WatcherState
  /\ \A w \in WatcherState : Replaced(w) \in WatcherState
  /\ \A w \in WatcherState, k \in {"none", "current"} : [w EXCEPT !.key = k] \in WatcherState
BY Zenon DEF WatcherState, Replaced

\* Every step keeps the types.
LEMMA TypeStep == TypeOK /\ [Next]_vars => TypeOK'
<1> SUFFICES ASSUME TypeOK, [Next]_vars PROVE TypeOK'
  BY Zenon
<1> USE DEF TypeOK, net, store
<1>t. ASSUME Trouble PROVE troubles' \in 0..MaxTroubles
  BY <1>t, CertAssumption DEF Trouble
<1>g. 0 \in 0..Old /\ \A a \in 0..Old : Older(a) \in 0..Old
  BY CertAssumption DEF Old, Older
<1>l. \A pc \in PCs : At(pc) \in LoopState
  BY LoopStates, Zenon
<1>m. {NoMessage, LeaseRequest} \subseteq Requests /\ NoMessage \in Replies
  BY MessageTypes
<1>p. {"off", "step", "rest", "lease", "order", "txt", "finalize"} \subseteq PCs
  BY Zenon DEF PCs, Waiting
<1>s. Asleep(LockSleep) \in LoopState /\ Asleep(FailureSleep) \in LoopState
  BY LoopStates, Zenon
<1>q. ASSUME NEW p \in Proxies, NEW m \in Requests \ {NoMessage}, Perform(p, m) PROVE row' \in RowState
  BY <1>q, RowType, MessageTypes, Zenon DEF Perform
<1>a. ASSUME NEW p \in Proxies, NEW a \in BOOLEAN, request[p] # NoMessage, Answer(p, a)
      PROVE  request' \in [Proxies -> Requests] /\ reply' \in [Proxies -> Replies]
  BY <1>a, <1>m, MessageTypes, Zenon DEF Answer
<1>o. ASSUME NEW p \in Proxies, Lose(p)
      PROVE  /\ connected' \in [Proxies -> BOOLEAN]
             /\ request' \in [Proxies -> Requests] /\ reply' \in [Proxies -> Replies]
             /\ late' \in [Proxies -> SUBSET (Requests \ {NoMessage})]
  BY <1>o, <1>m, SMTT(20) DEF Lose
<1>u. ASSUME NEW p \in Proxies, NEW n \in Authorizations, Publish(p, n)
      PROVE  request' \in [Proxies -> Requests] /\ loop' \in [Proxies -> LoopState]
  BY <1>u, FreshValueType, LoopStates, MessageTypes, Zenon DEF Publish, Goto, Send
<1>1. ASSUME NEW p \in Proxies, handle_message_from_proxy(p) PROVE TypeOK'
  <2>1. Accepted(p, request[p]) \in BOOLEAN
    BY Zenon DEF Accepted, LeaseFree, LeasedBy, RowState
  <2> QED
    BY <1>1, <1>q, <1>a, <1>g, <2>1, Zenon DEF handle_message_from_proxy
<1>2. ASSUME NEW p \in Proxies, NEW m \in late[p], HandleLate(p, m) PROVE TypeOK'
  BY <1>2, <1>q, Zenon DEF HandleLate
<1>3. ASSUME NEW p \in Proxies,
             \/ set_request_sender(p) \/ Rest(p) \/ RequestLease(p) \/ ReceiveLease(p) \/ Wake(p)
      PROVE  TypeOK'
  <2>1. CASE set_request_sender(p)
    BY <2>1, <1>l, <1>p, Zenon DEF set_request_sender
  <2>2. CASE Rest(p)
    BY <2>2, <1>l, <1>p, Zenon DEF Rest, Goto
  <2>3. CASE RequestLease(p)
    BY <2>3, <1>l, <1>p, <1>m, Zenon DEF RequestLease, Goto, Send
  <2>4. CASE ReceiveLease(p)
    BY <2>4, <1>l, <1>p, <1>m, <1>s, Zenon DEF ReceiveLease, Goto
  <2>5. CASE Wake(p)
    BY <2>5, <1>l, <1>p, Zenon DEF Wake, Goto
  <2> QED
    BY <1>3, <2>1, <2>2, <2>3, <2>4, <2>5, Zenon
<1>4. ASSUME NEW p \in Proxies, BuildOrder(p) \/ ReceiveTxt(p) \/ Validate(p) PROVE TypeOK'
  <2>1. CASE BuildOrder(p)
    BY <2>1, <1>u DEF BuildOrder, Authorizations
  <2>2. CASE ReceiveTxt(p)
    BY <2>2, <1>m, <1>s, LoopStates, ZenonT(60) DEF ReceiveTxt, Goto
  <2>3. CASE Validate(p)
    BY <2>3, LoopStates, Zenon DEF Validate, Goto
  <2> QED
    BY <1>4, <2>1, <2>2, <2>3, Zenon
<1>5. ASSUME NEW p \in Proxies, Authorized(p) PROVE TypeOK'
  <2>1. loop[p].n < 2 => loop[p].n + 1 \in Authorizations
    BY DEF LoopState, Authorizations
  <2> QED
    BY <1>5, <1>u, <1>l, <1>p, <2>1, Zenon DEF Authorized, Goto
<1>6. ASSUME NEW p \in Proxies, NotAuthorized(p) \/ OrderFails(p) \/ HandleFails(p) PROVE TypeOK'
  <2>1. CASE NotAuthorized(p)
    BY <2>1, <1>s, Zenon DEF NotAuthorized, Goto
  <2>2. CASE OrderFails(p)
    BY <2>2, <1>t, <1>s, Zenon DEF OrderFails, Goto
  <2>3. CASE HandleFails(p)
    BY <2>3, <1>t, <1>a, Zenon DEF HandleFails
  <2> QED
    BY <1>6, <2>1, <2>2, <2>3
<1>7. ASSUME NEW p \in Proxies, Obtain(p) PROVE TypeOK'
  BY <1>7, <1>t, <1>l, <1>p, WatcherType, Zenon DEF Obtain, SendCert, Goto
<1>8. ASSUME NEW p \in Proxies, wait_for_initial_cert(p) \/ resolve(p) PROVE TypeOK'
  <2>1. CertifiedKey(p) \in {"none", "current"} /\ (CertifiedKey(p) # "none") \in BOOLEAN
    BY Zenon DEF CertifiedKey
  <2>2. CASE wait_for_initial_cert(p)
    <3>1. PICK w \in WatcherState : watcher' = [watcher EXCEPT ![p] = w]
      BY <2>1, <2>2, WatcherType, Zenon DEF wait_for_initial_cert
    <3>2. UNCHANGED <<row, process, connected, loop, request, reply, late, cert, file, granted, troubles>>
      BY <2>2, Zenon DEF wait_for_initial_cert
    <3> QED
      BY <3>1, <3>2, Zenon
  <2>3. CASE resolve(p)
    BY <2>1, <2>3, WatcherType, Zenon DEF resolve
  <2> QED
    BY <1>8, <2>2, <2>3, Zenon
<1>9. ASSUME NEW p \in Proxies, Start(p) PROVE TypeOK'
  <2> DEFINE loaded == IF file[p] \in {"fresh", "due"} THEN file[p] ELSE "none"
             w == [key |-> "none", seen |-> loaded = "none", serving |-> FALSE]
  <2>1. loaded \in {"none", "fresh", "due"} /\ w \in WatcherState
    BY WatcherType, Zenon
  <2>2. cert' = [cert EXCEPT ![p] = loaded] /\ watcher' = [watcher EXCEPT ![p] = w]
    BY <1>9, Zenon DEF Start
  <2> HIDE DEF loaded, w
  <2>3. cert' \in [Proxies -> {"none", "fresh", "due"}] /\ watcher' \in [Proxies -> WatcherState]
    BY <2>1, <2>2, Zenon
  <2>4. process' \in [Proxies -> {"up", "down"}]
    BY <1>9, Zenon DEF Start
  <2>5. UNCHANGED <<row, connected, loop, request, reply, late, file, granted, troubles>>
    BY <1>9, Zenon DEF Start
  <2> QED
    BY <2>3, <2>4, <2>5, Zenon
<1>10. ASSUME NEW p \in Proxies, Break(p) \/ Crash(p) PROVE TypeOK'
  <2>1. CASE Break(p)
    BY <2>1, <1>t, <1>o, Zenon DEF Break
  <2>2. CASE Crash(p)
    <3>1. watcher' \in [Proxies -> WatcherState]
      BY <2>2, WatcherType, Zenon DEF Crash
    <3>2. loop' \in [Proxies -> LoopState]
      BY <2>2, <1>l, <1>p, Zenon DEF Crash, Goto
    <3>3. file' \in [Proxies -> {"none", "fresh", "due", "bad"}]
      BY <2>2, Zenon DEF Crash
    <3> QED
      BY <2>2, <1>t, <1>o, <3>1, <3>2, <3>3, Zenon DEF Crash
  <2> QED
    BY <1>10, <2>1, <2>2
<1>11. ASSUME NEW p \in Proxies, RenewalDue(p) PROVE TypeOK'
  BY <1>11, <1>t, <1>l, <1>p, Zenon DEF RenewalDue
<1>12. CASE Tick
  <2>1. row' \in RowState
    BY <1>12, <1>g, SMTT(20) DEF Tick, RowState
  <2>2. loop' \in [Proxies -> LoopState]
    BY <1>12, LoopStates, Zenon DEF Tick
  <2> QED
    BY <1>12, <1>t, <1>g, <2>1, <2>2, Zenon DEF Tick
<1>13. CASE UNCHANGED vars
  BY <1>13, Zenon DEF vars
<1> QED
  BY <1>1, <1>2, <1>3, <1>4, <1>5, <1>6, <1>7, <1>8, <1>9, <1>10, <1>11, <1>12, <1>13, Zenon
     DEF Next, Step

-----------------------------------------------------------------------------
(* The inductive invariant *)

\* A request or a response under way is for the state the loop is in, and
\* there is at most one of them, on a connection that is up.
OneExchange(p) ==
  /\ request[p] # NoMessage => connected[p] /\ loop[p].pc = request[p].kind /\ reply[p] = NoMessage
  /\ reply[p] # NoMessage => connected[p] /\ loop[p].pc = reply[p].kind

\* A proxy publishes its own values only, late ones included.
OwnValues(p) ==
  /\ request[p].kind = "txt" => request[p].value.proxy = p
  /\ \A m \in late[p] : m.kind = "txt" => m.value.proxy = p

\* The lease a proxy was given is the row's as long as it lasts.
LeaseHeld(p) ==
  granted[p] <= LeaseTime => row.exists /\ row.by = p /\ row.age = granted[p]

\* The proxy's value is published: its loop has been told so, or will be.
Told(p) ==
  \/ loop[p].pc \in {"propagate", "validate"}
  \/ reply[p].kind = "txt" /\ reply[p].accepted

ValueKept(p) == Told(p) /\ granted[p] <= LeaseTime => row.txt.proxy = p

IInv ==
  /\ TypeOK
  /\ \A p \in Proxies : OneExchange(p) /\ OwnValues(p) /\ LeaseHeld(p) /\ ValueKept(p)

\* What p sends, receives and does is nothing to the other proxies, except for
\* what it does to the row.
LEMMA LocalStep ==
  ASSUME IInv, TypeOK', NEW p \in Proxies,
         \A q \in Proxies \ {p} : /\ request'[q] = request[q] /\ reply'[q] = reply[q]
                                 /\ late'[q] = late[q] /\ loop'[q] = loop[q]
                                 /\ connected'[q] = connected[q] /\ granted'[q] = granted[q],
         \A q \in Proxies : LeaseHeld(q)',
         \A q \in Proxies \ {p} : granted[q] <= LeaseTime => row'.txt = row.txt,
         OneExchange(p)', OwnValues(p)', ValueKept(p)'
  PROVE  IInv'
<1> SUFFICES ASSUME NEW q \in Proxies \ {p}
             PROVE  OneExchange(q)' /\ OwnValues(q)' /\ ValueKept(q)'
  BY Zenon DEF IInv
<1>1. OneExchange(q) /\ OwnValues(q) /\ ValueKept(q)
  BY Zenon DEF IInv
<1>2. OneExchange(q)' /\ OwnValues(q)'
  BY <1>1, Zenon DEF OneExchange, OwnValues
<1>3. ValueKept(q)'
  BY <1>1, Zenon DEF ValueKept, Told
<1> QED
  BY <1>2, <1>3, Zenon

\* A step of p that leaves the row and the leases alone.
LEMMA QuietStep ==
  ASSUME IInv, TypeOK', NEW p \in Proxies,
         \A q \in Proxies \ {p} : /\ request'[q] = request[q] /\ reply'[q] = reply[q]
                                 /\ late'[q] = late[q] /\ loop'[q] = loop[q]
                                 /\ connected'[q] = connected[q],
         UNCHANGED <<row, granted>>,
         OneExchange(p)', OwnValues(p)', Told(p)' => Told(p)
  PROVE  IInv'
<1>1. \A q \in Proxies : LeaseHeld(q)'
  BY Zenon DEF IInv, LeaseHeld
<1>2. ValueKept(p)'
  BY Zenon DEF IInv, ValueKept
<1> QED
  BY <1>1, <1>2, LocalStep, Zenon

\* A statement on the row, carried out for p at once or late, takes no running
\* lease away, and replaces no value but by one of p's own.
LEMMA RowStep ==
  ASSUME IInv, NEW p \in Proxies, NEW m \in Requests \ {NoMessage},
         m.kind = "txt" => m.value.proxy = p, Perform(p, m), NEW q \in Proxies
  PROVE  /\ granted[q] <= LeaseTime => row'.exists /\ row'.by = q /\ row'.age = granted[q]
         /\ q # p /\ granted[q] <= LeaseTime => row'.txt = row.txt
         /\ row'.txt = row.txt \/ row'.txt.proxy = p
         /\ m.kind = "txt" /\ LeasedBy(p) => row'.txt.proxy = p
<1>1. row \in RowState /\ LeaseHeld(q) /\ granted[q] \in 0..Old
  BY Zenon DEF IInv, TypeOK
<1>2. CASE m.kind = "lease" /\ lease_cluster_dns(p)
  <2>1. CASE LeaseFree(p)
    <3>1. ~ (granted[q] <= LeaseTime)
      BY <1>1, <2>1, CertAssumption DEF LeaseHeld, LeaseFree, RowState, Old
    <3>2. row'.txt = row.txt
      BY <1>1, <1>2, Zenon DEF lease_cluster_dns, RowState
    <3> QED
      BY <1>2, <3>1, <3>2, Zenon
  <2>2. CASE ~LeaseFree(p)
    BY <1>1, <1>2, <2>2, Zenon DEF lease_cluster_dns, LeaseHeld
  <2> QED
    BY <2>1, <2>2, Zenon
<1>3. CASE m.kind = "txt" /\ set_cluster_dns(p, m.value)
  <2>1. row'.exists = row.exists /\ row'.by = row.by /\ row'.age = row.age
    BY <1>1, <1>3, Zenon DEF set_cluster_dns, RowState
  <2>2. row'.txt = IF LeasedBy(p) THEN m.value ELSE row.txt
    BY <1>1, <1>3, Zenon DEF set_cluster_dns, RowState
  <2>3. q # p /\ granted[q] <= LeaseTime => ~LeasedBy(p)
    BY <1>1, Zenon DEF LeaseHeld, LeasedBy
  <2> QED
    BY <1>1, <1>3, <2>1, <2>2, <2>3, Zenon DEF LeaseHeld
<1> QED
  BY <1>2, <1>3, Zenon DEF Perform

-----------------------------------------------------------------------------
(* The steps *)

\* The controller answers: the request's kind carries over to the response,
\* and a response that says the value was published is sent when it was.
LEMMA HandleStep ==
  ASSUME IInv, TypeOK', NEW p \in Proxies, handle_message_from_proxy(p)
  PROVE  IInv'
<1> DEFINE m == request[p]
<1>1. /\ m \in Requests \ {NoMessage} /\ m.kind \in {"lease", "txt"}
      /\ m.kind = "txt" => m.value.proxy = p
      /\ connected[p] /\ loop[p].pc = m.kind /\ reply[p] = NoMessage
  BY MessageTypes, Zenon DEF IInv, TypeOK, OneExchange, OwnValues, handle_message_from_proxy
<1>2. TypeOK /\ Perform(p, m) /\ Answer(p, Accepted(p, m))
  BY Zenon DEF IInv, handle_message_from_proxy
<1>3. /\ request'[p] = NoMessage /\ NoMessage.kind # "txt"
      /\ reply'[p] = [kind |-> m.kind, accepted |-> Accepted(p, m)]
  BY <1>2, Zenon DEF Answer, TypeOK, NoMessage
<1>4. reply'[p].kind = m.kind /\ reply'[p].accepted = Accepted(p, m)
  BY <1>3
<1>5. UNCHANGED <<connected, loop, late>>
  BY Zenon DEF handle_message_from_proxy
<1>6. OneExchange(p)' /\ OwnValues(p)'
  BY <1>1, <1>3, <1>4, <1>5, Zenon DEF OneExchange, OwnValues, IInv
<1>7. /\ granted'[p] = IF m.kind = "lease" /\ LeaseFree(p) THEN 0 ELSE granted[p]
      /\ \A q \in Proxies \ {p} : granted'[q] = granted[q]
  BY <1>2 DEF handle_message_from_proxy, TypeOK
<1>8. \A q \in Proxies : LeaseHeld(q)'
  <2>1. CASE m.kind = "lease" /\ LeaseFree(p)
    <3>0. row' = [row EXCEPT !.exists = TRUE, !.by = p, !.age = 0] /\ granted'[p] = 0
      BY <1>2, <1>7, <2>1, Zenon DEF Perform, lease_cluster_dns
    <3>1. LeaseHeld(p)'
      BY <1>2, <3>0, Zenon DEF LeaseHeld, TypeOK, RowState
    <3>2. ASSUME NEW q \in Proxies \ {p} PROVE LeaseHeld(q)'
      BY <1>1, <1>2, <1>7, RowStep DEF LeaseHeld
    <3> QED
      BY <3>1, <3>2, Zenon
  <2>2. CASE ~(m.kind = "lease" /\ LeaseFree(p))
    BY <1>1, <1>2, <1>7, <2>2, RowStep DEF LeaseHeld
  <2> QED
    BY <2>1, <2>2, Zenon
<1>9. ValueKept(p)'
  <2>1. Told(p)' => m.kind = "txt" /\ LeasedBy(p)
    BY <1>1, <1>4, <1>5, Zenon DEF Told, Accepted
  <2> QED
    BY <1>1, <1>2, <2>1, RowStep, Zenon DEF ValueKept
<1>10. \A q \in Proxies \ {p} : granted[q] <= LeaseTime => row'.txt = row.txt
  BY <1>1, <1>2, RowStep
<1>11. \A q \in Proxies \ {p} : /\ request'[q] = request[q] /\ reply'[q] = reply[q]
                                /\ late'[q] = late[q] /\ loop'[q] = loop[q]
                                /\ connected'[q] = connected[q] /\ granted'[q] = granted[q]
  BY <1>2, <1>5, <1>7 DEF Answer, TypeOK
<1> QED
  BY <1>6, <1>8, <1>9, <1>10, <1>11, LocalStep, Zenon

\* A request of a lost connection that is carried out late.
LEMMA LateStep ==
  ASSUME IInv, TypeOK', NEW p \in Proxies, NEW m \in late[p], HandleLate(p, m)
  PROVE  IInv'
<1>1. /\ TypeOK /\ Perform(p, m) /\ m \in Requests \ {NoMessage}
      /\ m.kind = "txt" => m.value.proxy = p
  BY Zenon DEF IInv, TypeOK, OwnValues, HandleLate
<1>2. UNCHANGED <<connected, loop, request, reply, granted>>
  BY Zenon DEF HandleLate
<1>3. late'[p] \subseteq late[p] /\ \A q \in Proxies \ {p} : late'[q] = late[q]
  BY DEF HandleLate, IInv, TypeOK
<1>4. OneExchange(p)' /\ OwnValues(p)'
  BY <1>2, <1>3, Zenon DEF IInv, OneExchange, OwnValues
<1>5. \A q \in Proxies : LeaseHeld(q)'
  BY <1>1, <1>2, RowStep, SMTT(20) DEF LeaseHeld
<1>6. ValueKept(p)'
  BY <1>1, <1>2, RowStep, Zenon DEF ValueKept, Told, IInv
<1>7. \A q \in Proxies \ {p} : granted[q] <= LeaseTime => row'.txt = row.txt
  BY <1>1, RowStep, SMTT(20)
<1> QED
  BY <1>2, <1>3, <1>4, <1>5, <1>6, <1>7, LocalStep, Zenon

\* The connection is lost, with what was under way on it, or kept by the
\* controller for later; the loop stays where it is or ends.
LEMMA LoseStep ==
  ASSUME IInv, TypeOK', NEW p \in Proxies, Lose(p), UNCHANGED <<row, granted>>,
         loop' = loop \/ loop' = [loop EXCEPT ![p] = At("off")]
  PROVE  IInv'
<1>1. TypeOK /\ OwnValues(p)
  BY Zenon DEF IInv
<1>2. /\ request'[p] = NoMessage /\ reply'[p] = NoMessage
      /\ late'[p] \subseteq late[p] \cup {request[p]}
      /\ \A q \in Proxies \ {p} : /\ request'[q] = request[q] /\ reply'[q] = reply[q]
                                /\ late'[q] = late[q] /\ loop'[q] = loop[q]
                                /\ connected'[q] = connected[q]
  BY <1>1 DEF Lose, TypeOK
<1>3. NoMessage.kind = "none"
  BY Zenon DEF NoMessage
<1>4. OneExchange(p)' /\ OwnValues(p)'
  BY <1>1, <1>2, <1>3, SMTT(20) DEF OneExchange, OwnValues
<1>5. loop'[p] = loop[p] \/ loop'[p].pc = "off"
  BY <1>1, LoopStates, Zenon DEF TypeOK, PCs
<1>6. Told(p)' => Told(p)
  BY <1>2, <1>3, <1>5, Zenon DEF Told
<1> QED
  BY <1>2, <1>4, <1>6, QuietStep, Zenon

\* The loop goes on without a message: nothing was under way, since the loop
\* was in no state that waits for a response.
LEMMA GoStep ==
  ASSUME IInv, TypeOK', NEW p \in Proxies, UNCHANGED <<row, granted, late, connected, request, reply>>,
         \A q \in Proxies \ {p} : loop'[q] = loop[q],
         \/ loop'[p].pc = loop[p].pc
         \/ request[p] = NoMessage /\ reply[p] = NoMessage,
         loop'[p].pc \in {"propagate", "validate"} => loop[p].pc \in {"propagate", "validate"}
  PROVE  IInv'
<1>1. OneExchange(p)' /\ OwnValues(p)'
  BY Zenon DEF IInv, OneExchange, OwnValues
<1>2. Told(p)' => Told(p)
  BY Zenon DEF Told
<1> QED
  BY <1>1, <1>2, QuietStep, Zenon

\* A loop that waits for no response has nothing under way.
LEMMA NothingUnderWay ==
  ASSUME IInv, NEW p \in Proxies, loop[p].pc \notin {"lease", "txt"}
  PROVE  request[p] = NoMessage /\ reply[p] = NoMessage
<1>1. OneExchange(p) /\ request[p] \in Requests /\ reply[p] \in Replies
  BY Zenon DEF IInv, TypeOK
<1> QED
  BY <1>1, MessageTypes, Zenon DEF OneExchange

\* The loop sends a request, when it waited for no response, and waits.
LEMMA SendStep ==
  ASSUME IInv, TypeOK', NEW p \in Proxies, UNCHANGED <<row, granted, late, connected, reply>>,
         NEW m \in Requests \ {NoMessage}, m.kind = "txt" => m.value.proxy = p,
         Send(p, m), loop[p].pc \notin {"lease", "txt"}, loop'[p].pc = m.kind,
         \A q \in Proxies \ {p} : loop'[q] = loop[q]
  PROVE  IInv'
<1>1. request[p] = NoMessage /\ reply[p] = NoMessage
  BY NothingUnderWay, Zenon
<1>2. /\ request'[p] = IF connected[p] THEN m ELSE request[p]
      /\ \A q \in Proxies \ {p} : request'[q] = request[q]
  BY SMTT(20) DEF Send, IInv, TypeOK
<1>3. OneExchange(p)' /\ OwnValues(p)'
  BY <1>1, <1>2, Zenon DEF OneExchange, OwnValues, IInv
<1>4. NoMessage.kind = "none" /\ m.kind \in {"lease", "txt"}
  BY MessageTypes, Zenon DEF NoMessage
<1>5. ~Told(p)'
  BY <1>1, <1>4, Zenon DEF Told
<1> QED
  BY <1>2, <1>3, <1>5, QuietStep, Zenon

\* The loop receives the response it waits for.
LEMMA ReceiveStep ==
  ASSUME IInv, TypeOK', NEW p \in Proxies, UNCHANGED <<row, granted, late, connected, request>>,
         reply[p] # NoMessage, reply' = [reply EXCEPT ![p] = NoMessage],
         \A q \in Proxies \ {p} : loop'[q] = loop[q],
         \/ loop'[p].pc \notin {"propagate", "validate"}
         \/ reply[p].kind = "txt" /\ reply[p].accepted
  PROVE  IInv'
<1>1. reply'[p] = NoMessage /\ request[p] = NoMessage
  BY SMTT(20) DEF IInv, TypeOK, OneExchange
<1>2. OneExchange(p)' /\ OwnValues(p)'
  BY <1>1, Zenon DEF IInv, OneExchange, OwnValues
<1>3. NoMessage.kind = "none"
  BY Zenon DEF NoMessage
<1>4. Told(p)' => Told(p)
  BY <1>1, <1>3, Zenon DEF Told
<1>5. \A q \in Proxies \ {p} : reply'[q] = reply[q]
  BY DEF IInv, TypeOK
<1> QED
  BY <1>2, <1>4, <1>5, QuietStep, Zenon

\* Time passes: the row's age and those of the leases grow together.
LEMMA TickStep ==
  ASSUME IInv, TypeOK', Tick
  PROVE  IInv'
<1>1. TypeOK /\ UNCHANGED <<connected, request, reply, late>>
  BY Zenon DEF IInv, Tick, net
<1>2. \A p \in Proxies : loop'[p].pc = loop[p].pc /\ granted'[p] = Older(granted[p])
  BY <1>1 DEF Tick, TypeOK, LoopState
<1>3. /\ row'.age = Older(row.age)
      /\ row'.txt = row.txt /\ row'.exists = row.exists /\ row'.by = row.by
  BY <1>1, Zenon DEF Tick, TypeOK, RowState
<1>4. \A p \in Proxies : granted'[p] <= LeaseTime => granted[p] <= LeaseTime
  BY <1>1, <1>2, CertAssumption DEF TypeOK, Older, Old
<1> SUFFICES ASSUME NEW p \in Proxies
             PROVE  OneExchange(p)' /\ OwnValues(p)' /\ LeaseHeld(p)' /\ ValueKept(p)'
  BY Zenon DEF IInv
<1>5. OneExchange(p)' /\ OwnValues(p)'
  BY <1>1, <1>2, Zenon DEF IInv, OneExchange, OwnValues
<1>6. LeaseHeld(p)'
  BY <1>2, <1>3, <1>4, Zenon DEF IInv, LeaseHeld
<1>7. ValueKept(p)'
  BY <1>1, <1>2, <1>3, <1>4, Zenon DEF IInv, ValueKept, Told
<1> QED
  BY <1>5, <1>6, <1>7, Zenon

\* A step of the refresh loop of p that sends or receives.
LEMMA MessageStep ==
  ASSUME IInv, TypeOK', NEW p \in Proxies,
         RequestLease(p) \/ ReceiveLease(p) \/ BuildOrder(p) \/ ReceiveTxt(p) \/ Authorized(p)
  PROVE  IInv'
<1>0. TypeOK /\ \A l : Goto(p, l) => loop'[p] = l /\ \A q \in Proxies \ {p} : loop'[q] = loop[q]
  BY DEF IInv, TypeOK, Goto
<1>1. {"step", "lease", "order", "finalize"} \subseteq PCs
  BY SMTT(20) DEF PCs, Waiting
<1>2. CASE RequestLease(p)
  <2>1. loop'[p].pc = "lease" /\ \A q \in Proxies \ {p} : loop'[q] = loop[q]
    BY <1>0, <1>1, <1>2, LoopStates, Zenon DEF RequestLease
  <2>2. LeaseRequest \in Requests \ {NoMessage} /\ LeaseRequest.kind = "lease"
    BY MessageTypes, Zenon
  <2>3. Send(p, LeaseRequest) /\ loop[p].pc = "step" /\ UNCHANGED <<row, granted, late, connected, reply>>
    BY <1>2, Zenon DEF RequestLease
  <2> QED
    BY <2>1, <2>2, <2>3, SendStep, SMTT(20)
<1>3. CASE ReceiveLease(p)
  <2>1. PICK l : Goto(p, l) /\ l.pc \in {"step", "order", "sleep"}
    BY <1>1, <1>3, LoopStates, Zenon DEF ReceiveLease
  <2> QED
    BY <1>0, <1>3, <2>1, ReceiveStep, Zenon DEF ReceiveLease
<1>4. ASSUME NEW n \in Authorizations, Publish(p, n), loop[p].pc \in {"order", "validate"},
             UNCHANGED <<row, granted, late, connected, reply>>
      PROVE  IInv'
  <2> DEFINE v == CHOOSE v \in FreshValues(p) : TRUE
  <2>1. v \in Values /\ v.proxy = p
    BY <1>4, FreshValueType, Zenon DEF Publish
  <2>2. Goto(p, [At("txt") EXCEPT !.n = n, !.value = v]) /\ Send(p, SetTxtRecord(v))
    BY <1>4, Zenon DEF Publish
  <2> HIDE DEF v
  <2>3. loop'[p].pc = "txt" /\ \A q \in Proxies \ {p} : loop'[q] = loop[q]
    <3>1. [At("txt") EXCEPT !.n = n, !.value = v].pc = "txt"
      BY <1>4, <2>1, LoopStates, Zenon
    <3>2. loop' = [loop EXCEPT ![p] = [At("txt") EXCEPT !.n = n, !.value = v]]
      BY <2>2, Zenon DEF Goto
    <3> QED
      BY <1>0, <3>1, <3>2, SMTT(20) DEF TypeOK
  <2> QED
    BY <1>4, <2>1, <2>2, <2>3, MessageTypes, SendStep
<1>5. CASE BuildOrder(p)
  BY <1>4, <1>5 DEF BuildOrder, Authorizations
<1>6. CASE ReceiveTxt(p)
  <2>1. PICK l : /\ Goto(p, l)
                 /\ (reply[p].kind = "txt" /\ reply[p].accepted) \/ l.pc = "sleep"
    BY <1>6, LoopStates, Zenon DEF ReceiveTxt
  <2> QED
    BY <1>0, <1>6, <2>1, ReceiveStep, Zenon DEF ReceiveTxt
<1>7. CASE Authorized(p)
  <2>1. CASE loop[p].n < 2
    <3>1. loop[p].n + 1 \in Authorizations
      BY <1>0, <2>1, SMTT(20) DEF TypeOK, LoopState, Authorizations
    <3> QED
      BY <1>4, <1>7, <2>1, <3>1, Zenon DEF Authorized
  <2>2. CASE ~(loop[p].n < 2)
    <3>1. loop'[p].pc = "finalize" /\ \A q \in Proxies \ {p} : loop'[q] = loop[q]
      BY <1>0, <1>1, <1>7, <2>2, LoopStates, Zenon DEF Authorized
    <3> QED
      BY <1>7, <2>2, <3>1, NothingUnderWay, GoStep, Zenon DEF Authorized
  <2> QED
    BY <2>1, <2>2, Zenon
<1> QED
  BY <1>2, <1>3, <1>5, <1>6, <1>7, Zenon

\* A step of p that has nothing to do with messages.
LEMMA SilentStep ==
  ASSUME IInv, TypeOK', NEW p \in Proxies,
         \/ Rest(p) \/ Wake(p) \/ Validate(p) \/ NotAuthorized(p) \/ OrderFails(p) \/ Obtain(p)
         \/ wait_for_initial_cert(p) \/ resolve(p) \/ Start(p) \/ RenewalDue(p)
  PROVE  IInv'
<1> USE DEF net, store
<1>0. TypeOK /\ \A l : Goto(p, l) => loop'[p] = l /\ \A q \in Proxies \ {p} : loop'[q] = loop[q]
  BY DEF IInv, TypeOK, Goto
<1>1. {"step", "rest"} \subseteq PCs
  BY Zenon DEF PCs
<1>2. CASE wait_for_initial_cert(p) \/ resolve(p) \/ Start(p)
  BY <1>2, GoStep, SMTT(20) DEF wait_for_initial_cert, resolve, Start
<1>3. CASE Rest(p) \/ Wake(p) \/ Obtain(p) \/ NotAuthorized(p) \/ OrderFails(p)
  <2>1. PICK l : Goto(p, l) /\ l.pc \in {"step", "rest", "sleep"}
    BY <1>1, <1>3, LoopStates, ZenonT(60) DEF Rest, Wake, Obtain, NotAuthorized, OrderFails
  <2>2. loop[p].pc \notin {"lease", "txt"} /\ UNCHANGED <<row, granted, late, connected, request, reply>>
    BY <1>3, Zenon DEF Rest, Wake, Obtain, NotAuthorized, OrderFails
  <2> QED
    BY <1>0, <2>1, <2>2, NothingUnderWay, GoStep, ZenonT(60)
<1>4. CASE Validate(p)
  <2>1. loop'[p].pc = "validate" /\ \A q \in Proxies \ {p} : loop'[q] = loop[q]
    BY <1>0, <1>4, SMTT(20) DEF Validate, TypeOK, LoopState
  <2> QED
    BY <1>4, <2>1, NothingUnderWay, GoStep, Zenon DEF Validate
<1>5. CASE RenewalDue(p)
  <2>1. /\ loop'[p] = IF loop[p].pc = "rest" THEN At("step") ELSE loop[p]
        /\ \A q \in Proxies \ {p} : loop'[q] = loop[q]
    BY <1>0, <1>5 DEF RenewalDue, TypeOK
  <2> QED
    BY <1>1, <1>5, <2>1, LoopStates, NothingUnderWay, GoStep, ZenonT(60) DEF RenewalDue
<1> QED
  BY <1>2, <1>3, <1>4, <1>5, Zenon

\* The database fails, or the proxy connects again.
LEMMA ConnectionStep ==
  ASSUME IInv, TypeOK', NEW p \in Proxies, HandleFails(p) \/ set_request_sender(p)
  PROVE  IInv'
<1> USE DEF net
<1>0. TypeOK /\ OneExchange(p) /\ OwnValues(p)
  BY Zenon DEF IInv
<1>1. CASE HandleFails(p)
  <2>1. request[p] \in Requests \ {NoMessage} /\ request[p].kind \in {"lease", "txt"}
    BY <1>0, <1>1, MessageTypes, Zenon DEF HandleFails, TypeOK
  <2>2. /\ request'[p] = NoMessage
        /\ reply'[p] = [kind |-> request[p].kind, accepted |-> FALSE]
        /\ \A q \in Proxies \ {p} : request'[q] = request[q] /\ reply'[q] = reply[q]
    BY <1>0, <1>1 DEF HandleFails, Answer, TypeOK
  <2>3. reply'[p].kind = request[p].kind /\ ~reply'[p].accepted /\ NoMessage.kind = "none"
    BY <2>2 DEF NoMessage
  <2>4. UNCHANGED <<row, granted, late, loop, connected>>
    BY <1>1, Zenon DEF HandleFails
  <2>5. OneExchange(p)' /\ OwnValues(p)'
    BY <1>0, <1>1, <2>1, <2>2, <2>3, <2>4, Zenon DEF OneExchange, OwnValues, HandleFails
  <2>6. Told(p)' => Told(p)
    BY <2>3, <2>4, Zenon DEF Told
  <2> QED
    BY <2>2, <2>4, <2>5, <2>6, QuietStep, Zenon
<1>2. CASE set_request_sender(p)
  <2>1. request[p] = NoMessage /\ reply[p] = NoMessage /\ NoMessage.kind = "none"
    BY <1>0, <1>2, SMTT(20) DEF set_request_sender, OneExchange, NoMessage
  <2>2. /\ loop'[p].pc = "step"
        /\ \A q \in Proxies \ {p} : loop'[q] = loop[q] /\ connected'[q] = connected[q]
    BY <1>0, <1>2, LoopStates, ZenonT(60) DEF set_request_sender, TypeOK, PCs
  <2>3. UNCHANGED <<row, granted, late, request, reply>>
    BY <1>2, Zenon DEF set_request_sender
  <2>4. OneExchange(p)' /\ OwnValues(p)' /\ ~Told(p)'
    BY <1>0, <2>1, <2>2, <2>3, Zenon DEF OneExchange, OwnValues, Told
  <2> QED
    BY <2>2, <2>3, <2>4, QuietStep, Zenon
<1> QED
  BY <1>1, <1>2, Zenon

\* The invariant of the refresh loops, the row and what is under way between
\* them: every step of the proxies, the controllers and the clock keeps it.
THEOREM Invariance == Spec => []IInv
<1>1. Init => IInv
  <2> SUFFICES ASSUME Init PROVE IInv
    BY Zenon
  <2>0. Old \in 0..Old /\ ~(Old <= LeaseTime) /\ 0 \in 0..MaxTroubles
    BY CertAssumption DEF Old
  <2>1. At("off") \in LoopState /\ At("off").pc = "off" /\ NoMessage.kind = "none"
    BY LoopStates, Zenon DEF PCs, NoMessage
  <2>2. row \in RowState
    BY <2>0, Zenon DEF Init, NoRow, RowState, Values
  <2>3. TypeOK
    BY <2>0, <2>1, <2>2, MessageTypes, WatcherType, Zenon DEF Init, TypeOK
  <2>4. ASSUME NEW p \in Proxies PROVE OneExchange(p) /\ OwnValues(p) /\ LeaseHeld(p) /\ ValueKept(p)
    BY <2>0, <2>1, Zenon DEF Init, OneExchange, OwnValues, LeaseHeld, ValueKept
  <2> QED
    BY <2>3, <2>4, Zenon DEF IInv
<1>2. IInv /\ [Next]_vars => IInv'
  <2> SUFFICES ASSUME IInv, [Next]_vars PROVE IInv'
    OBVIOUS
  <2>0. TypeOK'
    BY TypeStep, Zenon DEF IInv
  <2>1. ASSUME NEW p \in Proxies, Break(p) \/ Crash(p) PROVE IInv'
    BY <2>0, <2>1, LoseStep, Zenon DEF Break, Crash, Goto
  <2>2. CASE UNCHANGED vars
    BY <2>0, <2>2, Zenon DEF IInv, OneExchange, OwnValues, LeaseHeld, ValueKept, Told, vars, net
  <2> QED
    BY <2>0, <2>1, <2>2, HandleStep, LateStep, MessageStep, SilentStep, ConnectionStep, TickStep, Zenon
       DEF Next, Step
<1> QED
  BY <1>1, <1>2, PTL DEF Spec

\* For any number of proxies and faults, a response that reaches a proxy is
\* the one its refresh loop waits for: the "Unexpected response from cert
\* manager" branches of cert_manager.rs are dead code.
THEOREM ResponsesAreExpected == Spec => []ResponsesMatch
<1>1. IInv => ResponsesMatch
  BY Zenon DEF IInv, OneExchange, ResponsesMatch
<1> QED
  BY <1>1, Invariance, PTL

\* For any lease time and sleeps: within the minute of its lease no other
\* proxy replaces the challenge value of a proxy that was told its value is
\* published, late statements of lost connections included.
THEOREM ChallengesAreUndisturbed == Spec => []Undisturbed
<1>1. IInv => Undisturbed
  BY Zenon DEF IInv, ValueKept, Told, Undisturbed
<1> QED
  BY <1>1, Invariance, PTL

-----------------------------------------------------------------------------
(* DnsLookup: the queues of a socket *)

\* What a queue holds is of the type of its messages.
LEMMA HeldType == ASSUME NEW S, NEW s \in Seq(S) PROVE Range(s) \subseteq S
  BY DEF Range

\* A queue with one more message.
LEMMA HeldAppend ==
  ASSUME NEW S, NEW s \in Seq(S), NEW e \in S
  PROVE  Append(s, e) \in Seq(S) /\ \A x \in Range(Append(s, e)) : x \in Range(s) \/ x = e
<1>1. Append(s, e) \in Seq(S) /\ DOMAIN s = 1..Len(s) /\ DOMAIN Append(s, e) = 1..(Len(s) + 1)
  OBVIOUS
<1>2. Append(s, e)[Len(s) + 1] = e /\ \A n \in 1..Len(s) : Append(s, e)[n] = s[n]
  OBVIOUS
<1> QED  BY <1>1, <1>2 DEF Range

\* A queue whose first message was taken.
LEMMA HeldTail ==
  ASSUME NEW S, NEW s \in Seq(S), s # <<>>
  PROVE  /\ Head(s) \in S /\ Head(s) \in Range(s)
         /\ Tail(s) \in Seq(S) /\ Range(Tail(s)) \subseteq Range(s)
<1>1. /\ Head(s) \in S /\ Head(s) = s[1] /\ Tail(s) \in Seq(S)
      /\ Len(s) \in Nat \ {0} /\ DOMAIN s = 1..Len(s) /\ DOMAIN Tail(s) = 1..(Len(s) - 1)
  OBVIOUS
<1>2. \A n \in 1..(Len(s) - 1) : Tail(s)[n] = s[n + 1]
  OBVIOUS
<1> QED  BY <1>1, <1>2 DEF Range

\* A queue of which the first messages are left.
LEMMA HeldPrefix ==
  ASSUME NEW S, NEW s \in Seq(S), NEW n \in 0..Len(s)
  PROVE  SubSeq(s, 1, n) \in Seq(S) /\ Range(SubSeq(s, 1, n)) \subseteq Range(s)
<1>1. SubSeq(s, 1, n) \in Seq(S) /\ DOMAIN s = 1..Len(s) /\ DOMAIN SubSeq(s, 1, n) = 1..n
  OBVIOUS
<1>2. \A i \in 1..n : SubSeq(s, 1, n)[i] = s[i]
  OBVIOUS
<1> QED  BY <1>1, <1>2 DEF Range

-----------------------------------------------------------------------------
(* DnsLookup: the inductive invariant *)

Records == 0..MaxWrites
Responses == [cluster : Clusters, value : Records]
QueryStates == [pc : {"idle", "waiting", "answered"}, cluster : Clusters \cup {None},
                floor : Records, value : Records]

\* The queries in an entry wait for its cluster, and a query that waits does so
\* for a cluster.
Subscribed ==
    /\ \A c \in Clusters : \A q \in request_map[c].waiting :
         query[q].pc = "waiting" /\ query[q].cluster = c
    /\ \A q \in Queries : query[q].pc = "waiting" => query[q].cluster \in Clusters

\* Neither the row nor a response that is under way is behind a query that may
\* get it.
Ahead(q) ==
    /\ query[q].floor <= record[query[q].cluster]
    /\ \A r \in Range(socket.down) : r.cluster = query[q].cluster => query[q].floor <= r.value

FloorKept == \A q \in Queries : query[q].pc = "waiting" => Ahead(q)

DnsIInv == DnsTypeOK /\ Subscribed /\ NoOrphan /\ FloorKept /\ FreshWhenQuiet

\* The fields of what the server and the socket hold.
LEMMA DnsFields ==
  ASSUME DnsTypeOK
  PROVE  /\ record \in [Clusters -> Records] /\ Records \subseteq Nat /\ MaxWrites \in Nat
         /\ query \in [Queries -> QueryStates]
         /\ \A c \in Clusters : request_map[c].waiting \subseteq Queries
         /\ socket.up \in Seq(Clusters) /\ socket.down \in Seq(Responses)
         /\ Range(socket.down) \subseteq Responses
<1>1. MaxWrites \in Nat /\ Records \subseteq Nat
  BY DnsAssumption DEF Records
<1>2. /\ record \in [Clusters -> Records] /\ query \in [Queries -> QueryStates]
      /\ request_map \in [Clusters -> [exists : BOOLEAN, waiting : SUBSET Queries]]
      /\ socket \in [up : Seq(Clusters), down : Seq(Responses), open : BOOLEAN]
  BY Zenon DEF DnsTypeOK, Records, QueryStates, Responses, Sockets
<1>3. socket.up \in Seq(Clusters) /\ socket.down \in Seq(Responses)
  BY <1>2, Zenon
<1>4. \A c \in Clusters : request_map[c].waiting \subseteq Queries
  BY <1>2, Zenon
<1> QED  BY <1>1, <1>2, <1>3, <1>4, HeldType, Zenon

\* A step that leaves the queries alone, adds only true responses to the queue
\* and never takes a value back keeps the invariant.
LEMMA DnsQuietStep ==
  ASSUME DnsIInv, DnsTypeOK', query' = query, request_map' = request_map,
         \A c \in Clusters : record[c] <= record'[c],
         \A r \in Range(socket.down)' : r \in Range(socket.down) \/ r.value = record[r.cluster]
  PROVE  DnsIInv'
<1>1. Subscribed' /\ NoOrphan' /\ FreshWhenQuiet'
  BY Zenon DEF DnsIInv, Subscribed, NoOrphan, FreshWhenQuiet
<1>2. FloorKept'
  <2> SUFFICES ASSUME NEW q \in Queries, query[q].pc = "waiting" PROVE Ahead(q)'
    BY Zenon DEF FloorKept
  <2> DEFINE c == query[q].cluster
             f == query[q].floor
  <2>1. c \in Clusters /\ Ahead(q)
    BY Zenon DEF DnsIInv, Subscribed, FloorKept
  <2>2. f \in Nat /\ record[c] \in Nat /\ record'[c] \in Nat
    BY <2>1, DnsFields, Zenon DEF DnsIInv, DnsTypeOK, Records, QueryStates
  <2>3. f <= record'[c]
    BY <2>1, <2>2 DEF Ahead
  <2>4. \A r \in Range(socket.down)' : r.cluster = c => f <= r.value
    BY <2>1, Zenon DEF Ahead
  <2> QED  BY <2>3, <2>4, Zenon DEF Ahead
<1> QED  BY <1>1, <1>2, Zenon DEF DnsIInv

-----------------------------------------------------------------------------
(* Steps *)

\* A request that is sent leaves the queue of responses alone.
LEMMA SocketSends ==
  ASSUME NEW To, NEW From, NEW s \in Sockets(To, From), NEW m \in To
  PROVE  send(s, m) \in Sockets(To, From) /\ send(s, m).down = s.down
<1>1. Append(s.up, m) \in Seq(To)
  BY HeldAppend DEF Sockets
<1> QED  BY <1>1 DEF send, Sockets

\* A response that is sent is the only new one in the queue.
LEMMA ReplyStep ==
  ASSUME NEW To, NEW From, NEW s \in Sockets(To, From), NEW m \in From
  PROVE  /\ Reply(s, m) \in Sockets(To, From)
         /\ \A x \in Range(Reply(s, m).down) : x \in Range(s.down) \/ x = m
<1>0. s.down \in Seq(From)
  BY Zenon DEF Sockets
<1>1. Append(s.down, m) \in Seq(From)
  BY <1>0, HeldAppend, Zenon
<1>2. Reply(s, m) \in Sockets(To, From)
  BY <1>1 DEF Reply, Sockets
<1>3. Reply(s, m).down \in {s.down, Append(s.down, m)}
  BY DEF Reply, Sockets
<1> QED  BY <1>0, <1>2, <1>3, HeldAppend, Zenon

\* The controller takes a request.
LEMMA UpTaken ==
  ASSUME NEW To, NEW From, NEW s \in Sockets(To, From), s.up # <<>>
  PROVE  /\ Head(s.up) \in To
         /\ [s EXCEPT !.up = Tail(@)] \in Sockets(To, From)
         /\ [s EXCEPT !.up = Tail(@)].down = s.down
<1>1. Head(s.up) \in To /\ Tail(s.up) \in Seq(To)
  BY HeldTail DEF Sockets
<1> QED  BY <1>1, Zenon DEF Sockets

\* The server takes a response.
LEMMA DownTaken ==
  ASSUME NEW To, NEW From, NEW s \in Sockets(To, From), s.down # <<>>
  PROVE  /\ Head(s.down) \in From /\ Head(s.down) \in Range(s.down)
         /\ [s EXCEPT !.down = Tail(@)] \in Sockets(To, From)
         /\ Range([s EXCEPT !.down = Tail(@)].down) \subseteq Range(s.down)
<1>0. s.down \in Seq(From)
  BY Zenon DEF Sockets
<1>1. /\ Head(s.down) \in From /\ Head(s.down) \in Range(s.down)
      /\ Tail(s.down) \in Seq(From) /\ Range(Tail(s.down)) \subseteq Range(s.down)
  BY <1>0, HeldTail, Zenon
<1>2. /\ [s EXCEPT !.down = Tail(@)] \in Sockets(To, From)
      /\ [s EXCEPT !.down = Tail(@)].down = Tail(s.down)
  BY <1>1, Zenon DEF Sockets
<1> QED  BY <1>1, <1>2, Zenon

\* A connection that ends keeps some of the messages it had.
LEMMA CloseStep ==
  ASSUME NEW To, NEW From, NEW s \in Sockets(To, From),
         NEW i \in 0..Len(s.up), NEW j \in 0..Len(s.down)
  PROVE  Close(s, i, j) \in Sockets(To, From) /\ Range(Close(s, i, j).down) \subseteq Range(s.down)
<1>0. s.up \in Seq(To) /\ s.down \in Seq(From)
  BY Zenon DEF Sockets
<1>1. /\ SubSeq(s.up, 1, i) \in Seq(To) /\ SubSeq(s.down, 1, j) \in Seq(From)
      /\ Range(SubSeq(s.down, 1, j)) \subseteq Range(s.down)
  BY <1>0, HeldPrefix, Zenon
<1> QED  BY <1>1, Zenon DEF Close, Sockets

\* mishaps is bounded.
LEMMA MishapType == ASSUME DnsTypeOK, Mishap \/ UNCHANGED mishaps PROVE mishaps' \in 0..MaxMishaps
  BY DnsAssumption DEF Mishap, DnsTypeOK

\* The task that owns the connection, the controller and the network keep the
\* invariant, except for a response that is taken from the socket.
LEMMA ConnectionKeeps ==
  ASSUME DnsIInv, \/ Connect \/ Closed \/ register_node \/ Serve \/ ServeFails \/ HandlerEnds
                  \/ SocketBreaks \/ Undeliverable
                  \/ \E c \in Clusters : Outbound(c) \/ PublishTxt(c)
  PROVE  DnsIInv'
<1> DEFINE To == Clusters
           From == [cluster : Clusters, value : 0..MaxWrites]
<1>0. DnsTypeOK /\ socket \in Sockets(To, From) /\ record \in [Clusters -> 0..MaxWrites]
  BY Zenon DEF DnsIInv, DnsTypeOK
<1>1. query' = query /\ request_map' = request_map
  BY Zenon DEF Connect, Closed, register_node, Serve, ServeFails, HandlerEnds, SocketBreaks,
               Undeliverable, Outbound, PublishTxt, server
<1>2. mishaps' \in 0..MaxMishaps
  <2>1. Mishap \/ UNCHANGED mishaps
    BY Zenon DEF Connect, Closed, register_node, Serve, ServeFails, HandlerEnds, SocketBreaks,
                 Undeliverable, Outbound, PublishTxt, server, Dropping
  <2> QED  BY <1>0, <2>1, MishapType, Zenon
<1>3. outbound' \in Clusters \cup {None} /\ task' \in {"connecting", "connected"}
  BY <1>0, Zenon DEF Connect, Closed, register_node, Serve, ServeFails, HandlerEnds, SocketBreaks,
               Undeliverable, Outbound, PublishTxt, server, DnsTypeOK
<1>4. handler' \in {"registering", "serving", "gone"}
  BY <1>0, Zenon DEF Connect, Closed, register_node, Serve, ServeFails, HandlerEnds, SocketBreaks,
               Undeliverable, Outbound, PublishTxt, server, DnsTypeOK
<1>5. /\ record' \in [Clusters -> 0..MaxWrites]
      /\ \A c \in Clusters : record[c] <= record'[c]
  <2>1. CASE record' = record
    BY <1>0, <2>1, DnsAssumption
  <2>2. ASSUME NEW c \in Clusters, PublishTxt(c)
        PROVE  /\ record' \in [Clusters -> 0..MaxWrites]
               /\ \A b \in Clusters : record[b] <= record'[b]
    BY <1>0, <2>2, DnsAssumption DEF PublishTxt
  <2> QED
    BY <2>1, <2>2, Zenon DEF Connect, Closed, register_node, Serve, ServeFails, HandlerEnds,
                             SocketBreaks, Undeliverable, Outbound
<1> DEFINE Good == /\ socket' \in Sockets(To, From)
                   /\ \A r \in Range(socket.down)' :
                        r \in Range(socket.down) \/ r.value = record[r.cluster]
<1>6. Good
  <2>1. CASE socket' = socket
    BY <1>0, <2>1, Zenon
  <2>2. CASE Connect
    <3>1. NewSocket \in Sockets(To, From) /\ NewSocket.down = <<>>
      BY DEF NewSocket, Sockets
    <3>2. Range(<<>>) = {}
      BY DEF Range
    <3> QED  BY <2>2, <3>1, <3>2, Zenon DEF Connect
  <2>3. CASE Serve
    <3> DEFINE c == Head(socket.up)
               s == [socket EXCEPT !.up = Tail(@)]
               r == [cluster |-> c, value |-> record[c]]
    <3>1. socket.up # <<>> /\ socket' = Reply(s, r)
      BY <2>3, Zenon DEF Serve, Received, txt_record_for_cluster
    <3>2. c \in Clusters /\ s \in Sockets(To, From) /\ s.down = socket.down
      BY <1>0, <3>1, UpTaken, Zenon
    <3>3. r \in From /\ r.value = record[r.cluster]
      BY <1>0, <3>2, Zenon
    <3> HIDE DEF c, s, r, From
    <3>4. /\ Reply(s, r) \in Sockets(To, From)
          /\ \A x \in Range(Reply(s, r).down) : x \in Range(socket.down) \/ x = r
      BY <3>2, <3>3, ReplyStep
    <3> QED  BY <3>1, <3>3, <3>4, Zenon
  <2>4. CASE ServeFails
    BY <1>0, <2>4, UpTaken DEF ServeFails, Received
  <2>5. CASE SocketBreaks
    <3>1. PICK i \in 0..Len(socket.up), j \in 0..Len(socket.down) : socket' = Close(socket, i, j)
      BY <2>5, Zenon DEF SocketBreaks
    <3>2. Close(socket, i, j) \in Sockets(To, From) /\ Range(Close(socket, i, j).down) \subseteq Range(socket.down)
      BY <1>0, CloseStep, Zenon
    <3> QED  BY <3>1, <3>2, Zenon
  <2>6. CASE Undeliverable
    <3>1. 0 \in 0..Len(socket.up) /\ Len(socket.down) \in 0..Len(socket.down)
      BY <1>0 DEF Sockets
    <3> QED  BY <1>0, <2>6, <3>1, CloseStep, Zenon DEF Undeliverable
  <2>7. ASSUME NEW c \in Clusters, Outbound(c) PROVE Good
    <3>1. socket' = send(socket, c)
      BY <2>7, Zenon DEF Outbound
    <3>2. send(socket, c) \in Sockets(To, From) /\ send(socket, c).down = socket.down
      BY <1>0, SocketSends, Zenon
    <3> QED  BY <3>1, <3>2, Zenon
  <2> QED
    BY <2>1, <2>2, <2>3, <2>4, <2>5, <2>6, <2>7, Zenon
    DEF Closed, register_node, HandlerEnds, PublishTxt
<1>7. DnsTypeOK'
  BY <1>0, <1>1, <1>2, <1>3, <1>4, <1>5, <1>6, Zenon DEF DnsTypeOK
<1> QED  BY <1>1, <1>5, <1>6, <1>7, DnsQuietStep, Zenon


\* A query is asked: it takes a floor that nothing under way is behind.
LEMMA LookupStep ==
  ASSUME DnsIInv, NEW q \in Queries, NEW c \in Clusters, do_lookup(q, c)
  PROVE  DnsIInv'
<1> DEFINE waiting == request_map[c].waiting \cup {q}
<1>0. DnsTypeOK /\ query[q].pc = "idle" /\ c # None
  BY DnsAssumption, Zenon DEF DnsIInv, do_lookup
<1>1. /\ query' = [query EXCEPT ![q] = Asked(c)] /\ record' = record /\ socket' = socket
      /\ task' = task /\ handler' = handler
      /\ request_map' = [request_map EXCEPT ![c] = Entry(waiting)]
  BY Zenon DEF do_lookup
<1>2. outbound' \in Clusters \cup {None} /\ mishaps' \in 0..MaxMishaps
  BY <1>0, MishapType, Zenon DEF do_lookup, Overwrite
<1>3. /\ Floor(c) \in 0..MaxWrites /\ Floor(c) <= record[c]
      /\ \A r \in Range(socket.down) : r.cluster = c => Floor(c) <= r.value
  <2>1. record[c] \in 0..MaxWrites /\ MaxWrites \in Nat /\ Range(socket.down) \subseteq Responses
    BY <1>0, DnsFields, Zenon DEF Records
  <2>2. CASE OnTheWay(c)
    BY <2>1, <2>2 DEF Floor, Responses, Records
  <2>3. CASE ~OnTheWay(c)
    <3>1. \A r \in Range(socket.down) : r.cluster # c
      BY <2>3, Zenon DEF OnTheWay
    <3>2. Floor(c) = record[c]
      BY <2>3, Zenon DEF Floor
    <3> QED  BY <2>1, <3>1, <3>2
  <2> QED  BY <2>2, <2>3, Zenon
<1>4. /\ Asked(c) \in QueryStates /\ Asked(c).pc = "waiting" /\ Asked(c).cluster = c
      /\ Asked(c).floor = Floor(c)
  <2>1. 0 \in 0..MaxWrites
    BY DnsAssumption
  <2> QED  BY <1>3, <2>1, Zenon DEF Asked, QueryStates, Records
<1>5. /\ waiting \subseteq Queries /\ Entry(waiting).waiting = waiting
      /\ Entry(waiting) \in [exists : BOOLEAN, waiting : SUBSET Queries]
  <2>1. waiting \subseteq Queries
    BY <1>0, DnsFields, Zenon
  <2> HIDE DEF waiting
  <2> QED  BY <2>1, Zenon DEF Entry
<1>6. /\ query' \in [Queries -> QueryStates] /\ query'[q] = Asked(c)
      /\ \A p \in Queries \ {q} : query'[p] = query[p]
  BY <1>0, <1>1, <1>4, DnsFields, Zenon
<1>7. /\ request_map' \in [Clusters -> [exists : BOOLEAN, waiting : SUBSET Queries]]
      /\ request_map'[c].waiting = waiting
      /\ \A d \in Clusters \ {c} : request_map'[d] = request_map[d]
  <2> HIDE DEF waiting
  <2> QED  BY <1>0, <1>1, <1>5, Zenon DEF DnsTypeOK
<1>8. DnsTypeOK'
  BY <1>0, <1>1, <1>2, <1>6, <1>7, Zenon DEF DnsTypeOK, QueryStates, Records
<1>9. Subscribed'
  <2>1. ASSUME NEW d \in Clusters, NEW p \in request_map'[d].waiting
        PROVE  query'[p].pc = "waiting" /\ query'[p].cluster = d
    <3>1. p \in request_map[d].waiting \/ (d = c /\ p = q)
      BY <1>7, <2>1, Zenon
    <3>2. CASE d = c /\ p = q
      BY <1>4, <1>6, <3>2, Zenon
    <3>3. CASE p \in request_map[d].waiting
      <4>1. query[p].pc = "waiting" /\ query[p].cluster = d /\ p \in Queries
        BY <1>0, <3>3, DnsFields, Zenon DEF DnsIInv, Subscribed
      <4>2. p # q
        BY <1>0, <4>1, Zenon
      <4> QED  BY <1>6, <4>1, <4>2, Zenon
    <3> QED  BY <3>1, <3>2, <3>3, Zenon
  <2>2. ASSUME NEW p \in Queries, query'[p].pc = "waiting" PROVE query'[p].cluster \in Clusters
    BY <1>4, <1>6, <2>2, Zenon DEF DnsIInv, Subscribed
  <2> QED  BY <2>1, <2>2, Zenon DEF Subscribed
<1>10. NoOrphan'
  <2> SUFFICES ASSUME NEW p \in Queries, query'[p].pc = "waiting"
               PROVE  p \in request_map'[query'[p].cluster].waiting
    BY Zenon DEF NoOrphan
  <2>1. CASE p = q
    BY <1>4, <1>6, <1>7, <2>1, Zenon
  <2>2. CASE p # q
    <3>1. query'[p] = query[p] /\ query[p].cluster \in Clusters
          /\ p \in request_map[query[p].cluster].waiting
      BY <1>6, <2>2, Zenon DEF DnsIInv, Subscribed, NoOrphan
    <3> QED  BY <1>7, <3>1, Zenon
  <2> QED  BY <2>1, <2>2, Zenon
<1>11. FloorKept'
  <2> SUFFICES ASSUME NEW p \in Queries, query'[p].pc = "waiting" PROVE Ahead(p)'
    BY Zenon DEF FloorKept
  <2>1. CASE p = q
    BY <1>1, <1>3, <1>4, <1>6, <2>1, Zenon DEF Ahead
  <2>2. CASE p # q
    <3>1. query'[p] = query[p] /\ Ahead(p)
      BY <1>6, <2>2, Zenon DEF DnsIInv, FloorKept
    <3> QED  BY <1>1, <3>1, Zenon DEF Ahead
  <2> QED  BY <2>1, <2>2, Zenon
<1>12. FreshWhenQuiet'
  <2>1. Asked(c).pc # "answered"
    BY <1>4, Zenon
  <2> QED  BY <1>6, <2>1, Zenon DEF DnsIInv, FreshWhenQuiet
<1> QED  BY <1>8, <1>9, <1>10, <1>11, <1>12, Zenon DEF DnsIInv


\* A query that gets idle, and is in no entry then, keeps the invariant.
LEMMA IdleStep ==
  ASSUME DnsIInv, NEW q \in Queries, query' = [query EXCEPT ![q] = Idle],
         record' = record, socket' = socket, task' = task, handler' = handler,
         outbound' = outbound, mishaps' \in 0..MaxMishaps,
         request_map' \in [Clusters -> [exists : BOOLEAN, waiting : SUBSET Queries]],
         \A c \in Clusters : request_map'[c].waiting = request_map[c].waiting \ {q}
  PROVE  DnsIInv'
<1>0. DnsTypeOK
  BY Zenon DEF DnsIInv
<1>1. Idle \in QueryStates /\ Idle.pc = "idle"
  <2>1. 0 \in 0..MaxWrites
    BY DnsAssumption
  <2> QED  BY <2>1, Zenon DEF Idle, QueryStates, Records
<1>2. /\ query' \in [Queries -> QueryStates] /\ query'[q].pc = "idle"
      /\ \A p \in Queries \ {q} : query'[p] = query[p]
  BY <1>0, <1>1, DnsFields, Zenon
<1>3. DnsTypeOK'
  BY <1>0, <1>2, Zenon DEF DnsTypeOK, QueryStates, Records
<1>4. \A p \in Queries : query'[p].pc # "idle" => p # q /\ query'[p] = query[p]
  BY <1>2, Zenon
<1>5. Subscribed'
  <2>1. \A c \in Clusters : \A p \in request_map'[c].waiting :
          p \in Queries \ {q} /\ p \in request_map[c].waiting
    BY <1>0, DnsFields, Zenon
  <2>2. ASSUME NEW c \in Clusters, NEW p \in request_map'[c].waiting
        PROVE  query'[p].pc = "waiting" /\ query'[p].cluster = c
    <3>1. query[p].pc = "waiting" /\ query[p].cluster = c
      BY <2>1, <2>2, Zenon DEF DnsIInv, Subscribed
    <3>2. query'[p] = query[p]
      BY <1>2, <2>1, <2>2, Zenon
    <3> QED  BY <3>1, <3>2, Zenon
  <2>3. \A p \in Queries : query'[p].pc = "waiting" => query'[p].cluster \in Clusters
    BY <1>4, Zenon DEF DnsIInv, Subscribed
  <2> QED  BY <2>2, <2>3, Zenon DEF Subscribed
<1>6. NoOrphan'
  <2> SUFFICES ASSUME NEW p \in Queries, query'[p].pc = "waiting"
               PROVE  p \in request_map'[query'[p].cluster].waiting
    BY Zenon DEF NoOrphan
  <2>1. p # q /\ query'[p] = query[p]
    BY <1>4, Zenon
  <2>2. query[p].cluster \in Clusters /\ p \in request_map[query[p].cluster].waiting
    BY <2>1, Zenon DEF DnsIInv, Subscribed, NoOrphan
  <2> QED  BY <2>1, <2>2, Zenon
<1>7. FloorKept'
  <2> SUFFICES ASSUME NEW p \in Queries, query'[p].pc = "waiting" PROVE Ahead(p)'
    BY Zenon DEF FloorKept
  <2>1. query'[p] = query[p] /\ Ahead(p)
    BY <1>4, Zenon DEF DnsIInv, FloorKept
  <2> QED  BY <2>1, Zenon DEF Ahead
<1>8. FreshWhenQuiet'
  BY <1>4, Zenon DEF DnsIInv, FreshWhenQuiet
<1> QED  BY <1>3, <1>5, <1>6, <1>7, <1>8, Zenon DEF DnsIInv

\* A query that times out leaves its entry.
LEMMA TimesOutStep == ASSUME DnsIInv, NEW q \in Queries, TimesOut(q) PROVE DnsIInv'
<1> DEFINE c == query[q].cluster
<1>0. DnsTypeOK /\ query[q].pc = "waiting" /\ c \in Clusters
  BY Zenon DEF DnsIInv, Subscribed, TimesOut
<1>1. /\ query' = [query EXCEPT ![q] = Idle] /\ record' = record /\ socket' = socket
      /\ task' = task /\ handler' = handler /\ outbound' = outbound
      /\ request_map' = [request_map EXCEPT ![c].waiting = @ \ {q}]
  BY Zenon DEF TimesOut
<1>2. mishaps' \in 0..MaxMishaps
  BY <1>0, MishapType, Zenon DEF TimesOut
<1>3. request_map \in [Clusters -> [exists : BOOLEAN, waiting : SUBSET Queries]]
  BY <1>0, Zenon DEF DnsTypeOK
<1>4. /\ request_map' \in [Clusters -> [exists : BOOLEAN, waiting : SUBSET Queries]]
      /\ request_map'[c].waiting = request_map[c].waiting \ {q}
      /\ \A d \in Clusters \ {c} : request_map'[d] = request_map[d]
  <2> HIDE DEF c
  <2> QED  BY <1>0, <1>1, <1>3
<1>5. \A d \in Clusters \ {c} : q \notin request_map[d].waiting
  BY Zenon DEF DnsIInv, Subscribed
<1>6. \A d \in Clusters : request_map'[d].waiting = request_map[d].waiting \ {q}
  <2> HIDE DEF c
  <2> QED  BY <1>4, <1>5
<1> QED  BY <1>1, <1>2, <1>4, <1>6, IdleStep, Zenon

\* A query that was answered is in no entry.
LEMMA RespondsStep == ASSUME DnsIInv, NEW q \in Queries, Responds(q) PROVE DnsIInv'
<1>0. DnsTypeOK /\ query[q].pc = "answered"
  BY Zenon DEF DnsIInv, Responds
<1>1. /\ query' = [query EXCEPT ![q] = Idle] /\ record' = record /\ socket' = socket
      /\ task' = task /\ handler' = handler /\ outbound' = outbound
      /\ request_map' = request_map /\ mishaps' = mishaps
  BY Zenon DEF Responds
<1>2. \A d \in Clusters : q \notin request_map[d].waiting
  BY <1>0, Zenon DEF DnsIInv, Subscribed
<1>3. \A d \in Clusters : request_map'[d].waiting = request_map[d].waiting \ {q}
  BY <1>1, <1>2
<1>4. /\ request_map' \in [Clusters -> [exists : BOOLEAN, waiting : SUBSET Queries]]
      /\ mishaps' \in 0..MaxMishaps
  BY <1>0, <1>1, Zenon DEF DnsTypeOK
<1> QED  BY <1>1, <1>3, <1>4, IdleStep, Zenon

\* A response answers exactly the queries that wait for its cluster, and none of
\* them was to get a newer value.
LEMMA InboundStep == ASSUME DnsIInv, Inbound PROVE DnsIInv'
<1> DEFINE Response(r) ==
             /\ request_map' = [request_map EXCEPT ![r.cluster] = NoEntry]
             /\ query' = [q \in Queries |->
                            IF q \in request_map[r.cluster].waiting
                            THEN [query[q] EXCEPT !.pc = "answered", !.value = r.value]
                            ELSE query[q]]
<1>0. DnsTypeOK /\ socket \in Sockets(Clusters, [cluster : Clusters, value : 0..MaxWrites])
  BY Zenon DEF DnsIInv, DnsTypeOK
<1>1. /\ socket.down # <<>>
      /\ socket' = [socket EXCEPT !.down = Tail(@)] /\ record' = record /\ outbound' = outbound
      /\ task' = task /\ handler' = handler /\ mishaps' = mishaps
  BY Zenon DEF Inbound, Received
<1>a. Response(Head(socket.down))
  BY Zenon DEF Inbound
<1>2. /\ Head(socket.down) \in Responses /\ Head(socket.down) \in Range(socket.down)
      /\ socket' \in Sockets(Clusters, [cluster : Clusters, value : 0..MaxWrites])
      /\ Range(socket'.down) \subseteq Range(socket.down)
  BY <1>0, <1>1, DownTaken, Zenon DEF Responses, Records
<1>3. PICK r \in Responses : r \in Range(socket.down) /\ Response(r)
  BY <1>a, <1>2, Zenon
<1>4. r.cluster \in Clusters /\ r.value \in Records
  BY Zenon DEF Responses
<1> DEFINE asked(q) == query[q].pc = "waiting" /\ query[q].cluster = r.cluster
<1>5. \A q \in Queries : q \in request_map[r.cluster].waiting <=> asked(q)
  BY <1>4, Zenon DEF DnsIInv, Subscribed, NoOrphan
<1>6. \A q \in Queries : asked(q) =>
        /\ query'[q] \in QueryStates /\ query'[q].pc = "answered"
        /\ query'[q].floor = query[q].floor /\ query'[q].value = r.value
  <2> SUFFICES ASSUME NEW q \in Queries, asked(q)
               PROVE  /\ query'[q] \in QueryStates /\ query'[q].pc = "answered"
                      /\ query'[q].floor = query[q].floor /\ query'[q].value = r.value
    BY Zenon
  <2>1. query'[q] = [query[q] EXCEPT !.pc = "answered", !.value = r.value]
    BY <1>3, <1>5, Zenon
  <2>2. query[q] \in QueryStates
    BY <1>0, DnsFields, Zenon
  <2> QED  BY <1>4, <2>1, <2>2, Zenon DEF QueryStates
<1>7. \A q \in Queries : ~asked(q) => query'[q] = query[q]
  BY <1>3, <1>5, Zenon
<1>8. query' \in [Queries -> QueryStates]
  <2>1. DOMAIN query' = Queries /\ query' = [q \in Queries |-> query'[q]]
    BY <1>3, Zenon
  <2>2. \A q \in Queries : query'[q] \in QueryStates
    BY <1>0, <1>6, <1>7, DnsFields, Zenon
  <2> QED  BY <2>1, <2>2, Zenon
<1>9. /\ request_map' \in [Clusters -> [exists : BOOLEAN, waiting : SUBSET Queries]]
      /\ request_map'[r.cluster].waiting = {}
      /\ \A d \in Clusters \ {r.cluster} : request_map'[d] = request_map[d]
  <2>1. NoEntry \in [exists : BOOLEAN, waiting : SUBSET Queries] /\ NoEntry.waiting = {}
    BY DEF NoEntry
  <2> QED  BY <1>0, <1>3, <1>4, <2>1, Zenon DEF DnsTypeOK
<1>10. DnsTypeOK'
  BY <1>0, <1>1, <1>2, <1>8, <1>9, Zenon DEF DnsTypeOK, QueryStates, Records
<1>11. \A q \in Queries : query'[q].pc = "waiting" =>
         /\ query'[q] = query[q] /\ query[q].cluster \in Clusters \ {r.cluster}
  BY <1>6, <1>7, Zenon DEF DnsIInv, Subscribed
<1>12. Subscribed'
  <2>1. ASSUME NEW d \in Clusters, NEW p \in request_map'[d].waiting
        PROVE  query'[p].pc = "waiting" /\ query'[p].cluster = d
    <3>1. d # r.cluster /\ p \in request_map[d].waiting
      BY <1>9, <2>1, Zenon
    <3>2. query[p].pc = "waiting" /\ query[p].cluster = d /\ p \in Queries
      BY <1>0, <3>1, DnsFields, Zenon DEF DnsIInv, Subscribed
    <3> QED  BY <1>7, <3>1, <3>2, Zenon
  <2> QED  BY <1>11, <2>1, Zenon DEF Subscribed
<1>13. NoOrphan'
  <2> SUFFICES ASSUME NEW p \in Queries, query'[p].pc = "waiting"
               PROVE  p \in request_map'[query'[p].cluster].waiting
    BY Zenon DEF NoOrphan
  <2>1. query'[p] = query[p] /\ query[p].cluster \in Clusters \ {r.cluster}
    BY <1>11, Zenon
  <2>2. p \in request_map[query[p].cluster].waiting
    BY <2>1, Zenon DEF DnsIInv, NoOrphan
  <2> QED  BY <1>9, <2>1, <2>2, Zenon
<1>14. FloorKept'
  <2> SUFFICES ASSUME NEW p \in Queries, query'[p].pc = "waiting" PROVE Ahead(p)'
    BY Zenon DEF FloorKept
  <2>1. query'[p] = query[p] /\ Ahead(p)
    BY <1>11, Zenon DEF DnsIInv, FloorKept
  <2> QED  BY <1>1, <1>2, <2>1, Zenon DEF Ahead
<1>15. FreshWhenQuiet'
  <2> SUFFICES ASSUME NEW p \in Queries, query'[p].pc = "answered"
               PROVE  query'[p].value >= query'[p].floor
    BY Zenon DEF FreshWhenQuiet
  <2>1. CASE asked(p)
    <3>1. query[p].floor <= r.value
      BY <1>3, <2>1, Zenon DEF DnsIInv, FloorKept, Ahead
    <3>2. query[p].floor \in Nat /\ r.value \in Nat
      BY <1>0, <1>4, DnsFields DEF QueryStates
    <3> QED  BY <1>6, <2>1, <3>1, <3>2
  <2>2. CASE ~asked(p)
    BY <1>7, <2>2, Zenon DEF DnsIInv, FreshWhenQuiet
  <2> QED  BY <2>1, <2>2, Zenon
<1> QED  BY <1>10, <1>12, <1>13, <1>14, <1>15, Zenon DEF DnsIInv

\* The invariant of the DNS server, for any number of queries and clusters, any
\* capacity of the queues and any number of mishaps.
THEOREM DnsInvariance == DnsSpec => []DnsIInv
<1>1. DnsInit => DnsIInv
  <2> SUFFICES ASSUME DnsInit PROVE DnsIInv
    BY Zenon
  <2>1. 0 \in 0..MaxWrites /\ 0 \in 0..MaxMishaps
    BY DnsAssumption
  <2>2. \A q \in Queries : query[q] = Idle /\ Idle.pc = "idle"
    BY Zenon DEF DnsInit, Idle
  <2>3. \A c \in Clusters : request_map[c].waiting = {}
    BY DEF DnsInit, NoEntry
  <2>4. Idle \in QueryStates
    BY <2>1, Zenon DEF Idle, QueryStates, Records
  <2>5. NoEntry \in [exists : BOOLEAN, waiting : SUBSET Queries]
    BY DEF NoEntry
  <2>6. NoSocket \in Sockets(Clusters, [cluster : Clusters, value : 0..MaxWrites])
    BY DEF NoSocket, Sockets
  <2>7. DnsTypeOK
    BY <2>1, <2>4, <2>5, <2>6, Zenon DEF DnsInit, DnsTypeOK, QueryStates, Records
  <2> QED
    BY <2>2, <2>3, <2>7, Zenon DEF DnsIInv, Subscribed, NoOrphan, FloorKept, FreshWhenQuiet
<1>2. DnsIInv /\ [DnsNext]_dnsVars => DnsIInv'
  <2> SUFFICES ASSUME DnsIInv, [DnsNext]_dnsVars PROVE DnsIInv'
    BY Zenon
  <2>1. CASE UNCHANGED dnsVars
    BY <2>1, Zenon DEF dnsVars, server, DnsIInv, DnsTypeOK, Subscribed, NoOrphan, FloorKept, Ahead,
                       FreshWhenQuiet
  <2>2. CASE DnsNext
    BY <2>2, LookupStep, TimesOutStep, RespondsStep, InboundStep, ConnectionKeeps, Zenon DEF DnsNext
  <2> QED  BY <2>1, <2>2, Zenon
<1> QED  BY <1>1, <1>2, PTL DEF DnsSpec

\* No query waits on a channel that no response will reach (AcmeDnsServer::request
\* and the task of AcmeDnsServer::new).
THEOREM QueriesAreSubscribed == DnsSpec => []NoOrphan
<1>1. DnsIInv => NoOrphan
  BY Zenon DEF DnsIInv
<1> QED  BY <1>1, DnsInvariance, PTL

\* A query asked when nothing was under way for its cluster gets the value of that
\* time or a newer one, whichever request the response was for.
THEOREM AnswersAreFresh == DnsSpec => []FreshWhenQuiet
<1>1. DnsIInv => FreshWhenQuiet
  BY Zenon DEF DnsIInv
<1> QED  BY <1>1, DnsInvariance, PTL

=============================================================================
