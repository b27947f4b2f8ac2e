-------------------------- MODULE ProxyRoutesProof --------------------------
(***************************************************************************)
(* Proofs about ProxyRoutes: a lookup never loses its channel, no client   *)
(* is told from the cache that a live backend is gone, and the connection  *)
(* monitor counts the open connections of every live backend.              *)
(***************************************************************************)
EXTENDS ProxyRoutes, FiniteSetTheorems, TLAPS

-----------------------------------------------------------------------------
(* Sequences *)

\* The elements of a sequence.
LEMMA SeqElement == ASSUME NEW S, NEW s \in Seq(S), NEW n \in 1..Len(s) PROVE s[n] \in S
  OBVIOUS

\* What Append adds.
LEMMA AppendFacts ==
  ASSUME NEW S, NEW s \in Seq(S), NEW e \in S
  PROVE  /\ Append(s, e) \in Seq(S) /\ Append(s, e) # <<>>
         /\ Len(s) \in Nat /\ Len(Append(s, e)) = Len(s) + 1
         /\ Append(s, e)[Len(s) + 1] = e
         /\ \A n \in 1..Len(s) : Append(s, e)[n] = s[n]
  OBVIOUS

\* What Head and Tail are.
LEMMA TailFacts ==
  ASSUME NEW S, NEW s \in Seq(S), s # <<>>
  PROVE  /\ Tail(s) \in Seq(S) /\ Head(s) \in S /\ Head(s) = s[1]
         /\ Len(s) \in Nat \ {0} /\ Len(Tail(s)) = Len(s) - 1
         /\ \A n \in 1..(Len(s) - 1) : Tail(s)[n] = s[n + 1]
  OBVIOUS

\* What a sequence holds with one more element.
LEMMA RangeAppend ==
  ASSUME NEW S, NEW s \in Seq(S), NEW e \in S
  PROVE  Range(Append(s, e)) = Range(s) \cup {e}
<1>1. Len(Append(s, e)) = Len(s) + 1 /\ Append(s, e)[Len(s) + 1] = e
  OBVIOUS
<1>2. \A n \in 1..Len(s) : Append(s, e)[n] = s[n]
  OBVIOUS
<1>3. DOMAIN s = 1..Len(s) /\ DOMAIN Append(s, e) = 1..(Len(s) + 1)
  OBVIOUS
<1> QED  BY <1>1, <1>2, <1>3 DEF Range

\* What a sequence holds is its head or in its tail.
LEMMA RangeTail ==
  ASSUME NEW S, NEW s \in Seq(S), s # <<>>
  PROVE  /\ Head(s) \in Range(s)
         /\ Range(s) = Range(Tail(s)) \cup {Head(s)}
<1>1. Len(Tail(s)) = Len(s) - 1 /\ Len(s) > 0 /\ Head(s) = s[1]
  OBVIOUS
<1>2. \A n \in 1..(Len(s) - 1) : Tail(s)[n] = s[n + 1]
  OBVIOUS
<1>3. DOMAIN s = 1..Len(s) /\ DOMAIN Tail(s) = 1..(Len(s) - 1)
  OBVIOUS
<1>4. \A x \in Range(s) : x = Head(s) \/ x \in Range(Tail(s))
  <2> TAKE x \in Range(s)
  <2>1. PICK n \in 1..Len(s) : x = s[n]
    BY <1>3, Zenon DEF Range
  <2>2. CASE n = 1
    BY <1>1, <2>1, <2>2, Zenon
  <2>3. CASE n # 1
    <3>1. n - 1 \in 1..(Len(s) - 1) /\ Tail(s)[n - 1] = x
      BY <1>1, <1>2, <2>1, <2>3
    <3> QED  BY <3>1, <1>3, Zenon DEF Range
  <2> QED  BY <2>2, <2>3, Zenon
<1>5. \A x \in Range(Tail(s)) : x \in Range(s)
  <2> TAKE x \in Range(Tail(s))
  <2>1. PICK n \in 1..(Len(s) - 1) : x = Tail(s)[n]
    BY <1>3, Zenon DEF Range
  <2>2. n + 1 \in 1..Len(s) /\ s[n + 1] = x
    BY <1>1, <1>2, <2>1
  <2> QED  BY <2>2, <1>3, Zenon DEF Range
<1> QED  BY <1>1, <1>3, <1>4, <1>5 DEF Range

\* What a sequence holds is of the type of its elements.
LEMMA RangeType == ASSUME NEW S, NEW s \in Seq(S) PROVE Range(s) \subseteq S
  BY DEF Range

\* A function on the first n numbers is a sequence of length n.
LEMMA FunctionSeq ==
  ASSUME NEW S, NEW n \in Nat, NEW f \in [1 .. n -> S]
  PROVE  f \in Seq(S) /\ Len(f) = n
  OBVIOUS

\* The tasks but one are some of the tasks.
LEMMA WithoutFacts ==
  ASSUME NEW S, NEW tasks \in Seq(S), NEW i \in DOMAIN tasks
  PROVE  Without(tasks, i) \in Seq(S) /\ Range(Without(tasks, i)) \subseteq Range(tasks)
<1> DEFINE n == Len(tasks) - 1
<1>1. n \in Nat /\ DOMAIN tasks = 1 .. n + 1 /\ i \in 1 .. n + 1
  OBVIOUS
<1>2. \A j \in 1 .. n : j \in DOMAIN tasks /\ j + 1 \in DOMAIN tasks
  BY <1>1
<1>3. \A j \in 1 .. n : Without(tasks, i)[j] \in Range(tasks)
  BY <1>2, Zenon DEF Without, Range
<1>4. DOMAIN Without(tasks, i) = 1 .. n
  BY Zenon DEF Without
<1>5. Range(tasks) \subseteq S
  BY RangeType, Zenon
<1>6. Without(tasks, i) \in [1 .. n -> S]
  BY <1>3, <1>5, Zenon DEF Without
<1>7. Without(tasks, i) \in Seq(S)
  BY <1>1, <1>6, FunctionSeq, Zenon
<1> QED  BY <1>3, <1>4, <1>7, Zenon DEF Range

-----------------------------------------------------------------------------
(* The cache, the messages and the tasks *)

RouteEntries == [token : Tokens, route : Routes]

\* A token that is cached has an entry.
LEMMA EntryFacts ==
  ASSUME TypeOK, NEW t, Cached(t)
  PROVE  /\ Place(t) \in DOMAIN routes
         /\ Entry(t) \in Range(routes) /\ Entry(t) \in RouteEntries /\ Entry(t).token = t
<1>1. Place(t) \in DOMAIN routes /\ routes[Place(t)].token = t
  BY Zenon DEF Place, Cached
<1>2. Entry(t) \in Range(routes) /\ Entry(t).token = t
  BY <1>1, Zenon DEF Entry, Range
<1>3. Range(routes) \subseteq RouteEntries
  BY RangeType, Zenon DEF TypeOK, RouteEntries
<1> QED  BY <1>1, <1>2, <1>3, Zenon

\* There is room for one more below a bound that is not reached.
LEMMA OneMore ==
  ASSUME NEW l \in Nat, NEW c \in Nat, l <= c, NEW n, n = l \/ (n = l + 1 /\ l # c)
  PROVE  n \in Nat /\ n <= c /\ n <= l + 1
  OBVIOUS

\* Moving an entry to the front of the cache adds no other.
LEMMA ToFrontFacts ==
  ASSUME TypeOK, NEW t, NEW e \in RouteEntries
  PROVE  /\ ToFront(t, e) \in Seq(RouteEntries) /\ Len(ToFront(t, e)) <= CacheSize
         /\ Range(ToFront(t, e)) \subseteq Range(routes) \cup {e}
<1> DEFINE n == IF Cached(t) \/ Len(routes) = CacheSize THEN Len(routes) ELSE Len(routes) + 1
           p == Place(t)
<1>1. routes \in Seq(RouteEntries)
  BY Zenon DEF TypeOK, RouteEntries
<1>a. Len(routes) \in Nat /\ DOMAIN routes = 1 .. Len(routes) /\ CacheSize \in Nat
  BY <1>1, RoutesAssumption
<1>2. n \in Nat /\ n <= CacheSize /\ n <= Len(routes) + 1
  <2>1. n = Len(routes) \/ (n = Len(routes) + 1 /\ Len(routes) # CacheSize)
    BY Zenon
  <2>2. Len(routes) <= CacheSize
    BY Zenon DEF TypeOK
  <2> HIDE DEF n
  <2> QED  BY <1>a, <2>1, <2>2, OneMore, Zenon
<1>3. Cached(t) => p \in 1 .. Len(routes) /\ n = Len(routes)
  BY <1>a, EntryFacts, Zenon
<1>4. ~Cached(t) => p = Len(routes) + 1
  BY Zenon DEF Place
<1>5. \A i \in 1 .. n : i # 1 => IF i <= p THEN i - 1 \in 1 .. Len(routes) ELSE i \in 1 .. Len(routes)
  <2> HIDE DEF n, p
  <2>1. CASE Cached(t)
    <3>1. p \in 1 .. Len(routes) /\ n = Len(routes)
      BY <1>3, <2>1, Zenon
    <3> QED  BY <1>a, <3>1
  <2>2. CASE ~Cached(t)
    <3>1. p = Len(routes) + 1
      BY <1>4, <2>2, Zenon
    <3> QED  BY <1>a, <1>2, <3>1
  <2> QED  BY <2>1, <2>2, Zenon
<1>6. ToFront(t, e) = [i \in 1 .. n |-> IF i = 1 THEN e ELSE IF i <= p THEN routes[i - 1] ELSE routes[i]]
  BY Zenon DEF ToFront
<1> HIDE DEF n, p
<1>7. \A i \in 1 .. n : ToFront(t, e)[i] \in Range(routes) \cup {e}
  BY <1>a, <1>5, <1>6, Zenon DEF Range
<1>8. Range(routes) \subseteq RouteEntries
  BY <1>1, RangeType, Zenon
<1>9. DOMAIN ToFront(t, e) = 1 .. n
  BY <1>6, Zenon
<1>10. ToFront(t, e) \in [1 .. n -> RouteEntries]
  BY <1>6, <1>7, <1>8, Zenon
<1>11. ToFront(t, e) \in Seq(RouteEntries) /\ Len(ToFront(t, e)) = n
  BY <1>2, <1>10, FunctionSeq, Zenon
<1> QED  BY <1>2, <1>7, <1>9, <1>11, Zenon DEF Range

\* What is sent is at most appended.
LEMMA SendType ==
  ASSUME NEW S, NEW queue \in Seq(S), NEW msg \in S
  PROVE  Send(queue, msg) \in Seq(S)
<1>1. Append(queue, msg) \in Seq(S)
  BY AppendFacts, Zenon
<1> QED  BY <1>1, Zenon DEF Send

\* Every message in the queue after a Send was there before or is the one sent.
LEMMA SendRange ==
  ASSUME NEW S, NEW queue \in Seq(S), NEW msg \in S
  PROVE  \A m \in Range(Send(queue, msg)) : m \in Range(queue) \/ m = msg
<1>1. Range(Append(queue, msg)) = Range(queue) \cup {msg}
  BY RangeAppend
<1> QED  BY <1>1, Zenon DEF Send

\* The messages have their types.
LEMMA MessageTypes ==
  /\ \A t \in Tokens : RouteRequest(t) \in ToController
  /\ \A b \in Backends : KeepAlive(b) \in ToController /\ BackendRemoved(b) \in ToProxy
  /\ \A t \in Tokens, r \in Routes : RouteResponse(t, r) \in ToProxy
  /\ \A m \in ToController : /\ m.type = "route" => m.token \in Tokens
                             /\ m.type = "keepalive" => m.backend \in Backends
  /\ \A m \in ToProxy : /\ m.type = "response" => m.token \in Tokens /\ m.route \in Routes
                        /\ m.type = "removed" => m.backend \in Backends
  BY Zenon DEF RouteRequest, KeepAlive, BackendRemoved, RouteResponse, ToController, ToProxy

\* A notification is read after the others, by the tasks that are subscribed.
LEMMA NotifyFacts ==
  ASSUME NEW tasks \in Seq(Tasks), NEW b, NEW s \in Statuses
  PROVE  /\ Notify(tasks, b, s) \in Seq(Tasks) /\ Len(Notify(tasks, b, s)) = Len(tasks)
         /\ \A k \in Range(Notify(tasks, b, s)) : \E old \in Range(tasks) :
              \/ k = old
              \/ /\ k.token = old.token /\ Target[k.token] = b
                 /\ Range(k.states) = Range(old.states) \cup {s}
<1> DEFINE n == Len(tasks)
           Told(k) == [k EXCEPT !.states = Append(@, s)]
<1>1. n \in Nat /\ DOMAIN tasks = 1 .. n /\ \A i \in 1 .. n : tasks[i] \in Tasks
  OBVIOUS
<1>2. \A k \in Tasks : /\ Told(k) \in Tasks /\ Told(k).token = k.token
                       /\ Range(Told(k).states) = Range(k.states) \cup {s}
  <2> TAKE k \in Tasks
  <2>1. k.states \in Seq(Statuses)
    BY Zenon DEF Tasks
  <2>2. Append(k.states, s) \in Seq(Statuses)
    BY <2>1, AppendFacts, Zenon
  <2>a. Range(Append(k.states, s)) = Range(k.states) \cup {s}
    BY <2>1, RangeAppend
  <2>3. Told(k) = [k EXCEPT !.states = Append(k.states, s)]
    BY Zenon
  <2>4. Told(k) \in Tasks /\ Told(k).token = k.token /\ Told(k).states = Append(k.states, s)
    BY <2>2, <2>3, Zenon DEF Tasks
  <2> QED  BY <2>a, <2>4, Zenon
<1>3. Notify(tasks, b, s) = [i \in 1 .. n |-> IF Target[tasks[i].token] = b /\ tasks[i].subscribed
                                              THEN Told(tasks[i]) ELSE tasks[i]]
  BY <1>1, Zenon DEF Notify
<1> HIDE DEF n, Told
<1>4. Notify(tasks, b, s) \in [1 .. n -> Tasks]
  <2>1. \A i \in 1 .. n : tasks[i] \in Tasks /\ Told(tasks[i]) \in Tasks
    BY <1>1, <1>2, Zenon
  <2> QED  BY <1>3, <2>1, Zenon
<1>5. Notify(tasks, b, s) \in Seq(Tasks) /\ Len(Notify(tasks, b, s)) = n
  BY <1>1, <1>4, FunctionSeq, Zenon
<1>6. ASSUME NEW k \in Range(Notify(tasks, b, s))
      PROVE  \E old \in Range(tasks) :
              \/ k = old
              \/ /\ k.token = old.token /\ Target[k.token] = b
                 /\ Range(k.states) = Range(old.states) \cup {s}
  <2>1. PICK i \in 1 .. n : k = Notify(tasks, b, s)[i]
    BY <1>3, Zenon DEF Range
  <2>2. tasks[i] \in Range(tasks) /\ tasks[i] \in Tasks
    BY <1>1, Zenon DEF Range
  <2>3. CASE Target[tasks[i].token] = b /\ tasks[i].subscribed
    <3>1. k = Told(tasks[i])
      BY <1>3, <2>1, <2>3, Zenon
    <3>2. /\ k.token = tasks[i].token
          /\ Range(k.states) = Range(tasks[i].states) \cup {s}
      BY <1>2, <2>2, <3>1, Zenon
    <3> QED  BY <2>2, <2>3, <3>2, Zenon
  <2>4. CASE ~(Target[tasks[i].token] = b /\ tasks[i].subscribed)
    <3>1. k = tasks[i]
      BY <1>3, <2>1, <2>4, Zenon
    <3> QED  BY <2>2, <3>1, Zenon
  <2> QED  BY <2>3, <2>4, Zenon
<1> QED  BY <1>5, <1>6, Zenon DEF n


-----------------------------------------------------------------------------
(* The connection monitor *)

Visits == [backend : Backends, due : {0}]

\* A visit of the backend is queued.
Queued(m, b) == \E v \in Range(m.queue) : v.backend = b

\* The monitor with other entries, and with another queue.
PutBackends(m, f) == [m EXCEPT !.backends = f]

PutQueue(m, q) == [m EXCEPT !.queue = q]

\* The parts of a monitor.
LEMMA MonitorParts ==
  ASSUME NEW m \in Monitors
  PROVE  /\ DOMAIN m.backends \subseteq Backends
         /\ m.backends \in [DOMAIN m.backends -> Entries]
         /\ m.queue \in Seq(Visits)
<1>1. m.backends \in UNION {[S -> Entries] : S \in SUBSET Backends} /\ m.queue \in Seq(Visits)
  BY Zenon DEF Monitors, Visits
<1>2. PICK S \in SUBSET Backends : m.backends \in [S -> Entries]
  BY <1>1, Zenon
<1>3. DOMAIN m.backends = S
  BY <1>2, Zenon
<1> QED  BY <1>1, <1>2, <1>3, Zenon

\* A monitor may have its entries replaced.
LEMMA WithBackends ==
  ASSUME NEW m \in Monitors, NEW S \in SUBSET Backends, NEW f \in [S -> Entries]
  PROVE  /\ PutBackends(m, f) \in Monitors
         /\ PutBackends(m, f).backends = f /\ PutBackends(m, f).queue = m.queue
<1> DEFINE F == UNION {[T -> Entries] : T \in SUBSET Backends}
           Q == Seq([backend : Backends, due : {0}])
<1>1. f \in F
  BY Zenon
<1>2. Monitors = [backends : F, queue : Q]
  BY Zenon DEF Monitors
<1> HIDE DEF F, Q
<1> QED  BY <1>1, <1>2, Zenon DEF PutBackends

\* A monitor may have its queue replaced.
LEMMA WithQueue ==
  ASSUME NEW m \in Monitors, NEW q \in Seq(Visits)
  PROVE  /\ PutQueue(m, q) \in Monitors
         /\ PutQueue(m, q).backends = m.backends /\ PutQueue(m, q).queue = q
<1> DEFINE F == UNION {[T -> Entries] : T \in SUBSET Backends}
           Q == Seq([backend : Backends, due : {0}])
<1>1. q \in Q
  BY Zenon DEF Visits
<1>2. Monitors = [backends : F, queue : Q]
  BY Zenon DEF Monitors
<1> HIDE DEF F, Q
<1> QED  BY <1>1, <1>2, Zenon DEF PutQueue

\* Enqueue keeps the entries and the visits that were queued.
LEMMA EnqueueFacts ==
  ASSUME NEW m \in Monitors, NEW b \in Backends
  PROVE  /\ Enqueue(m, b, 0) \in Monitors /\ Enqueue(m, b, 0).backends = m.backends
         /\ Queued(Enqueue(m, b, 0), b)
         /\ \A x : Queued(m, x) => Queued(Enqueue(m, b, 0), x)
<1> DEFINE v == [backend |-> b, due |-> 0]
           q == Append(m.queue, v)
<1>1. v \in Visits /\ v.backend = b
  BY Zenon DEF Visits
<1>2. m.queue \in Seq(Visits)
  BY MonitorParts, Zenon
<1> HIDE DEF v
<1>3. q \in Seq(Visits)
  BY <1>1, <1>2, AppendFacts, Zenon
<1>4. Range(q) = Range(m.queue) \cup {v}
  BY <1>1, <1>2, RangeAppend
<1>5. Enqueue(m, b, 0) = PutQueue(m, q)
  BY Zenon DEF Enqueue, v, PutQueue
<1> HIDE DEF q
<1>6. /\ PutQueue(m, q) \in Monitors
      /\ PutQueue(m, q).backends = m.backends /\ PutQueue(m, q).queue = q
  BY <1>3, WithQueue, Zenon
<1>7. /\ Enqueue(m, b, 0) \in Monitors /\ Enqueue(m, b, 0).backends = m.backends
      /\ Enqueue(m, b, 0).queue = q
  BY <1>5, <1>6, Zenon
<1>8. v \in Range(q) /\ \A x \in Range(m.queue) : x \in Range(q)
  BY <1>4, Zenon
<1> QED  BY <1>1, <1>7, <1>8, Zenon DEF Queued

\* SetEntry sets one entry and leaves the queue.
LEMMA SetEntryFacts ==
  ASSUME NEW m \in Monitors, NEW b \in Backends, NEW e \in Entries
  PROVE  /\ SetEntry(m, b, e) \in Monitors
         /\ SetEntry(m, b, e).queue = m.queue
         /\ DOMAIN SetEntry(m, b, e).backends = DOMAIN m.backends \cup {b}
         /\ SetEntry(m, b, e).backends[b] = e
         /\ \A x \in DOMAIN m.backends : x # b => SetEntry(m, b, e).backends[x] = m.backends[x]
<1> DEFINE S == DOMAIN m.backends \cup {b}
           f == [x \in S |-> IF x = b THEN e ELSE m.backends[x]]
<1>1. /\ m.backends \in [DOMAIN m.backends -> Entries] /\ DOMAIN m.backends \subseteq Backends
      /\ m.queue \in Seq(Visits)
  BY MonitorParts, Zenon
<1>2. S \in SUBSET Backends /\ f \in [S -> Entries] /\ DOMAIN f = S /\ f[b] = e
  BY <1>1, Zenon
<1>3. \A x \in DOMAIN m.backends : x # b => f[x] = m.backends[x]
  BY Zenon
<1>4. SetEntry(m, b, e) = PutBackends(m, f)
  BY Zenon DEF SetEntry, PutBackends
<1> HIDE DEF S, f
<1>5. SetEntry(m, b, e) \in Monitors /\ SetEntry(m, b, e).backends = f /\ SetEntry(m, b, e).queue = m.queue
  BY <1>2, <1>4, WithBackends
<1> QED  BY <1>2, <1>3, <1>5, Zenon DEF S

\* DropEntry drops one entry and leaves the queue.
LEMMA DropEntryFacts ==
  ASSUME NEW m \in Monitors, NEW b
  PROVE  /\ DropEntry(m, b) \in Monitors
         /\ DropEntry(m, b).queue = m.queue
         /\ DOMAIN DropEntry(m, b).backends = DOMAIN m.backends \ {b}
         /\ \A x \in DOMAIN m.backends \ {b} : DropEntry(m, b).backends[x] = m.backends[x]
<1> DEFINE S == DOMAIN m.backends \ {b}
           f == [x \in S |-> m.backends[x]]
<1>1. /\ m.backends \in [DOMAIN m.backends -> Entries] /\ DOMAIN m.backends \subseteq Backends
      /\ m.queue \in Seq(Visits)
  BY MonitorParts, Zenon
<1>2. S \in SUBSET Backends /\ f \in [S -> Entries] /\ DOMAIN f = S
  BY <1>1, Zenon
<1>3. \A x \in S : f[x] = m.backends[x]
  BY Zenon
<1>4. DropEntry(m, b) = PutBackends(m, f)
  BY Zenon DEF DropEntry, PutBackends
<1> HIDE DEF f
<1>5. DropEntry(m, b) \in Monitors /\ DropEntry(m, b).backends = f /\ DropEntry(m, b).queue = m.queue
  BY <1>2, <1>4, WithBackends
<1> QED  BY <1>2, <1>3, <1>5, Zenon


\* The count of an entry.
LEMMA ActiveType ==
  ASSUME NEW m \in Monitors, NEW b \in DOMAIN m.backends
  PROVE  /\ m.backends[b] \in Entries
         /\ m.backends[b].active \in 0 .. CountBound - 1 /\ m.backends[b].recent \in BOOLEAN
<1>1. m.backends[b] \in Entries
  BY MonitorParts, Zenon
<1> QED  BY <1>1, Zenon DEF Entries

\* Changing an entry that is there is setting it.
LEMMA ExceptEntry ==
  ASSUME NEW m \in Monitors, NEW b \in DOMAIN m.backends, NEW e
  PROVE  [m EXCEPT !.backends[b] = e] = SetEntry(m, b, e)
<1> DEFINE f == m.backends
           g == [x \in DOMAIN f \cup {b} |-> IF x = b THEN e ELSE f[x]]
<1>1. f = [x \in DOMAIN f |-> f[x]]
  BY MonitorParts, Zenon
<1>2. DOMAIN f \cup {b} = DOMAIN f
  BY Zenon
<1>3. [f EXCEPT ![b] = e] = g
  BY <1>1, <1>2, Zenon
<1>4. [m EXCEPT !.backends[b] = e] = [m EXCEPT !.backends = [f EXCEPT ![b] = e]]
  BY Zenon
<1> QED  BY <1>3, <1>4, Zenon DEF SetEntry

\* touch_backend makes sure that there is an entry, and a visit when it makes one.
LEMMA TouchFacts ==
  ASSUME NEW m \in Monitors, NEW b \in Backends, NEW m2, m2 = touch_backend(m, b, 0)
  PROVE  /\ m2 \in Monitors
         /\ DOMAIN m2.backends = DOMAIN m.backends \cup {b}
         /\ \A x \in DOMAIN m.backends : m2.backends[x].active = m.backends[x].active
         /\ ~HasEntry(m, b) => m2.backends[b].active = 0 /\ Queued(m2, b)
         /\ \A x : Queued(m, x) => Queued(m2, x)
<1>1. CASE HasEntry(m, b)
  <2> DEFINE e == [m.backends[b] EXCEPT !.recent = TRUE]
  <2>1. b \in DOMAIN m.backends
    BY <1>1, Zenon DEF HasEntry
  <2>2. m.backends[b] \in Entries
    BY <2>1, ActiveType, Zenon
  <2>3. e \in Entries /\ e.active = m.backends[b].active
    BY <2>2, Zenon DEF Entries
  <2>4. m2 = [m EXCEPT !.backends[b] = e]
    BY <1>1, Zenon DEF touch_backend
  <2> HIDE DEF e
  <2>5. m2 = SetEntry(m, b, e)
    BY <2>1, <2>4, ExceptEntry, Zenon
  <2>6. /\ m2 \in Monitors /\ m2.queue = m.queue /\ m2.backends[b] = e
        /\ DOMAIN m2.backends = DOMAIN m.backends \cup {b}
        /\ \A x \in DOMAIN m.backends : x # b => m2.backends[x] = m.backends[x]
    BY <2>3, <2>5, SetEntryFacts
  <2> QED  BY <1>1, <2>3, <2>6, Zenon DEF Queued
<1>2. CASE ~HasEntry(m, b)
  <2> DEFINE e == [active |-> 0, recent |-> TRUE]
             k == Enqueue(m, b, 0)
  <2>1. e \in Entries /\ e.active = 0
    BY CountAssumption DEF Entries
  <2>2. m2 = SetEntry(k, b, e)
    BY <1>2, Zenon DEF touch_backend
  <2>3. /\ k \in Monitors /\ k.backends = m.backends /\ Queued(k, b)
        /\ \A x : Queued(m, x) => Queued(k, x)
    BY EnqueueFacts, Zenon
  <2> HIDE DEF e, k
  <2>4. /\ m2 \in Monitors /\ m2.queue = k.queue /\ m2.backends[b] = e
        /\ DOMAIN m2.backends = DOMAIN k.backends \cup {b}
        /\ \A x \in DOMAIN k.backends : x # b => m2.backends[x] = k.backends[x]
    BY <2>1, <2>2, <2>3, SetEntryFacts
  <2>5. \A x : Queued(k, x) => Queued(m2, x)
    BY <2>4, Zenon DEF Queued
  <2>6. \A x \in DOMAIN m.backends : x # b
    BY <1>2, Zenon DEF HasEntry
  <2> QED  BY <2>1, <2>3, <2>4, <2>5, <2>6, Zenon
<1> QED  BY <1>1, <1>2, Zenon

\* inc_connection counts one more.
LEMMA IncFacts ==
  ASSUME NEW m \in Monitors, NEW b \in Backends, 1 < CountBound,
         NEW m2, m2 = inc_connection(m, b, 0)
  PROVE  /\ m2 \in Monitors
         /\ DOMAIN m2.backends = DOMAIN m.backends \cup {b}
         /\ \A x \in DOMAIN m.backends : x # b => m2.backends[x].active = m.backends[x].active
         /\ m2.backends[b].active =
              IF HasEntry(m, b) THEN (m.backends[b].active + 1) % CountBound ELSE 1
         /\ ~HasEntry(m, b) => Queued(m2, b)
         /\ \A x : Queued(m, x) => Queued(m2, x)
<1>1. CASE HasEntry(m, b)
  <2> DEFINE n == (m.backends[b].active + 1) % CountBound
             e == [active |-> n, recent |-> TRUE]
  <2>1. b \in DOMAIN m.backends
    BY <1>1, Zenon DEF HasEntry
  <2>2. m.backends[b].active \in 0 .. CountBound - 1
    BY <2>1, ActiveType, Zenon
  <2>3. n \in 0 .. CountBound - 1
    BY <2>2, CountAssumption
  <2>4. m2 = [m EXCEPT !.backends[b] = e]
    BY <1>1, Zenon DEF inc_connection
  <2> HIDE DEF n
  <2>a. e \in Entries /\ e.active = n
    BY <2>3, Zenon DEF Entries
  <2> HIDE DEF e
  <2>5. m2 = SetEntry(m, b, e)
    BY <2>1, <2>4, ExceptEntry, Zenon
  <2>6. /\ m2 \in Monitors /\ m2.queue = m.queue /\ m2.backends[b] = e
        /\ DOMAIN m2.backends = DOMAIN m.backends \cup {b}
        /\ \A x \in DOMAIN m.backends : x # b => m2.backends[x] = m.backends[x]
    BY <2>a, <2>5, SetEntryFacts
  <2> QED  BY <1>1, <2>a, <2>6, Zenon DEF Queued, n
<1>2. CASE ~HasEntry(m, b)
  <2> DEFINE e == [active |-> 1, recent |-> TRUE]
             k == Enqueue(m, b, 0)
  <2>1. e \in Entries /\ e.active = 1
    BY CountAssumption DEF Entries
  <2>2. m2 = SetEntry(k, b, e)
    BY <1>2, Zenon DEF inc_connection
  <2>3. /\ k \in Monitors /\ k.backends = m.backends /\ Queued(k, b)
        /\ \A x : Queued(m, x) => Queued(k, x)
    BY EnqueueFacts, Zenon
  <2> HIDE DEF e, k
  <2>4. /\ m2 \in Monitors /\ m2.queue = k.queue /\ m2.backends[b] = e
        /\ DOMAIN m2.backends = DOMAIN k.backends \cup {b}
        /\ \A x \in DOMAIN k.backends : x # b => m2.backends[x] = k.backends[x]
    BY <2>1, <2>2, <2>3, SetEntryFacts
  <2>5. \A x : Queued(k, x) => Queued(m2, x)
    BY <2>4, Zenon DEF Queued
  <2> QED  BY <1>2, <2>1, <2>3, <2>4, <2>5, Zenon
<1> QED  BY <1>1, <1>2, Zenon

\* dec_connection counts one less, when there is an entry.
LEMMA DecFacts ==
  ASSUME NEW m \in Monitors, NEW b, NEW m2, m2 = dec_connection(m, b)
  PROVE  /\ m2 \in Monitors /\ m2.queue = m.queue
         /\ DOMAIN m2.backends = DOMAIN m.backends
         /\ \A x \in DOMAIN m.backends : x # b => m2.backends[x].active = m.backends[x].active
         /\ HasEntry(m, b) => m2.backends[b].active = (m.backends[b].active - 1) % CountBound
<1>1. CASE HasEntry(m, b)
  <2> DEFINE n == (m.backends[b].active - 1) % CountBound
             e == [m.backends[b] EXCEPT !.active = n]
  <2>1. b \in DOMAIN m.backends /\ b \in Backends
    BY <1>1, MonitorParts, Zenon DEF HasEntry
  <2>2. m.backends[b].active \in 0 .. CountBound - 1 /\ m.backends[b] \in Entries
    BY <2>1, ActiveType, Zenon
  <2>3. n \in 0 .. CountBound - 1
    BY <2>2, CountAssumption
  <2>4. m2 = [m EXCEPT !.backends[b] = e]
    BY <1>1, Zenon DEF dec_connection
  <2> HIDE DEF n
  <2>a. e \in Entries /\ e.active = n
    BY <2>2, <2>3, Zenon DEF Entries
  <2> HIDE DEF e
  <2>5. m2 = SetEntry(m, b, e)
    BY <2>1, <2>4, ExceptEntry, Zenon
  <2>6. /\ m2 \in Monitors /\ m2.queue = m.queue /\ m2.backends[b] = e
        /\ DOMAIN m2.backends = DOMAIN m.backends \cup {b}
        /\ \A x \in DOMAIN m.backends : x # b => m2.backends[x] = m.backends[x]
    BY <2>1, <2>a, <2>5, SetEntryFacts
  <2>7. DOMAIN m2.backends = DOMAIN m.backends
    BY <2>1, <2>6, Zenon
  <2> QED  BY <2>a, <2>6, <2>7, Zenon DEF n
<1>2. CASE ~HasEntry(m, b)
  BY <1>2, Zenon DEF dec_connection
<1> QED  BY <1>1, <1>2, Zenon


\* A visit drops no entry that counts a connection, changes no count, and leaves
\* every entry that it keeps with a visit.
LEMMA VisitFacts ==
  ASSUME NEW m \in Monitors, m.queue # <<>>, NEW m2, m2 = Visit(m, 0)
  PROVE  /\ m2 \in Monitors /\ Head(m.queue).backend \in Backends
         /\ \A x \in DOMAIN m2.backends :
              /\ x \in DOMAIN m.backends /\ m2.backends[x].active = m.backends[x].active
              /\ Queued(m, x) => Queued(m2, x)
         /\ \A x \in DOMAIN m.backends :
              x \notin DOMAIN m2.backends => m.backends[x].active = 0
<1> DEFINE v == Head(m.queue)
           b == v.backend
           rest == PutQueue(m, Tail(m.queue))
<1>1. m.queue \in Seq(Visits)
  BY MonitorParts, Zenon
<1>2. Tail(m.queue) \in Seq(Visits) /\ v \in Visits
  BY <1>1, TailFacts, Zenon
<1>3. Range(m.queue) = Range(Tail(m.queue)) \cup {v}
  BY <1>1, RangeTail, Zenon
<1>4. b \in Backends
  BY <1>2, Zenon DEF Visits
<1>5. rest \in Monitors /\ rest.backends = m.backends /\ rest.queue = Tail(m.queue)
  BY <1>2, WithQueue, Zenon
<1>6. \A x : Queued(m, x) /\ x # b => Queued(rest, x)
  <2> TAKE x
  <2> HAVE Queued(m, x) /\ x # b
  <2>1. PICK w \in Range(m.queue) : w.backend = x
    BY Zenon DEF Queued
  <2>2. w \in Range(Tail(m.queue))
    BY <1>3, <2>1, Zenon
  <2> QED  BY <1>5, <2>1, <2>2, Zenon DEF Queued
<1>7. CASE InUse(m, b)
  <2> DEFINE e == [m.backends[b] EXCEPT !.recent = FALSE]
             k == [rest EXCEPT !.backends[b] = e]
  <2>1. b \in DOMAIN m.backends
    BY <1>7, Zenon DEF InUse, HasEntry
  <2>2. m.backends[b] \in Entries
    BY <2>1, ActiveType, Zenon
  <2>3. e \in Entries /\ e.active = m.backends[b].active
    BY <2>2, Zenon DEF Entries
  <2>4. m2 = Enqueue(k, b, 0)
    BY <1>5, <1>7, Zenon DEF Visit, PutQueue
  <2> HIDE DEF e, rest, b
  <2>5. k = SetEntry(rest, b, e)
    BY <1>5, <2>1, ExceptEntry, Zenon
  <2> HIDE DEF k
  <2>6. /\ k \in Monitors /\ k.queue = rest.queue /\ k.backends[b] = e
        /\ DOMAIN k.backends = DOMAIN m.backends \cup {b}
        /\ \A x \in DOMAIN m.backends : x # b => k.backends[x] = m.backends[x]
    BY <1>4, <1>5, <2>3, <2>5, SetEntryFacts
  <2>7. DOMAIN k.backends = DOMAIN m.backends
    BY <2>1, <2>6, Zenon
  <2>8. /\ m2 \in Monitors /\ m2.backends = k.backends /\ Queued(m2, b)
        /\ \A x : Queued(k, x) => Queued(m2, x)
    <3>1. k \in Monitors
      BY <2>6, Zenon
    <3>2. /\ Enqueue(k, b, 0) \in Monitors /\ Enqueue(k, b, 0).backends = k.backends
          /\ Queued(Enqueue(k, b, 0), b)
          /\ \A x : Queued(k, x) => Queued(Enqueue(k, b, 0), x)
      BY <1>4, <3>1, EnqueueFacts, Zenon
    <3> QED  BY <2>4, <3>2, Zenon
  <2>9. \A x : Queued(rest, x) => Queued(k, x)
    BY <2>6, Zenon DEF Queued
  <2>10. \A x \in DOMAIN m.backends : m2.backends[x].active = m.backends[x].active
    BY <2>3, <2>6, <2>8, Zenon
  <2>11. \A x : Queued(m, x) => Queued(m2, x)
    BY <1>6, <2>8, <2>9, Zenon
  <2> QED  BY <1>4, <2>7, <2>8, <2>10, <2>11, Zenon DEF b
<1>8. CASE ~InUse(m, b)
  <2>1. m2 = DropEntry(rest, b)
    BY <1>8, Zenon DEF Visit, PutQueue
  <2> HIDE DEF rest, b
  <2>2. /\ m2 \in Monitors /\ m2.queue = rest.queue
        /\ DOMAIN m2.backends = DOMAIN m.backends \ {b}
        /\ \A x \in DOMAIN m.backends \ {b} : m2.backends[x] = m.backends[x]
    BY <1>5, <2>1, DropEntryFacts
  <2>3. \A x : Queued(rest, x) => Queued(m2, x)
    BY <2>2, Zenon DEF Queued
  <2>4. \A x \in DOMAIN m2.backends : x \in DOMAIN m.backends /\ x # b
    BY <2>2, Zenon
  <2>5. b \in DOMAIN m.backends => m.backends[b].active = 0
    <3> HAVE b \in DOMAIN m.backends
    <3>1. ~(m.backends[b].active > 0)
      BY <1>8, Zenon DEF InUse, HasEntry
    <3>2. m.backends[b].active \in 0 .. CountBound - 1
      BY ActiveType, Zenon
    <3> QED  BY <3>1, <3>2, CountAssumption
  <2>6. \A x \in DOMAIN m.backends : x \notin DOMAIN m2.backends => x = b
    BY <2>2, Zenon
  <2> QED  BY <1>4, <1>6, <2>2, <2>3, <2>4, <2>5, <2>6, Zenon DEF b
<1> QED  BY <1>7, <1>8, Zenon


-----------------------------------------------------------------------------
(* The inductive invariant *)

\* A handler that looks a route up, or has looked it up, does so for a token.
HandlerTokens ==
  \A h \in Handlers :
    handler[h].at \in {"missed", "listening", "waiting", "answered"}
      => handler[h].token \in Tokens

\* What the controller may say of a token: its backend, or, when that has ended, None.
Justified(t, r) ==
  /\ r \in {None, Target[t]}
  /\ r = None => status[Target[t]] \in Ended

RoutesJustified == \A e \in Range(routes) : Justified(e.token, e.route)

\* A removal is announced only for a backend that is terminated.
MessageJustified(m) ==
  /\ m.type = "response" => Justified(m.token, m.route)
  /\ m.type = "removed" => status[m.backend] = "terminated"

MessagesJustified == \A m \in Range(toProxy) : MessageJustified(m)

RemovalsJustified == \A b \in removals : status[b] = "terminated"

\* The notifications of a task that has not read them are true and say something.
TaskJustified(k) ==
  \A s \in Range(k.states) :
    s # "pending" /\ (s \in Ended => status[Target[k.token]] \in Ended)

TasksJustified ==
  /\ \A k \in Range(handling) : TaskJustified(k)
  /\ \A k \in Range(waiting) : TaskJustified(k)

RoutesInv == RoutesJustified /\ MessagesJustified /\ RemovalsJustified /\ TasksJustified

IInv ==
  TypeOK /\ HandlerTokens /\ ChannelKept /\ GoneJustified /\ RoutesInv /\ KeptAlive

-----------------------------------------------------------------------------
(* The handlers *)

\* The values a step gives a handler.
Answered(t, r, why) == [Idle EXCEPT !.at = "answered", !.token = t, !.route = r, !.why = why]
Missed(t) == [Idle EXCEPT !.at = "missed", !.token = t]
Opened(b) == [Idle EXCEPT !.at = "open", !.route = b]
Listening(k) == [k EXCEPT !.at = "listening"]
Awaiting(k, lost) == [k EXCEPT !.at = "waiting", !.lost = lost]
Woken(k) == [k EXCEPT !.woken = TRUE]
Unanswered(k) == [k EXCEPT !.lost = TRUE]

\* A handler's fields but the one that says its request is lost.
SameRequest(k, old) ==
  /\ k.at = old.at /\ k.token = old.token /\ k.route = old.route
  /\ k.woken = old.woken /\ k.why = old.why

\* Why a handler has an answer.
Whys == {"cached", "unconnected", "evicted"}

\* What those values are.
LEMMA AnsweredRecord ==
  ASSUME NEW t \in Tokens, NEW r \in Routes, NEW w \in Whys
  PROVE  /\ Answered(t, r, w) \in HandlerStates
         /\ Answered(t, r, w).at = "answered" /\ Answered(t, r, w).token = t
         /\ Answered(t, r, w).route = r /\ Answered(t, r, w).why = w
  BY Zenon DEF Idle, HandlerStates, Answered, Whys

\* The reasons a lookup gives for its answer are known ones.
LEMMA WhysAre == "cached" \in Whys /\ "unconnected" \in Whys /\ "evicted" \in Whys
  BY Zenon DEF Whys

\* The records a handler is set to when it ends, misses or opens have their type and fields.
LEMMA Records ==
  /\ Idle \in HandlerStates /\ Idle.at = "idle"
  /\ \A t \in Tokens :
       Missed(t) \in HandlerStates /\ Missed(t).at = "missed" /\ Missed(t).token = t
  /\ \A b \in Backends :
       Opened(b) \in HandlerStates /\ Opened(b).at = "open" /\ Opened(b).route = b
<1>1. Idle \in HandlerStates /\ Idle.at = "idle"
  BY Zenon DEF Idle, HandlerStates, Routes
<1>2. \A t \in Tokens :
        Missed(t) \in HandlerStates /\ Missed(t).at = "missed" /\ Missed(t).token = t
  BY Zenon DEF Idle, HandlerStates, Missed, Routes
<1>3. \A b \in Backends :
        Opened(b) \in HandlerStates /\ Opened(b).at = "open" /\ Opened(b).route = b
  BY Zenon DEF Idle, HandlerStates, Opened, Routes
<1> QED  BY <1>1, <1>2, <1>3, Zenon

\* What becomes of a handler that is somewhere already.
LEMMA Changes ==
  ASSUME NEW k \in HandlerStates
  PROVE  /\ /\ Listening(k) \in HandlerStates /\ Listening(k).at = "listening"
            /\ Listening(k).token = k.token /\ Listening(k).woken = k.woken
         /\ \A lost \in BOOLEAN :
              /\ Awaiting(k, lost) \in HandlerStates /\ Awaiting(k, lost).at = "waiting"
              /\ Awaiting(k, lost).token = k.token /\ Awaiting(k, lost).woken = k.woken
         /\ /\ Woken(k) \in HandlerStates /\ Woken(k).woken = TRUE /\ Woken(k).at = k.at
            /\ Woken(k).token = k.token /\ Woken(k).route = k.route /\ Woken(k).why = k.why
         /\ Unanswered(k) \in HandlerStates /\ SameRequest(Unanswered(k), k)
<1>1. /\ Listening(k) \in HandlerStates /\ Listening(k).at = "listening"
      /\ Listening(k).token = k.token /\ Listening(k).woken = k.woken
  BY Zenon DEF HandlerStates, Listening
<1>2. \A lost \in BOOLEAN :
        /\ Awaiting(k, lost) \in HandlerStates /\ Awaiting(k, lost).at = "waiting"
        /\ Awaiting(k, lost).token = k.token /\ Awaiting(k, lost).woken = k.woken
  BY Zenon DEF HandlerStates, Awaiting
<1>3. /\ Woken(k) \in HandlerStates /\ Woken(k).woken = TRUE /\ Woken(k).at = k.at
      /\ Woken(k).token = k.token /\ Woken(k).route = k.route /\ Woken(k).why = k.why
  BY Zenon DEF HandlerStates, Woken
<1>4. Unanswered(k) \in HandlerStates /\ SameRequest(Unanswered(k), k)
  BY Zenon DEF HandlerStates, Unanswered, SameRequest
<1> QED  BY <1>1, <1>2, <1>3, <1>4, Zenon

\* Set changes one handler.
LEMMA SetFacts ==
  ASSUME handler \in [Handlers -> HandlerStates], NEW h \in Handlers,
         NEW rec \in HandlerStates, Set(h, rec)
  PROVE  /\ handler' \in [Handlers -> HandlerStates] /\ handler'[h] = rec
         /\ \A g \in Handlers : g # h => handler'[g] = handler[g]
  BY Zenon DEF Set

\* A handler may go where the invariant lets it go.
LEMMA OneHandler ==
  ASSUME TypeOK, HandlerTokens, ChannelKept, GoneJustified,
         NEW h \in Handlers, NEW rec \in HandlerStates, Set(h, rec),
         status' = status, listeners \subseteq listeners',
         rec.at \in {"missed", "listening", "waiting", "answered"} => rec.token \in Tokens,
         rec.at \in {"listening", "waiting"} /\ ~rec.woken => rec.token \in listeners',
         rec.at = "answered" /\ rec.route = None /\ rec.why = "cached"
           => status[Target[rec.token]] \in Ended
  PROVE  /\ handler' \in [Handlers -> HandlerStates]
         /\ HandlerTokens' /\ ChannelKept' /\ GoneJustified'
<1>1. /\ handler' \in [Handlers -> HandlerStates] /\ handler'[h] = rec
      /\ \A g \in Handlers : g # h => handler'[g] = handler[g]
  BY SetFacts, Zenon DEF TypeOK
<1>2. HandlerTokens'
  BY <1>1, Zenon DEF HandlerTokens
<1>3. ChannelKept'
  BY <1>1, Zenon DEF ChannelKept
<1>4. GoneJustified'
  BY <1>1, Zenon DEF GoneJustified
<1> QED  BY <1>1, <1>2, <1>3, <1>4, Zenon

\* Nor does it matter whether a request is lost.
LEMMA SameHandlers ==
  ASSUME HandlerTokens, ChannelKept, GoneJustified,
         \A g \in Handlers : SameRequest(handler'[g], handler[g]),
         status' = status, listeners \subseteq listeners'
  PROVE  HandlerTokens' /\ ChannelKept' /\ GoneJustified'
<1>2. HandlerTokens'
  BY Zenon DEF HandlerTokens, SameRequest
<1>3. ChannelKept'
  BY Zenon DEF ChannelKept, SameRequest
<1>4. GoneJustified'
  BY Zenon DEF GoneJustified, SameRequest
<1> QED  BY <1>2, <1>3, <1>4, Zenon

\* The open connections of a backend.
OpenTo(b) == {h \in Handlers : handler[h].at = "open" /\ handler[h].route = b}

CountedAt(b) ==
  status[b] # "terminated" =>
    /\ OpenTo(b) # {} => HasEntry(monitor, b)
    /\ HasEntry(monitor, b) =>
         monitor.backends[b].active = Cardinality(OpenTo(b)) /\ Queued(monitor, b)

\* The invariant about the monitor, one backend at a time.
LEMMA KeptIsCounted == KeptAlive <=> \A b \in Backends : CountedAt(b)
<1>1. \A b : (\E i \in DOMAIN monitor.queue : monitor.queue[i].backend = b) <=> Queued(monitor, b)
  BY Zenon DEF Queued, Range
<1> QED  BY <1>1, Zenon DEF KeptAlive, CountedAt, OpenTo

\* The same after a step.
LEMMA KeptIsCountedNext == (\A b \in Backends : CountedAt(b)') => KeptAlive'
<1>1. \A b : (\E i \in DOMAIN monitor'.queue : monitor'.queue[i].backend = b) <=> Queued(monitor', b)
  BY Zenon DEF Queued, Range
<1> QED  BY <1>1, Zenon DEF KeptAlive, CountedAt, OpenTo

\* A step that leaves the monitor and the open connections keeps the count.
LEMMA KeptSame ==
  ASSUME KeptAlive, monitor' = monitor,
         \A b \in Backends : status'[b] # "terminated" => status[b] # "terminated",
         \A g \in Handlers : /\ handler'[g].at = "open" <=> handler[g].at = "open"
                             /\ handler[g].at = "open" => handler'[g].route = handler[g].route
  PROVE  KeptAlive'
<1> SUFFICES ASSUME NEW b \in Backends PROVE CountedAt(b)'
  BY KeptIsCountedNext, Zenon
<1>1. CountedAt(b)
  BY KeptIsCounted, Zenon
<1>2. OpenTo(b)' = OpenTo(b)
  BY Zenon DEF OpenTo
<1> QED  BY <1>1, <1>2, Zenon DEF CountedAt


\* While no status changes, what is added must be justified and the rest still is.
LEMMA StillJustified ==
  ASSUME RoutesInv, status' = status,
         \A e \in Range(routes') : e \in Range(routes) \/ Justified(e.token, e.route),
         \A m \in Range(toProxy') : m \in Range(toProxy) \/ MessageJustified(m),
         \A b \in removals' : b \in removals,
         \A k \in Range(handling') : k \in Range(handling) \/ TaskJustified(k),
         \A k \in Range(waiting') : k \in Range(waiting) \/ TaskJustified(k)
  PROVE  RoutesInv'
<1>1. /\ RoutesJustified /\ MessagesJustified /\ RemovalsJustified
      /\ \A k \in Range(handling) : TaskJustified(k)
      /\ \A k \in Range(waiting) : TaskJustified(k)
  BY Zenon DEF RoutesInv, TasksJustified
<1>2. RoutesJustified'
  BY <1>1, Zenon DEF RoutesJustified, Justified
<1>3. MessagesJustified'
  BY <1>1, Zenon DEF MessagesJustified, MessageJustified, Justified
<1>4. RemovalsJustified'
  BY <1>1, Zenon DEF RemovalsJustified
<1>5. \A k \in Range(handling') : TaskJustified(k)'
  BY <1>1, Zenon DEF TaskJustified
<1>6. \A k \in Range(waiting') : TaskJustified(k)'
  BY <1>1, Zenon DEF TaskJustified
<1>7. TasksJustified'
  BY <1>5, <1>6, Zenon DEF TasksJustified
<1> QED  BY <1>2, <1>3, <1>4, <1>7, Zenon DEF RoutesInv

\* An answer from the cache is justified.
LEMMA CachedAnswer ==
  ASSUME TypeOK, RoutesInv, NEW t \in Tokens, Cached(t)
  PROVE  /\ Entry(t).route \in Routes
         /\ Entry(t).route = None => status[Target[t]] \in Ended
         /\ Get(t) \in Seq(RouteEntries) /\ Len(Get(t)) <= CacheSize
         /\ Range(Get(t)) \subseteq Range(routes)
<1>1. /\ Entry(t) \in Range(routes) /\ Entry(t) \in RouteEntries /\ Entry(t).token = t
  BY EntryFacts, Zenon
<1>2. Justified(t, Entry(t).route)
  BY <1>1, Zenon DEF RoutesInv, RoutesJustified
<1>3. Entry(t).route \in Routes
  BY <1>1, Zenon DEF RouteEntries
<1>4. /\ Get(t) \in Seq(RouteEntries) /\ Len(Get(t)) <= CacheSize
      /\ Range(Get(t)) \subseteq Range(routes) \cup {Entry(t)}
  BY <1>1, ToFrontFacts, Zenon DEF Get
<1>5. Range(Get(t)) \subseteq Range(routes)
  BY <1>1, <1>4, Zenon
<1> QED  BY <1>2, <1>3, <1>4, <1>5, Zenon DEF Justified

-----------------------------------------------------------------------------
(* The steps of a lookup and of its request *)

\* RouteMap::lookup, finding the token in the cache or not, keeps the invariant.
LEMMA LookupStep ==
  ASSUME IInv, NEW h \in Handlers, NEW t \in Tokens, Lookup(h, t)
  PROVE  IInv'
<1>1. /\ handler[h].at = "idle" /\ status' = status /\ listeners' = listeners
      /\ monitor' = monitor /\ toProxy' = toProxy /\ removals' = removals
      /\ handling' = handling /\ waiting' = waiting
  BY Zenon DEF Lookup, database, controller, links
<1>2. PICK rec \in HandlerStates :
         /\ Set(h, rec) /\ rec.at \in {"missed", "answered"} /\ rec.token = t
         /\ rec.at = "answered" /\ rec.route = None => status[Target[t]] \in Ended
         /\ routes' \in Seq(RouteEntries) /\ Len(routes') <= CacheSize
         /\ Range(routes') \subseteq Range(routes)
  <2>1. CASE Cached(t)
    <3>1. Set(h, Answered(t, Entry(t).route, "cached")) /\ routes' = Get(t)
      BY <2>1, Zenon DEF Lookup, Answer, Answered
    <3>2. /\ Entry(t).route \in Routes
          /\ Entry(t).route = None => status[Target[t]] \in Ended
          /\ Get(t) \in Seq(RouteEntries) /\ Len(Get(t)) <= CacheSize
          /\ Range(Get(t)) \subseteq Range(routes)
      BY <2>1, CachedAnswer, Zenon DEF IInv
    <3> DEFINE rec == Answered(t, Entry(t).route, "cached")
    <3>3. /\ rec \in HandlerStates /\ rec.at = "answered" /\ rec.token = t
          /\ rec.route = Entry(t).route
      BY <3>2, AnsweredRecord, WhysAre
    <3> HIDE DEF rec
    <3> QED  BY <3>1, <3>2, <3>3, Zenon DEF rec
  <2>2. CASE ~Cached(t)
    <3>1. Set(h, Missed(t)) /\ routes' = routes
      BY <2>2, Zenon DEF Lookup, Missed
    <3>2. Missed(t) \in HandlerStates /\ Missed(t).at = "missed" /\ Missed(t).token = t
      BY Records, Zenon
    <3>3. routes \in Seq(RouteEntries) /\ Len(routes) <= CacheSize
      BY Zenon DEF IInv, TypeOK, RouteEntries
    <3> QED  BY <3>1, <3>2, <3>3, Zenon
  <2> QED  BY <2>1, <2>2, Zenon
<1>3. /\ handler' \in [Handlers -> HandlerStates]
      /\ HandlerTokens' /\ ChannelKept' /\ GoneJustified'
  BY <1>1, <1>2, OneHandler, Zenon DEF IInv
<1>4. TypeOK'
  BY <1>2, <1>3, Zenon DEF IInv, TypeOK, RouteEntries, Lookup, database, controller, links
<1>5. RoutesInv'
  BY <1>1, <1>2, StillJustified, Zenon DEF IInv
<1>6. KeptAlive'
  <2>1. handler'[h] = rec /\ \A g \in Handlers : g # h => handler'[g] = handler[g]
    BY <1>2, SetFacts, Zenon DEF IInv, TypeOK
  <2> QED  BY <1>1, <1>2, <2>1, KeptSame, Zenon DEF IInv
<1> QED  BY <1>3, <1>4, <1>5, <1>6, Zenon DEF IInv


\* Making a watch channel for a token keeps the invariant.
LEMMA ListenStep ==
  ASSUME IInv, NEW h \in Handlers, Listen(h)
  PROVE  IInv'
<1> DEFINE rec == Listening(handler[h])
<1>1. /\ handler[h].at = "missed" /\ status' = status /\ monitor' = monitor
      /\ listeners' = listeners \cup {handler[h].token}
      /\ routes' = routes /\ toProxy' = toProxy /\ removals' = removals
      /\ handling' = handling /\ waiting' = waiting /\ Set(h, rec)
  BY Zenon DEF Listen, database, controller, links, Listening
<1>2. handler[h] \in HandlerStates
  BY Zenon DEF IInv, TypeOK
<1>3. /\ rec \in HandlerStates /\ rec.at = "listening" /\ rec.token = handler[h].token
  BY <1>2, Changes, Zenon
<1>4. handler[h].token \in Tokens
  BY <1>1, Zenon DEF IInv, HandlerTokens
<1> HIDE DEF rec
<1>5. /\ listeners \subseteq listeners' /\ rec.token \in listeners' /\ listeners' \subseteq Tokens
  BY <1>1, <1>3, <1>4, Zenon DEF IInv, TypeOK
<1>6. /\ handler' \in [Handlers -> HandlerStates]
      /\ HandlerTokens' /\ ChannelKept' /\ GoneJustified'
  BY <1>1, <1>3, <1>4, <1>5, OneHandler, Zenon DEF IInv
<1>7. TypeOK'
  BY <1>5, <1>6, Zenon DEF IInv, TypeOK, Listen, database, controller, links
<1>8. RoutesInv'
  BY <1>1, StillJustified, Zenon DEF IInv
<1>9. KeptAlive'
  <2>1. handler'[h] = rec /\ \A g \in Handlers : g # h => handler'[g] = handler[g]
    BY <1>1, <1>3, SetFacts, Zenon DEF IInv, TypeOK
  <2> QED  BY <1>1, <1>3, <2>1, KeptSame, Zenon DEF IInv
<1> QED  BY <1>6, <1>7, <1>8, <1>9, Zenon DEF IInv

\* Sending the request for a route, or finding no sender, keeps the invariant.
LEMMA RequestStep ==
  ASSUME IInv, NEW h \in Handlers, Request(h)
  PROVE  IInv'
<1> DEFINE t == handler[h].token
<1>1. /\ handler[h].at = "listening" /\ status' = status /\ listeners' = listeners
      /\ monitor' = monitor /\ toProxy' = toProxy /\ removals' = removals
      /\ handling' = handling /\ waiting' = waiting /\ routes' = routes
  BY Zenon DEF Request, database, controller, routeMap
<1>2. handler[h] \in HandlerStates /\ t \in Tokens /\ connected \in BOOLEAN
  BY <1>1, Zenon DEF IInv, TypeOK, HandlerTokens
<1>3. PICK rec \in HandlerStates :
         /\ Set(h, rec) /\ rec.token = t
         /\ \/ rec.at = "answered" /\ rec.why = "unconnected"
            \/ rec.at = "waiting" /\ rec.woken = handler[h].woken
         /\ toController' \in Seq(ToController)
  <2>1. toController \in Seq(ToController)
    BY Zenon DEF IInv, TypeOK
  <2>2. CASE ~sender
    <3>1. Set(h, Answered(t, None, "unconnected")) /\ toController' = toController
      BY <2>2, Zenon DEF Request, Answer, Answered
    <3>2. None \in Routes
      BY Zenon DEF Routes
    <3>3. /\ Answered(t, None, "unconnected") \in HandlerStates
          /\ Answered(t, None, "unconnected").at = "answered"
          /\ Answered(t, None, "unconnected").token = t
          /\ Answered(t, None, "unconnected").why = "unconnected"
      BY <1>2, <3>2, AnsweredRecord, WhysAre
    <3> QED  BY <2>1, <3>1, <3>3, Zenon
  <2>3. CASE sender
    <3> DEFINE rec == Awaiting(handler[h], ~connected)
    <3>1. Set(h, rec) /\ toController' = Send(toController, RouteRequest(t))
      BY <2>3, Zenon DEF Request, Awaiting
    <3>2. (~connected) \in BOOLEAN
      BY Zenon
    <3>3. /\ rec \in HandlerStates /\ rec.at = "waiting" /\ rec.token = t
          /\ rec.woken = handler[h].woken
      BY <1>2, <3>2, Changes, Zenon
    <3>4. RouteRequest(t) \in ToController
      BY <1>2, MessageTypes, Zenon
    <3>5. toController' \in Seq(ToController)
      BY <2>1, <3>1, <3>4, SendType, Zenon
    <3> HIDE DEF rec
    <3> QED  BY <3>1, <3>3, <3>5, Zenon DEF rec
  <2> QED  BY <2>2, <2>3, Zenon
<1>4. handler[h].woken \/ t \in listeners
  BY <1>1, Zenon DEF IInv, ChannelKept
<1>5. rec.at \in {"listening", "waiting"} /\ ~rec.woken => rec.token \in listeners'
  BY <1>1, <1>3, <1>4, Zenon
<1>6. /\ handler' \in [Handlers -> HandlerStates]
      /\ HandlerTokens' /\ ChannelKept' /\ GoneJustified'
  BY <1>1, <1>2, <1>3, <1>5, OneHandler, Zenon DEF IInv
<1>7. TypeOK'
  BY <1>3, <1>6, Zenon DEF IInv, TypeOK, Request, database, controller, routeMap
<1>8. RoutesInv'
  BY <1>1, StillJustified, Zenon DEF IInv
<1>9. KeptAlive'
  <2>1. handler'[h] = rec /\ \A g \in Handlers : g # h => handler'[g] = handler[g]
    BY <1>3, SetFacts, Zenon DEF IInv, TypeOK
  <2> QED  BY <1>1, <1>3, <2>1, KeptSame, Zenon DEF IInv
<1> QED  BY <1>6, <1>7, <1>8, <1>9, Zenon DEF IInv

\* Reading the cache after the signal keeps the invariant.
LEMMA RereadStep ==
  ASSUME IInv, NEW h \in Handlers, Reread(h)
  PROVE  IInv'
<1> DEFINE t == handler[h].token
<1>1. /\ handler[h].at = "waiting" /\ status' = status /\ listeners' = listeners
      /\ monitor' = monitor /\ toProxy' = toProxy /\ removals' = removals
      /\ handling' = handling /\ waiting' = waiting
  BY Zenon DEF Reread, database, controller, links
<1>2. t \in Tokens
  BY <1>1, Zenon DEF IInv, HandlerTokens
<1>3. PICK rec \in HandlerStates :
         /\ Set(h, rec) /\ rec.at = "answered" /\ rec.token = t
         /\ rec.route = None /\ rec.why = "cached" => status[Target[t]] \in Ended
         /\ routes' \in Seq(RouteEntries) /\ Len(routes') <= CacheSize
         /\ Range(routes') \subseteq Range(routes)
  <2>1. CASE Cached(t)
    <3> DEFINE rec == Answered(t, Entry(t).route, "cached")
    <3>1. Set(h, rec) /\ routes' = Get(t)
      BY <2>1, Zenon DEF Reread, Answer, Answered
    <3>2. /\ Entry(t).route \in Routes
          /\ Entry(t).route = None => status[Target[t]] \in Ended
          /\ Get(t) \in Seq(RouteEntries) /\ Len(Get(t)) <= CacheSize
          /\ Range(Get(t)) \subseteq Range(routes)
      BY <1>2, <2>1, CachedAnswer, Zenon DEF IInv
    <3>3. /\ rec \in HandlerStates /\ rec.at = "answered" /\ rec.token = t
          /\ rec.route = Entry(t).route
      BY <1>2, <3>2, AnsweredRecord, WhysAre
    <3> HIDE DEF rec
    <3> QED  BY <3>1, <3>2, <3>3, Zenon DEF rec
  <2>2. CASE ~Cached(t)
    <3> DEFINE rec == Answered(t, None, "evicted")
    <3>1. Set(h, rec) /\ routes' = routes
      BY <2>2, Zenon DEF Reread, Answer, Answered
    <3>2. None \in Routes
      BY Zenon DEF Routes
    <3>3. /\ rec \in HandlerStates /\ rec.at = "answered" /\ rec.token = t
          /\ rec.why = "evicted"
      BY <1>2, <3>2, AnsweredRecord, WhysAre
    <3>4. routes \in Seq(RouteEntries) /\ Len(routes) <= CacheSize
      BY Zenon DEF IInv, TypeOK, RouteEntries
    <3> HIDE DEF rec
    <3> QED  BY <3>1, <3>3, <3>4, Zenon
  <2> QED  BY <2>1, <2>2, Zenon
<1>4. /\ handler' \in [Handlers -> HandlerStates]
      /\ HandlerTokens' /\ ChannelKept' /\ GoneJustified'
  BY <1>1, <1>2, <1>3, OneHandler, Zenon DEF IInv
<1>5. TypeOK'
  BY <1>3, <1>4, Zenon DEF IInv, TypeOK, RouteEntries, Reread, database, controller, links
<1>6. RoutesInv'
  BY <1>1, <1>3, StillJustified, Zenon DEF IInv
<1>7. KeptAlive'
  <2>1. handler'[h] = rec /\ \A g \in Handlers : g # h => handler'[g] = handler[g]
    BY <1>3, SetFacts, Zenon DEF IInv, TypeOK
  <2> QED  BY <1>1, <1>3, <2>1, KeptSame, Zenon DEF IInv
<1> QED  BY <1>4, <1>5, <1>6, <1>7, Zenon DEF IInv


\* Counting one more connection does not overflow.
LEMMA CountUp ==
  ASSUME NEW S \in SUBSET Handlers, NEW h \in Handlers, h \notin S
  PROVE  /\ 1 < CountBound
         /\ Cardinality(S \cup {h}) = (Cardinality(S) + 1) % CountBound
         /\ S = {} => Cardinality(S \cup {h}) = 1
<1>1. IsFiniteSet(S) /\ IsFiniteSet(Handlers) /\ Cardinality(Handlers) < CountBound
  BY HandlersAssumption, FS_Subset, Zenon
<1>2. Cardinality(S) \in Nat /\ Cardinality(Handlers) \in Nat
  BY <1>1, FS_CardinalityType, Zenon
<1>3. Cardinality(S \cup {h}) = Cardinality(S) + 1
  BY <1>1, FS_AddElement, Zenon
<1>4. S \cup {h} \in SUBSET Handlers
  BY Zenon
<1>5. Cardinality(S \cup {h}) <= Cardinality(Handlers)
  BY <1>1, <1>4, FS_Subset
<1>6. S = {} => Cardinality(S) = 0
  BY FS_EmptySet, Zenon
<1> DEFINE c == Cardinality(S)
           d == Cardinality(S \cup {h})
           n == Cardinality(Handlers)
<1>7. c \in Nat /\ n \in Nat /\ d = c + 1 /\ d <= n /\ n < CountBound /\ (S = {} => c = 0)
  BY <1>1, <1>2, <1>3, <1>5, <1>6, Zenon
<1> HIDE DEF c, d, n
<1>8. 1 < CountBound /\ d = (c + 1) % CountBound /\ (S = {} => d = 1)
  BY <1>7, CountAssumption
<1> QED  BY <1>8, Zenon DEF c, d

\* Nor does counting one less.
LEMMA CountDown ==
  ASSUME NEW S \in SUBSET Handlers, NEW h \in S
  PROVE  Cardinality(S \ {h}) = (Cardinality(S) - 1) % CountBound
<1>1. IsFiniteSet(S) /\ IsFiniteSet(Handlers) /\ Cardinality(Handlers) < CountBound
  BY HandlersAssumption, FS_Subset, Zenon
<1>2. IsFiniteSet(S \ {h})
  BY <1>1, FS_RemoveElement, Zenon
<1>3. /\ Cardinality(S) \in Nat /\ Cardinality(Handlers) \in Nat
      /\ Cardinality(S \ {h}) \in Nat
  BY <1>1, <1>2, FS_CardinalityType, Zenon
<1>4. Cardinality(S \ {h}) = Cardinality(S) - 1
  BY <1>1, FS_RemoveElement
<1>5. Cardinality(S) <= Cardinality(Handlers)
  BY <1>1, FS_Subset, Zenon
<1> DEFINE c == Cardinality(S)
           d == Cardinality(S \ {h})
           n == Cardinality(Handlers)
<1>6. c \in Nat /\ d \in Nat /\ n \in Nat /\ d = c - 1 /\ c <= n /\ n < CountBound
  BY <1>1, <1>3, <1>4, <1>5, Zenon
<1> HIDE DEF c, d, n
<1>7. d = (c - 1) % CountBound
  BY <1>6, CountAssumption
<1> QED  BY <1>7, Zenon DEF c, d


\* The troubles are counted up to their bound.
LEMMA TroubleType == ASSUME TypeOK, Trouble PROVE troubles' \in 0 .. MaxTroubles
<1>1. troubles \in 0 .. MaxTroubles
  BY Zenon DEF TypeOK
<1>2. MaxTroubles \in Nat
  BY RoutesAssumption, Zenon
<1> QED  BY <1>1, <1>2 DEF Trouble


\* A handler that becomes idle changes nothing that matters here.
LEMMA IdleHandler ==
  ASSUME IInv, NEW h \in Handlers, Set(h, Idle), status' = status, listeners' = listeners
  PROVE  /\ handler' \in [Handlers -> HandlerStates]
         /\ HandlerTokens' /\ ChannelKept' /\ GoneJustified'
         /\ handler'[h].at = "idle" /\ \A g \in Handlers : g # h => handler'[g] = handler[g]
<1>1. Idle \in HandlerStates /\ Idle.at = "idle"
  BY Records, Zenon
<1>2. handler'[h] = Idle /\ \A g \in Handlers : g # h => handler'[g] = handler[g]
  BY <1>1, SetFacts, Zenon DEF IInv, TypeOK
<1>3. /\ handler' \in [Handlers -> HandlerStates]
      /\ HandlerTokens' /\ ChannelKept' /\ GoneJustified'
  BY <1>1, OneHandler, Zenon DEF IInv
<1> QED  BY <1>1, <1>2, <1>3, Zenon

\* Answering a request without proxying it keeps the invariant.
LEMMA RefuseStep ==
  ASSUME IInv, NEW h \in Handlers, Refuse(h)
  PROVE  IInv'
<1>1. /\ handler[h].at = "answered" /\ Set(h, Idle) /\ status' = status
      /\ listeners' = listeners /\ monitor' = monitor /\ toProxy' = toProxy
      /\ removals' = removals /\ handling' = handling /\ waiting' = waiting
      /\ routes' = routes
  BY Zenon DEF Refuse, database, controller, routeMap, links
<1>2. /\ handler' \in [Handlers -> HandlerStates]
      /\ HandlerTokens' /\ ChannelKept' /\ GoneJustified'
      /\ handler'[h].at = "idle" /\ \A g \in Handlers : g # h => handler'[g] = handler[g]
  BY <1>1, IdleHandler, Zenon
<1>3. TypeOK'
  BY <1>2, Zenon DEF IInv, TypeOK, Refuse, database, controller, routeMap, links
<1>4. RoutesInv'
  BY <1>1, StillJustified, Zenon DEF IInv
<1>5. KeptAlive'
  BY <1>1, <1>2, KeptSame, Zenon DEF IInv
<1> QED  BY <1>2, <1>3, <1>4, <1>5, Zenon DEF IInv

\* A client that leaves while it waits keeps the invariant.
LEMMA CancelStep ==
  ASSUME IInv, NEW h \in Handlers, Cancel(h)
  PROVE  IInv'
<1>1. /\ handler[h].at = "waiting" /\ Set(h, Idle) /\ status' = status
      /\ listeners' = listeners /\ monitor' = monitor /\ toProxy' = toProxy
      /\ removals' = removals /\ handling' = handling /\ waiting' = waiting
      /\ routes' = routes /\ Trouble
  BY Zenon DEF Cancel, database, controller, routeMap, links
<1>2. /\ handler' \in [Handlers -> HandlerStates]
      /\ HandlerTokens' /\ ChannelKept' /\ GoneJustified'
      /\ handler'[h].at = "idle" /\ \A g \in Handlers : g # h => handler'[g] = handler[g]
  BY <1>1, IdleHandler, Zenon
<1>3. troubles' \in 0 .. MaxTroubles
  BY <1>1, TroubleType, Zenon DEF IInv
<1>4. TypeOK'
  BY <1>2, <1>3, Zenon DEF IInv, TypeOK, Cancel, database, controller, routeMap, links
<1>5. RoutesInv'
  BY <1>1, StillJustified, Zenon DEF IInv
<1>6. KeptAlive'
  BY <1>1, <1>2, KeptSame, Zenon DEF IInv
<1> QED  BY <1>2, <1>4, <1>5, <1>6, Zenon DEF IInv

-----------------------------------------------------------------------------
(* The steps that change the monitor *)

\* Proxying a request, and telling the monitor of it, keeps the invariant.
LEMMA ForwardStep ==
  ASSUME IInv, NEW h \in Handlers, NEW upgraded \in BOOLEAN, Forward(h, upgraded)
  PROVE  IInv'
<1> DEFINE b == handler[h].route
           rec == IF upgraded THEN Opened(b) ELSE Idle
<1>1. /\ handler[h].at = "answered" /\ b # None /\ Set(h, rec) /\ status' = status
      /\ listeners' = listeners /\ toProxy' = toProxy
      /\ removals' = removals /\ handling' = handling /\ waiting' = waiting
      /\ routes' = routes
      /\ monitor' = IF upgraded THEN inc_connection(monitor, b, 0)
                                ELSE touch_backend(monitor, b, 0)
      /\ \/ toController' = Send(toController, KeepAlive(b))
         \/ toController' = toController
  BY Zenon DEF Forward, database, controller, routeMap, Opened
<1>2. b \in Backends
  <2>1. handler[h] \in HandlerStates
    BY Zenon DEF IInv, TypeOK
  <2>2. b \in Routes
    BY <2>1, Zenon DEF HandlerStates
  <2> QED  BY <1>1, <2>2, Zenon DEF Routes
<1>3. /\ rec \in HandlerStates /\ rec.at \in {"idle", "open"}
      /\ upgraded => rec.at = "open" /\ rec.route = b
      /\ ~upgraded => rec.at = "idle"
  <2>1. CASE upgraded
    BY <1>2, <2>1, Records, Zenon
  <2>2. CASE ~upgraded
    BY <2>2, Records, Zenon
  <2> QED  BY <2>1, <2>2, Zenon
<1> HIDE DEF rec
<1>4. /\ handler' \in [Handlers -> HandlerStates]
      /\ HandlerTokens' /\ ChannelKept' /\ GoneJustified'
  BY <1>1, <1>3, OneHandler, Zenon DEF IInv
<1>5. toController' \in Seq(ToController)
  <2>1. KeepAlive(b) \in ToController
    BY <1>2, MessageTypes, Zenon
  <2>2. toController \in Seq(ToController)
    BY Zenon DEF IInv, TypeOK
  <2>3. Send(toController, KeepAlive(b)) \in Seq(ToController)
    BY <2>1, <2>2, SendType, Zenon
  <2> QED  BY <1>1, <2>2, <2>3, Zenon
<1>6. RoutesInv'
  BY <1>1, StillJustified, Zenon DEF IInv
<1>7. handler'[h] = rec /\ \A g \in Handlers : g # h => handler'[g] = handler[g]
  BY <1>1, <1>3, SetFacts, Zenon DEF IInv, TypeOK
<1>8. monitor \in Monitors
  BY Zenon DEF IInv, TypeOK
<1>9. monitor' \in Monitors /\ KeptAlive'
  <2> DEFINE m == monitor
             m2 == monitor'
  <2>1. CASE ~upgraded
    <3>1. /\ m2 \in Monitors
          /\ DOMAIN m2.backends = DOMAIN m.backends \cup {b}
          /\ \A x \in DOMAIN m.backends : m2.backends[x].active = m.backends[x].active
          /\ ~HasEntry(m, b) => m2.backends[b].active = 0 /\ Queued(m2, b)
          /\ \A x : Queued(m, x) => Queued(m2, x)
      <4>1. m2 = touch_backend(m, b, 0)
        BY <1>1, <2>1, Zenon
      <4> QED  BY <1>2, <1>8, <4>1, TouchFacts
    <3>2. ASSUME NEW x \in Backends PROVE CountedAt(x)'
      <4>1. CountedAt(x)
        BY KeptIsCounted, Zenon DEF IInv
      <4>2. OpenTo(x)' = OpenTo(x)
        BY <1>1, <1>3, <1>7, <2>1, Zenon DEF OpenTo
      <4>3. CASE HasEntry(m, x)
        <5>1. HasEntry(m2, x)
          BY <3>1, <4>3, Zenon DEF HasEntry
        <5>2. m2.backends[x].active = m.backends[x].active
          BY <3>1, <4>3, Zenon DEF HasEntry
        <5> QED  BY <1>1, <3>1, <4>1, <4>2, <4>3, <5>1, <5>2, Zenon DEF CountedAt
      <4>4. CASE ~HasEntry(m, x) /\ x # b
        <5>1. ~HasEntry(m2, x)
          BY <3>1, <4>4, Zenon DEF HasEntry
        <5> QED  BY <1>1, <4>1, <4>2, <4>4, <5>1, Zenon DEF CountedAt
      <4>5. CASE ~HasEntry(m, x) /\ x = b
        <5>1. HasEntry(m2, x) /\ m2.backends[x].active = 0 /\ Queued(m2, x)
          BY <3>1, <4>5, Zenon DEF HasEntry
        <5>2. Cardinality({}) = 0
          BY FS_EmptySet, Zenon
        <5> QED  BY <1>1, <4>1, <4>2, <4>5, <5>1, <5>2, Zenon DEF CountedAt
      <4> QED  BY <4>3, <4>4, <4>5, Zenon
    <3> QED  BY <3>1, <3>2, KeptIsCountedNext, Zenon
  <2>2. CASE upgraded
    <3>1. h \notin OpenTo(b) /\ OpenTo(b) \in SUBSET Handlers
      BY <1>1, Zenon DEF OpenTo
    <3>2. /\ 1 < CountBound
          /\ Cardinality(OpenTo(b) \cup {h}) = (Cardinality(OpenTo(b)) + 1) % CountBound
          /\ OpenTo(b) = {} => Cardinality(OpenTo(b) \cup {h}) = 1
      BY <3>1, CountUp, Zenon
    <3>3. /\ m2 \in Monitors
          /\ DOMAIN m2.backends = DOMAIN m.backends \cup {b}
          /\ \A x \in DOMAIN m.backends : x # b => m2.backends[x].active = m.backends[x].active
          /\ m2.backends[b].active =
               IF HasEntry(m, b) THEN (m.backends[b].active + 1) % CountBound ELSE 1
          /\ ~HasEntry(m, b) => Queued(m2, b)
          /\ \A x : Queued(m, x) => Queued(m2, x)
      <4>1. m2 = inc_connection(m, b, 0)
        BY <1>1, <2>2, Zenon
      <4>2. 1 < CountBound
        BY <3>2, Zenon
      <4> QED  BY <1>2, <1>8, <4>1, <4>2, IncFacts
    <3>4. ASSUME NEW x \in Backends PROVE CountedAt(x)'
      <4>1. CountedAt(x) /\ CountedAt(b)
        BY <1>2, KeptIsCounted, Zenon DEF IInv
      <4>2. CASE x # b
        <5>1. OpenTo(x)' = OpenTo(x)
          BY <1>1, <1>3, <1>7, <2>2, <4>2 DEF OpenTo
        <5>2. HasEntry(m2, x) <=> HasEntry(m, x)
          BY <3>3, <4>2, Zenon DEF HasEntry
        <5>3. HasEntry(m, x) => m2.backends[x].active = m.backends[x].active
          BY <3>3, <4>2, Zenon DEF HasEntry
        <5> QED  BY <1>1, <3>3, <4>1, <5>1, <5>2, <5>3, Zenon DEF CountedAt
      <4>3. CASE x = b
        <5>1. OpenTo(x)' = OpenTo(b) \cup {h}
          BY <1>1, <1>3, <1>7, <2>2, <4>3 DEF OpenTo
        <5>2. HasEntry(m2, b)
          BY <3>3, Zenon DEF HasEntry
        <5>3. CASE status[b] # "terminated"
          <6>1. CASE HasEntry(m, b)
            <7>1. m2.backends[b].active = (Cardinality(OpenTo(b)) + 1) % CountBound
              BY <3>3, <4>1, <5>3, <6>1, Zenon DEF CountedAt
            <7>2. m2.backends[b].active = Cardinality(OpenTo(x)')
              BY <3>2, <5>1, <7>1, Zenon
            <7>3. Queued(m2, b)
              BY <3>3, <4>1, <5>3, <6>1, Zenon DEF CountedAt
            <7> QED  BY <4>3, <5>2, <7>2, <7>3, Zenon DEF CountedAt
          <6>2. CASE ~HasEntry(m, b)
            <7>1. OpenTo(b) = {}
              BY <4>1, <5>3, <6>2, Zenon DEF CountedAt
            <7>2. m2.backends[b].active = Cardinality(OpenTo(x)')
              BY <3>2, <3>3, <5>1, <6>2, <7>1, Zenon
            <7>3. Queued(m2, b)
              BY <3>3, <6>2, Zenon
            <7> QED  BY <4>3, <5>2, <7>2, <7>3, Zenon DEF CountedAt
          <6> QED  BY <6>1, <6>2, Zenon
        <5>4. CASE status[b] = "terminated"
          BY <1>1, <4>3, <5>4, Zenon DEF CountedAt
        <5> QED  BY <5>3, <5>4, Zenon
      <4> QED  BY <4>2, <4>3, Zenon
    <3> QED  BY <3>3, <3>4, KeptIsCountedNext, Zenon
  <2> QED  BY <2>1, <2>2, Zenon
<1>10. TypeOK'
  BY <1>4, <1>5, <1>9, Zenon DEF IInv, TypeOK, Forward, database, controller, routeMap
<1> QED  BY <1>4, <1>6, <1>9, <1>10, Zenon DEF IInv

\* The end of a connection that was counted keeps the invariant.
LEMMA CloseStep ==
  ASSUME IInv, NEW h \in Handlers, Close(h)
  PROVE  IInv'
<1>1. PICK b : /\ b = handler[h].route /\ handler[h].at = "open" /\ Set(h, Idle)
               /\ status' = status /\ listeners' = listeners /\ toProxy' = toProxy
               /\ removals' = removals /\ handling' = handling /\ waiting' = waiting
               /\ routes' = routes /\ monitor' = dec_connection(monitor, b)
  BY Zenon DEF Close, database, controller, routeMap, links
<1>2. /\ handler' \in [Handlers -> HandlerStates]
      /\ HandlerTokens' /\ ChannelKept' /\ GoneJustified'
      /\ handler'[h].at = "idle" /\ \A g \in Handlers : g # h => handler'[g] = handler[g]
  BY <1>1, IdleHandler, Zenon
<1>3. RoutesInv'
  BY <1>1, StillJustified, Zenon DEF IInv
<1>4. /\ monitor' \in Monitors /\ monitor'.queue = monitor.queue
      /\ DOMAIN monitor'.backends = DOMAIN monitor.backends
      /\ \A x \in DOMAIN monitor.backends :
           x # b => monitor'.backends[x].active = monitor.backends[x].active
      /\ HasEntry(monitor, b)
           => monitor'.backends[b].active = (monitor.backends[b].active - 1) % CountBound
  <2>1. monitor \in Monitors
    BY Zenon DEF IInv, TypeOK
  <2> QED  BY <1>1, <2>1, DecFacts
<1>5. ASSUME NEW x \in Backends PROVE CountedAt(x)'
  <2>1. CountedAt(x)
    BY KeptIsCounted, Zenon DEF IInv
  <2>2. HasEntry(monitor', x) <=> HasEntry(monitor, x)
    BY <1>4, Zenon DEF HasEntry
  <2>3. Queued(monitor', x) <=> Queued(monitor, x)
    BY <1>4, Zenon DEF Queued
  <2>4. CASE x # b
    <3>1. OpenTo(x)' = OpenTo(x)
      BY <1>1, <1>2, <2>4 DEF OpenTo
    <3>2. HasEntry(monitor, x) => monitor'.backends[x].active = monitor.backends[x].active
      BY <1>4, <2>4, Zenon DEF HasEntry
    <3> QED  BY <1>1, <2>1, <2>2, <2>3, <3>1, <3>2, Zenon DEF CountedAt
  <2>5. CASE x = b
    <3>1. OpenTo(x)' = OpenTo(x) \ {h} /\ h \in OpenTo(x) /\ OpenTo(x) \in SUBSET Handlers
      BY <1>1, <1>2, <2>5 DEF OpenTo
    <3>2. Cardinality(OpenTo(x)') = (Cardinality(OpenTo(x)) - 1) % CountBound
      BY <3>1, CountDown, Zenon
    <3>3. OpenTo(x) # {}
      BY <3>1, Zenon
    <3> QED  BY <1>1, <1>4, <2>1, <2>2, <2>3, <2>5, <3>2, <3>3, Zenon DEF CountedAt
  <2> QED  BY <2>4, <2>5, Zenon
<1>6. KeptAlive'
  BY <1>5, KeptIsCountedNext, Zenon
<1>7. TypeOK'
  BY <1>2, <1>4, Zenon DEF IInv, TypeOK, Close, database, controller, routeMap, links
<1> QED  BY <1>2, <1>3, <1>6, <1>7, Zenon DEF IInv

\* A visit of the monitor, with the keepalive it sends, keeps the invariant.
LEMMA VisitBackendStep ==
  ASSUME IInv, VisitBackend
  PROVE  IInv'
<1> DEFINE b == Head(monitor.queue).backend
<1>1. /\ monitor.queue # <<>> /\ handler' = handler
      /\ status' = status /\ listeners' = listeners /\ toProxy' = toProxy
      /\ removals' = removals /\ handling' = handling /\ waiting' = waiting
      /\ routes' = routes /\ monitor' = Visit(monitor, 0)
      /\ \/ toController' = Send(toController, KeepAlive(b))
         \/ toController' = toController
  BY Zenon DEF VisitBackend, database, controller, routeMap
<1>2. HandlerTokens' /\ ChannelKept' /\ GoneJustified'
  BY <1>1, SameHandlers, Zenon DEF IInv, SameRequest
<1>3. RoutesInv'
  BY <1>1, StillJustified, Zenon DEF IInv
<1>4. /\ monitor' \in Monitors /\ b \in Backends
      /\ \A x \in DOMAIN monitor'.backends :
           /\ x \in DOMAIN monitor.backends
           /\ monitor'.backends[x].active = monitor.backends[x].active
           /\ Queued(monitor, x) => Queued(monitor', x)
      /\ \A x \in DOMAIN monitor.backends :
           x \notin DOMAIN monitor'.backends => monitor.backends[x].active = 0
  <2>1. monitor \in Monitors
    BY Zenon DEF IInv, TypeOK
  <2> QED  BY <1>1, <2>1, VisitFacts
<1>5. toController' \in Seq(ToController)
  <2>1. KeepAlive(b) \in ToController
    BY <1>4, MessageTypes, Zenon
  <2>2. toController \in Seq(ToController)
    BY Zenon DEF IInv, TypeOK
  <2>3. Send(toController, KeepAlive(b)) \in Seq(ToController)
    BY <2>1, <2>2, SendType, Zenon
  <2> QED  BY <1>1, <2>2, <2>3, Zenon
<1>6. ASSUME NEW x \in Backends PROVE CountedAt(x)'
  <2>1. CountedAt(x)
    BY KeptIsCounted, Zenon DEF IInv
  <2>2. OpenTo(x)' = OpenTo(x)
    BY <1>1, Zenon DEF OpenTo
  <2>3. CASE HasEntry(monitor', x)
    <3>1. HasEntry(monitor, x) /\ monitor'.backends[x].active = monitor.backends[x].active
      BY <1>4, <2>3, Zenon DEF HasEntry
    <3>2. Queued(monitor, x) => Queued(monitor', x)
      BY <1>4, <2>3, Zenon DEF HasEntry
    <3> QED  BY <1>1, <2>1, <2>2, <2>3, <3>1, <3>2, Zenon DEF CountedAt
  <2>4. CASE HasEntry(monitor, x) /\ ~HasEntry(monitor', x)
    <3>1. monitor.backends[x].active = 0
      BY <1>4, <2>4, Zenon DEF HasEntry
    <3>2. IsFiniteSet(OpenTo(x))
      <4>1. OpenTo(x) \in SUBSET Handlers
        BY Zenon DEF OpenTo
      <4> QED  BY <4>1, HandlersAssumption, FS_Subset, Zenon
    <3>3. Cardinality(OpenTo(x)) = 0 => OpenTo(x) = {}
      BY <3>2, FS_EmptySet, Zenon
    <3> QED  BY <1>1, <2>1, <2>2, <2>4, <3>1, <3>3, Zenon DEF CountedAt
  <2>5. CASE ~HasEntry(monitor, x) /\ ~HasEntry(monitor', x)
    BY <1>1, <2>1, <2>2, <2>5, Zenon DEF CountedAt
  <2> QED  BY <2>3, <2>4, <2>5, Zenon
<1>7. KeptAlive'
  BY <1>6, KeptIsCountedNext, Zenon
<1>8. TypeOK'
  BY <1>1, <1>4, <1>5, Zenon DEF IInv, TypeOK, VisitBackend, database, controller, routeMap
<1> QED  BY <1>2, <1>3, <1>7, <1>8, Zenon DEF IInv

\* RouteMap::remove_backend keeps the invariant.
LEMMA ReceiveRemovedStep ==
  ASSUME IInv, ReceiveRemoved
  PROVE  IInv'
<1>1. PICK b : /\ b = Head(toProxy).backend /\ Head(toProxy).type = "removed"
               /\ toProxy # <<>> /\ toProxy' = Tail(toProxy) /\ handler' = handler
               /\ status' = status /\ listeners' = listeners
               /\ removals' = removals /\ handling' = handling /\ waiting' = waiting
               /\ monitor' = remove_backend(monitor, b)
               /\ routes' = [i \in DOMAIN routes |->
                    IF routes[i].route = b THEN [routes[i] EXCEPT !.route = None]
                                           ELSE routes[i]]
  BY Zenon DEF ReceiveRemoved, database, controller
<1>2. HandlerTokens' /\ ChannelKept' /\ GoneJustified'
  BY <1>1, SameHandlers, Zenon DEF IInv, SameRequest
<1>3. toProxy \in Seq(ToProxy)
  BY Zenon DEF IInv, TypeOK
<1>4. Head(toProxy) \in Range(toProxy) /\ Range(toProxy) = Range(toProxy') \cup {Head(toProxy)}
  BY <1>1, <1>3, RangeTail
<1>5. toProxy' \in Seq(ToProxy) /\ Head(toProxy) \in ToProxy
  BY <1>1, <1>3, TailFacts, Zenon
<1>6. b \in Backends /\ status[b] = "terminated"
  <2>1. b \in Backends
    BY <1>1, <1>5, MessageTypes, Zenon
  <2>2. MessageJustified(Head(toProxy))
    BY <1>4, Zenon DEF IInv, RoutesInv, MessagesJustified
  <2> QED  BY <1>1, <2>1, <2>2, Zenon DEF MessageJustified
<1>7. /\ routes' \in Seq(RouteEntries) /\ Len(routes') <= CacheSize
      /\ \A e \in Range(routes') : e \in Range(routes) \/ Justified(e.token, e.route)
  <2> DEFINE n == Len(routes)
  <2>1. routes \in Seq(RouteEntries) /\ n <= CacheSize
    BY Zenon DEF IInv, TypeOK, RouteEntries
  <2>2. n \in Nat /\ DOMAIN routes = 1 .. n /\ \A i \in 1 .. n : routes[i] \in RouteEntries
    BY <2>1
  <2> HIDE DEF n
  <2>3. ASSUME NEW i \in 1 .. n
        PROVE  /\ routes'[i] \in RouteEntries
               /\ routes'[i] \in Range(routes) \/ Justified(routes'[i].token, routes'[i].route)
    <3>1. routes[i] \in Range(routes) /\ routes[i] \in RouteEntries
      BY <2>2, Zenon DEF Range
    <3>2. CASE routes[i].route = b
      <4>1. routes'[i] = [routes[i] EXCEPT !.route = None]
        BY <1>1, <2>2, <3>2, Zenon
      <4>2. /\ routes'[i] \in RouteEntries /\ routes'[i].route = None
            /\ routes'[i].token = routes[i].token
        BY <3>1, <4>1, Zenon DEF RouteEntries, Routes
      <4>3. Justified(routes[i].token, routes[i].route)
        BY <3>1, Zenon DEF IInv, RoutesInv, RoutesJustified
      <4>4. b # None
        BY <1>6, HandlersAssumption, Zenon
      <4>5. Target[routes[i].token] = b
        BY <3>2, <4>3, <4>4, Zenon DEF Justified
      <4>6. status[Target[routes[i].token]] \in Ended
        BY <1>6, <4>5, Zenon DEF Ended
      <4> QED  BY <4>2, <4>6, Zenon DEF Justified
    <3>3. CASE routes[i].route # b
      <4>1. routes'[i] = routes[i]
        BY <1>1, <2>2, <3>3, Zenon
      <4> QED  BY <3>1, <4>1, Zenon
    <3> QED  BY <3>2, <3>3, Zenon
  <2>4. DOMAIN routes' = 1 .. n
    BY <1>1, <2>2, Zenon
  <2>5. routes' \in [1 .. n -> RouteEntries]
    BY <1>1, <2>2, <2>3, Zenon
  <2>6. routes' \in Seq(RouteEntries) /\ Len(routes') = n
    BY <2>2, <2>5, FunctionSeq, Zenon
  <2>7. \A e \in Range(routes') : e \in Range(routes) \/ Justified(e.token, e.route)
    <3> TAKE e \in Range(routes')
    <3>1. PICK i \in 1 .. n : e = routes'[i]
      BY <2>4, Zenon DEF Range
    <3> QED  BY <2>3, <3>1, Zenon
  <2>8. n <= CacheSize
    BY <2>1, Zenon
  <2> QED  BY <2>6, <2>7, <2>8, Zenon
<1>8. RoutesInv'
  <2>1. \A m \in Range(toProxy') : m \in Range(toProxy)
    BY <1>4, Zenon
  <2> QED  BY <1>1, <1>7, <2>1, StillJustified, Zenon DEF IInv
<1>9. /\ monitor' \in Monitors /\ monitor'.queue = monitor.queue
      /\ DOMAIN monitor'.backends = DOMAIN monitor.backends \ {b}
      /\ \A x \in DOMAIN monitor.backends \ {b} : monitor'.backends[x] = monitor.backends[x]
  <2>1. monitor \in Monitors /\ monitor' = DropEntry(monitor, b)
    BY <1>1, Zenon DEF IInv, TypeOK, remove_backend
  <2> QED  BY <2>1, DropEntryFacts
<1>10. ASSUME NEW x \in Backends PROVE CountedAt(x)'
  <2>1. CountedAt(x)
    BY KeptIsCounted, Zenon DEF IInv
  <2>2. OpenTo(x)' = OpenTo(x)
    BY <1>1 DEF OpenTo
  <2>3. CASE x = b
    BY <1>1, <1>6, <2>3, Zenon DEF CountedAt
  <2>4. CASE x # b
    <3>1. HasEntry(monitor', x) <=> HasEntry(monitor, x)
      BY <1>9, <2>4, Zenon DEF HasEntry
    <3>2. HasEntry(monitor, x) => monitor'.backends[x] = monitor.backends[x]
      BY <1>9, <2>4, Zenon DEF HasEntry
    <3>3. Queued(monitor', x) <=> Queued(monitor, x)
      BY <1>9, Zenon DEF Queued
    <3> QED  BY <1>1, <2>1, <2>2, <3>1, <3>2, <3>3, Zenon DEF CountedAt
  <2> QED  BY <2>3, <2>4, Zenon
<1>11. KeptAlive'
  BY <1>10, KeptIsCountedNext, Zenon
<1>12. TypeOK'
  BY <1>1, <1>5, <1>7, <1>9, Zenon
     DEF IInv, TypeOK, RouteEntries, ReceiveRemoved, database, controller
<1> QED  BY <1>2, <1>8, <1>11, <1>12, Zenon DEF IInv

-----------------------------------------------------------------------------
(* The steps of the task that owns the connection *)

\* A new connection of the proxy keeps the invariant.
LEMMA ConnectStep == ASSUME IInv, Connect PROVE IInv'
<1>1. /\ handler' = handler /\ status' = status /\ listeners' = listeners
      /\ monitor' = monitor /\ toProxy' = toProxy /\ removals' = removals
      /\ handling' = handling /\ waiting' = waiting /\ routes' = routes
  BY Zenon DEF Connect, database, controller
<1>2. HandlerTokens' /\ ChannelKept' /\ GoneJustified'
  BY <1>1, SameHandlers, Zenon DEF IInv, SameRequest
<1>3. RoutesInv'
  BY <1>1, StillJustified, Zenon DEF IInv
<1>4. KeptAlive'
  BY <1>1, KeptSame, Zenon DEF IInv
<1>5. TypeOK'
  BY Zenon DEF IInv, TypeOK, Connect, database, controller
<1> QED  BY <1>2, <1>3, <1>4, <1>5, Zenon DEF IInv

\* Caching the route of a response keeps the invariant.
LEMMA ReceiveRouteStep == ASSUME IInv, ReceiveRoute PROVE IInv'
<1>1. PICK msg : /\ msg = Head(toProxy) /\ msg.type = "response"
                 /\ toProxy # <<>> /\ toProxy' = Tail(toProxy)
                 /\ routes' = Push(msg.token, msg.route) /\ signalling' = {msg.token}
                 /\ handler' = handler /\ status' = status /\ listeners' = listeners
                 /\ monitor' = monitor /\ removals' = removals
                 /\ handling' = handling /\ waiting' = waiting
  BY Zenon DEF ReceiveRoute, database, controller
<1>2. HandlerTokens' /\ ChannelKept' /\ GoneJustified'
  BY <1>1, SameHandlers, Zenon DEF IInv, SameRequest
<1>3. toProxy \in Seq(ToProxy)
  BY Zenon DEF IInv, TypeOK
<1>4. msg \in Range(toProxy) /\ Range(toProxy) = Range(toProxy') \cup {msg}
  BY <1>1, <1>3, RangeTail
<1>5. toProxy' \in Seq(ToProxy) /\ msg \in ToProxy
  BY <1>1, <1>3, TailFacts, Zenon
<1>6. msg.token \in Tokens /\ msg.route \in Routes
  BY <1>1, <1>5, MessageTypes, Zenon
<1> DEFINE e == [token |-> msg.token, route |-> msg.route]
<1>7. e \in RouteEntries /\ e.token = msg.token /\ e.route = msg.route
  BY <1>6, Zenon DEF RouteEntries
<1>8. Justified(e.token, e.route)
  <2>1. MessageJustified(msg)
    BY <1>4, Zenon DEF IInv, RoutesInv, MessagesJustified
  <2>2. Justified(msg.token, msg.route)
    BY <1>1, <2>1, Zenon DEF MessageJustified
  <2> QED  BY <1>7, <2>2, Zenon
<1>9. routes' = ToFront(msg.token, e)
  BY <1>1, Zenon DEF Push
<1> HIDE DEF e
<1>10. /\ routes' \in Seq(RouteEntries) /\ Len(routes') <= CacheSize
       /\ Range(routes') \subseteq Range(routes) \cup {e}
  BY <1>7, <1>9, ToFrontFacts, Zenon DEF IInv
<1>11. RoutesInv'
  <2>1. \A m \in Range(toProxy') : m \in Range(toProxy)
    BY <1>4, Zenon
  <2>2. \A x \in Range(routes') : x \in Range(routes) \/ Justified(x.token, x.route)
    BY <1>8, <1>10, Zenon
  <2> QED  BY <1>1, <2>1, <2>2, StillJustified, Zenon DEF IInv
<1>12. KeptAlive'
  BY <1>1, KeptSame, Zenon DEF IInv
<1>13. signalling' \subseteq Tokens
  BY <1>1, <1>6, Zenon
<1>14. TypeOK'
  BY <1>5, <1>10, <1>13, Zenon
     DEF IInv, TypeOK, RouteEntries, ReceiveRoute, database, controller
<1> QED  BY <1>2, <1>11, <1>12, <1>14, Zenon DEF IInv

\* The lookups whose channel is dropped are woken in the same step.
LEMMA SignalStep == ASSUME IInv, Signal PROVE IInv'
<1>1. /\ status' = status /\ listeners' = listeners \ signalling /\ signalling' = {}
      /\ monitor' = monitor /\ toProxy' = toProxy /\ removals' = removals
      /\ handling' = handling /\ waiting' = waiting /\ routes' = routes
      /\ handler' = [g \in Handlers |->
           IF /\ handler[g].token \in signalling \cap listeners
              /\ handler[g].at \in {"listening", "waiting"}
           THEN Woken(handler[g]) ELSE handler[g]]
  BY Zenon DEF Signal, database, controller, links, Woken
<1>2. \A g \in Handlers : handler[g] \in HandlerStates
  BY Zenon DEF IInv, TypeOK
<1>3. \A g \in Handlers :
         /\ Woken(handler[g]) \in HandlerStates /\ Woken(handler[g]).woken = TRUE
         /\ Woken(handler[g]).at = handler[g].at /\ Woken(handler[g]).token = handler[g].token
         /\ Woken(handler[g]).route = handler[g].route /\ Woken(handler[g]).why = handler[g].why
  BY <1>2, Changes, Zenon
<1>4. handler' \in [Handlers -> HandlerStates]
  BY <1>1, <1>2, <1>3, Zenon
<1>5. \A g \in Handlers :
         /\ handler'[g].at = handler[g].at /\ handler'[g].token = handler[g].token
         /\ handler'[g].route = handler[g].route /\ handler'[g].why = handler[g].why
         /\ \/ handler'[g].woken
            \/ /\ handler'[g].woken = handler[g].woken
               /\ ~ /\ handler[g].token \in signalling \cap listeners
                    /\ handler[g].at \in {"listening", "waiting"}
  BY <1>1, <1>3, Zenon
<1>6. HandlerTokens'
  BY <1>5, Zenon DEF IInv, HandlerTokens
<1>7. GoneJustified'
  BY <1>1, <1>5, Zenon DEF IInv, GoneJustified
<1>8. ChannelKept'
  <2> SUFFICES ASSUME NEW g \in Handlers, handler'[g].at \in {"listening", "waiting"},
                      ~handler'[g].woken
               PROVE  handler'[g].token \in listeners'
    BY Zenon DEF ChannelKept
  <2>1. handler[g].at \in {"listening", "waiting"} /\ ~handler[g].woken
    BY <1>5, Zenon
  <2>2. handler[g].token \in listeners
    BY <2>1, Zenon DEF IInv, ChannelKept
  <2>3. handler[g].token \notin signalling
    BY <1>5, <2>1, <2>2, Zenon
  <2> QED  BY <1>1, <1>5, <2>2, <2>3, Zenon
<1>9. RoutesInv'
  BY <1>1, StillJustified, Zenon DEF IInv
<1>10. KeptAlive'
  BY <1>1, <1>5, KeptSame, Zenon DEF IInv
<1>11. TypeOK'
  BY <1>1, <1>4, Zenon DEF IInv, TypeOK, Signal, database, controller, links
<1> QED  BY <1>6, <1>7, <1>8, <1>9, <1>10, <1>11, Zenon DEF IInv

-----------------------------------------------------------------------------
(* The database *)

\* A backend that has ended does not come back.
LEMMA EndedStays ==
  ASSUME TypeOK, NEW b \in Backends, NEW s, update_state(b, s)
  PROVE  /\ s # "pending" /\ status'[b] = s
         /\ status' \in [Backends -> Statuses] /\ s \in Statuses
         /\ \A x \in Backends : status[x] \in Ended => status'[x] \in Ended
         /\ \A x \in Backends : status[x] = "terminated" => status'[x] = "terminated"
<1>1. s \in Later(status[b]) /\ status' = [status EXCEPT ![b] = s]
  BY Zenon DEF update_state
<1>2. status \in [Backends -> Statuses] /\ status[b] \in Statuses
  BY Zenon DEF TypeOK
<1>3. /\ s # "pending" /\ s \in Statuses
      /\ status[b] \in Ended => s \in Ended
      /\ status[b] # "terminated"
  BY <1>1, <1>2, Zenon DEF Later, Statuses, Ended
<1> QED  BY <1>1, <1>2, <1>3, Zenon

\* A change of status, with the notifications it causes, keeps the invariant.
LEMMA UpdateStateStep ==
  ASSUME IInv, NEW b \in Backends, NEW s \in Statuses, update_state(b, s)
  PROVE  IInv'
<1>1. /\ handling' = Notify(handling, b, s) /\ waiting' = Notify(waiting, b, s)
      /\ handler' = handler /\ listeners' = listeners /\ routes' = routes
      /\ toProxy' = toProxy /\ monitor' = monitor
      /\ removals' = removals \/ (s = "terminated" /\ removals' = removals \cup {b})
  BY Zenon DEF update_state, routeMap, links
<1>2. /\ s # "pending" /\ status'[b] = s
      /\ status' \in [Backends -> Statuses]
      /\ \A x \in Backends : status[x] \in Ended => status'[x] \in Ended
      /\ \A x \in Backends : status[x] = "terminated" => status'[x] = "terminated"
  BY EndedStays, Zenon DEF IInv
<1>3. \A t \in Tokens : Target[t] \in Backends
  BY RoutesAssumption, Zenon
<1>4. handling \in Seq(Tasks) /\ waiting \in Seq(Tasks) /\ Len(handling) <= 1
  BY Zenon DEF IInv, TypeOK
<1>5. /\ handling' \in Seq(Tasks) /\ Len(handling') <= 1
      /\ \A k \in Range(handling') : \E old \in Range(handling) :
           \/ k = old
           \/ /\ k.token = old.token /\ Target[k.token] = b
              /\ Range(k.states) = Range(old.states) \cup {s}
  <2>1. /\ handling' \in Seq(Tasks) /\ Len(handling') = Len(handling)
        /\ \A k \in Range(handling') : \E old \in Range(handling) :
             \/ k = old
             \/ /\ k.token = old.token /\ Target[k.token] = b
                /\ Range(k.states) = Range(old.states) \cup {s}
    BY <1>1, <1>4, NotifyFacts
  <2> QED  BY <1>4, <2>1, Zenon
<1>6. /\ waiting' \in Seq(Tasks)
      /\ \A k \in Range(waiting') : \E old \in Range(waiting) :
           \/ k = old
           \/ /\ k.token = old.token /\ Target[k.token] = b
              /\ Range(k.states) = Range(old.states) \cup {s}
  BY <1>1, <1>4, NotifyFacts
<1>7. ASSUME NEW k, NEW old \in Tasks, TaskJustified(old),
             \/ k = old
             \/ /\ k.token = old.token /\ Target[k.token] = b
                /\ Range(k.states) = Range(old.states) \cup {s}
      PROVE  TaskJustified(k)'
  <2>1. old.token \in Tokens
    BY Zenon DEF Tasks
  <2>2. \A u \in Range(old.states) :
           u # "pending" /\ (u \in Ended => status'[Target[old.token]] \in Ended)
    BY <1>2, <1>3, <1>7, <2>1, Zenon DEF TaskJustified
  <2>3. CASE k = old
    BY <2>2, <2>3, Zenon DEF TaskJustified
  <2>4. CASE /\ k.token = old.token /\ Target[k.token] = b
             /\ Range(k.states) = Range(old.states) \cup {s}
    <3> SUFFICES ASSUME NEW u \in Range(k.states)
                 PROVE  u # "pending" /\ (u \in Ended => status'[Target[k.token]] \in Ended)
      BY Zenon DEF TaskJustified
    <3>1. u \in Range(old.states) \/ u = s
      BY <2>4, Zenon
    <3> QED  BY <1>2, <2>2, <2>4, <3>1, Zenon
  <2> QED  BY <1>7, <2>3, <2>4, Zenon
<1>8. Range(handling) \subseteq Tasks /\ Range(waiting) \subseteq Tasks
  BY <1>4, RangeType, Zenon
<1>9. TasksJustified'
  <2>1. /\ \A k \in Range(handling) : TaskJustified(k)
        /\ \A k \in Range(waiting) : TaskJustified(k)
    BY Zenon DEF IInv, RoutesInv, TasksJustified
  <2>2. \A k \in Range(handling') : TaskJustified(k)'
    <3> TAKE k \in Range(handling')
    <3>1. PICK old \in Range(handling) :
            \/ k = old
            \/ /\ k.token = old.token /\ Target[k.token] = b
               /\ Range(k.states) = Range(old.states) \cup {s}
      BY <1>5, Zenon
    <3>2. old \in Tasks /\ TaskJustified(old)
      BY <1>8, <2>1, Zenon
    <3> QED  BY <1>7, <3>1, <3>2, Zenon
  <2>3. \A k \in Range(waiting') : TaskJustified(k)'
    <3> TAKE k \in Range(waiting')
    <3>1. PICK old \in Range(waiting) :
            \/ k = old
            \/ /\ k.token = old.token /\ Target[k.token] = b
               /\ Range(k.states) = Range(old.states) \cup {s}
      BY <1>6, Zenon
    <3>2. old \in Tasks /\ TaskJustified(old)
      BY <1>8, <2>1, Zenon
    <3> QED  BY <1>7, <3>1, <3>2, Zenon
  <2> QED  BY <2>2, <2>3, Zenon DEF TasksJustified
<1>10. \A t \in Tokens : \A r : Justified(t, r) => Justified(t, r)'
  BY <1>2, <1>3, Zenon DEF Justified
<1>11. RoutesJustified'
  <2>1. Range(routes) \subseteq RouteEntries
    BY RangeType, Zenon DEF IInv, TypeOK, RouteEntries
  <2>2. \A e \in Range(routes) : e.token \in Tokens /\ Justified(e.token, e.route)
    BY <2>1, Zenon DEF IInv, RoutesInv, RoutesJustified, RouteEntries
  <2>3. \A e \in Range(routes) : Justified(e.token, e.route)'
    BY <1>10, <2>2, Zenon
  <2> QED  BY <1>1, <2>3, Zenon DEF RoutesJustified
<1>12. MessagesJustified'
  <2>1. Range(toProxy) \subseteq ToProxy
    BY RangeType, Zenon DEF IInv, TypeOK
  <2> SUFFICES ASSUME NEW m \in Range(toProxy) PROVE MessageJustified(m)'
    BY <1>1, Zenon DEF MessagesJustified
  <2>2. MessageJustified(m) /\ m \in ToProxy
    BY <2>1, Zenon DEF IInv, RoutesInv, MessagesJustified
  <2>3. /\ m.type = "response" => m.token \in Tokens
        /\ m.type = "removed" => m.backend \in Backends
    BY <2>2, MessageTypes, Zenon
  <2>4. m.type = "response" => Justified(m.token, m.route)'
    BY <1>10, <2>2, <2>3, Zenon DEF MessageJustified
  <2>5. m.type = "removed" => status'[m.backend] = "terminated"
    BY <1>2, <2>2, <2>3, Zenon DEF MessageJustified
  <2> QED  BY <2>4, <2>5, Zenon DEF MessageJustified
<1>13. RemovalsJustified' /\ removals' \subseteq Backends
  <2>1. removals \subseteq Backends /\ \A x \in removals : status[x] = "terminated"
    BY Zenon DEF IInv, TypeOK, RoutesInv, RemovalsJustified
  <2> QED  BY <1>1, <1>2, <2>1, Zenon DEF RemovalsJustified
<1>14. GoneJustified'
  BY <1>1, <1>2, <1>3, Zenon DEF IInv, GoneJustified, HandlerTokens
<1>15. HandlerTokens' /\ ChannelKept'
  BY <1>1, Zenon DEF IInv, HandlerTokens, ChannelKept
<1>16. KeptAlive'
  BY <1>1, <1>2, KeptSame, Zenon DEF IInv
<1>17. TypeOK'
  BY <1>2, <1>5, <1>6, <1>13, Zenon DEF IInv, TypeOK, update_state, routeMap, links
<1> QED  BY <1>9, <1>11, <1>12, <1>13, <1>14, <1>15, <1>16, <1>17, Zenon DEF IInv, RoutesInv

-----------------------------------------------------------------------------
(* The steps of the controller *)

\* What the controller finds settled is justified.
LEMMA RouteInfo ==
  ASSUME TypeOK, NEW t \in Tokens, route_info_for_token(t) # "pending"
  PROVE  route_info_for_token(t) \in Routes /\ Justified(t, route_info_for_token(t))
<1>1. Target[t] \in Backends /\ Target[t] # None
  BY RoutesAssumption, HandlersAssumption, Zenon
<1>2. status[Target[t]] \in Statuses
  BY <1>1, Zenon DEF TypeOK
<1>3. CASE status[Target[t]] = "ready"
  <2>1. route_info_for_token(t) = Target[t]
    BY <1>3, Zenon DEF route_info_for_token, Ended
  <2> QED  BY <1>1, <2>1, Zenon DEF Routes, Justified
<1>4. CASE status[Target[t]] \in Ended
  <2>1. route_info_for_token(t) = None
    BY <1>4, Zenon DEF route_info_for_token, Ended
  <2> QED  BY <1>4, <2>1, Zenon DEF Routes, Justified
<1>5. CASE status[Target[t]] = "pending"
  BY <1>5, Zenon DEF route_info_for_token, Ended
<1> QED  BY <1>2, <1>3, <1>4, <1>5, Zenon DEF Statuses

\* The one request that is being handled.
LEMMA HandlingFacts ==
  ASSUME TypeOK, handling # <<>>
  PROVE  /\ handling[1] \in Tasks /\ handling[1] \in Range(handling)
         /\ handling[1].token \in Tokens /\ Len(handling) = 1
<1>1. handling \in Seq(Tasks)
  BY Zenon DEF TypeOK
<1>2. Len(handling) <= 1
  BY Zenon DEF TypeOK
<1>3. Len(handling) \in Nat /\ Len(handling) # 0 /\ DOMAIN handling = 1 .. Len(handling)
  BY <1>1
<1>4. Len(handling) = 1 /\ 1 \in DOMAIN handling
  BY <1>2, <1>3
<1>5. handling[1] \in Tasks
  BY <1>1, <1>4
<1> QED  BY <1>4, <1>5, Zenon DEF Range, Tasks

\* One element and none are sequences.
LEMMA ShortSequences ==
  /\ \A S : <<>> \in Seq(S)
  /\ \A S : \A x \in S : <<x>> \in Seq(S)
  /\ \A x : Len(<<x>>) = 1 /\ Range(<<x>>) = {x}
  /\ Len(<<>>) = 0 /\ Range(<<>>) = {}
<1>1. \A S : <<>> \in Seq(S)
  OBVIOUS
<1>2. \A S : \A x \in S : <<x>> \in Seq(S)
  OBVIOUS
<1>3. \A x : Len(<<x>>) = 1 /\ Range(<<x>>) = {x}
  BY DEF Range
<1>4. Len(<<>>) = 0 /\ Range(<<>>) = {}
  BY DEF Range
<1> QED  BY <1>1, <1>2, <1>3, <1>4, Zenon

\* A justified message may be sent.
LEMMA SendJustified ==
  ASSUME TypeOK, NEW msg \in ToProxy, MessageJustified(msg),
         toProxy' = Send(toProxy, msg) \/ toProxy' = toProxy
  PROVE  /\ toProxy' \in Seq(ToProxy)
         /\ \A m \in Range(toProxy') : m \in Range(toProxy) \/ MessageJustified(m)
<1>1. toProxy \in Seq(ToProxy)
  BY Zenon DEF TypeOK
<1>2. Send(toProxy, msg) \in Seq(ToProxy)
  BY <1>1, SendType, Zenon
<1>3. \A m \in Range(Send(toProxy, msg)) : m \in Range(toProxy) \/ m = msg
  BY <1>1, SendRange, Zenon
<1> QED  BY <1>1, <1>2, <1>3, Zenon

\* So may a justified response and the removal of a terminated backend.
LEMMA ResponseJustified ==
  ASSUME NEW t \in Tokens, NEW r \in Routes, Justified(t, r)
  PROVE  RouteResponse(t, r) \in ToProxy /\ MessageJustified(RouteResponse(t, r))
<1>1. RouteResponse(t, r) \in ToProxy
  BY MessageTypes, Zenon
<1>2. /\ RouteResponse(t, r).type = "response" /\ RouteResponse(t, r).token = t
      /\ RouteResponse(t, r).route = r
  BY DEF RouteResponse
<1> QED  BY <1>1, <1>2, Zenon DEF MessageJustified

\* A BackendRemoved for a terminated backend is a message of its type, and justified.
LEMMA RemovalJustified ==
  ASSUME NEW b \in Backends, status[b] = "terminated"
  PROVE  BackendRemoved(b) \in ToProxy /\ MessageJustified(BackendRemoved(b))
<1>1. BackendRemoved(b) \in ToProxy
  BY MessageTypes, Zenon
<1>2. BackendRemoved(b).type = "removed" /\ BackendRemoved(b).backend = b
  BY DEF BackendRemoved
<1> QED  BY <1>1, <1>2, Zenon DEF MessageJustified

\* The first message from the proxy.
LEMMA FirstMessage ==
  ASSUME TypeOK, toController # <<>>
  PROVE  Tail(toController) \in Seq(ToController) /\ Head(toController) \in ToController
  BY TailFacts, Zenon DEF TypeOK

\* The first route_info_for_token of a request keeps the invariant.
LEMMA QueryStep == ASSUME IInv, Query PROVE IInv'
<1>1. PICK t : /\ t = Head(toController).token /\ Head(toController).type = "route"
               /\ toController # <<>> /\ toController' = Tail(toController)
               /\ handler' = handler /\ status' = status /\ listeners' = listeners
               /\ monitor' = monitor /\ removals' = removals
               /\ waiting' = waiting /\ routes' = routes
               /\ \/ /\ route_info_for_token(t) # "pending"
                     /\ toProxy' = Send(toProxy, RouteResponse(t, route_info_for_token(t)))
                     /\ handling' = handling
                  \/ /\ handling' = <<[token |-> t, subscribed |-> FALSE, states |-> <<>>]>>
                     /\ toProxy' = toProxy
  BY Zenon DEF Query, database, routeMap
<1>2. HandlerTokens' /\ ChannelKept' /\ GoneJustified'
  BY <1>1, SameHandlers, Zenon DEF IInv, SameRequest
<1>3. KeptAlive'
  BY <1>1, KeptSame, Zenon DEF IInv
<1>4. Tail(toController) \in Seq(ToController) /\ Head(toController) \in ToController
  BY <1>1, FirstMessage, Zenon DEF IInv
<1>5. t \in Tokens
  BY <1>1, <1>4, MessageTypes, Zenon
<1>6. /\ toProxy' \in Seq(ToProxy)
      /\ \A m \in Range(toProxy') : m \in Range(toProxy) \/ MessageJustified(m)
      /\ handling' \in Seq(Tasks) /\ Len(handling') <= 1
      /\ \A k \in Range(handling') : k \in Range(handling) \/ TaskJustified(k)
  <2>1. toProxy \in Seq(ToProxy) /\ handling \in Seq(Tasks) /\ Len(handling) <= 1
    BY Zenon DEF IInv, TypeOK
  <2>2. CASE /\ route_info_for_token(t) # "pending"
             /\ toProxy' = Send(toProxy, RouteResponse(t, route_info_for_token(t)))
             /\ handling' = handling
    <3> DEFINE r == route_info_for_token(t)
    <3>1. r \in Routes /\ Justified(t, r)
      BY <1>5, <2>2, RouteInfo, Zenon DEF IInv
    <3>2. RouteResponse(t, r) \in ToProxy /\ MessageJustified(RouteResponse(t, r))
      BY <1>5, <3>1, ResponseJustified, Zenon
    <3>3. /\ toProxy' \in Seq(ToProxy)
          /\ \A m \in Range(toProxy') : m \in Range(toProxy) \/ MessageJustified(m)
      BY <2>2, <3>2, SendJustified, Zenon DEF IInv
    <3> QED  BY <2>1, <2>2, <3>3, Zenon
  <2>3. CASE /\ handling' = <<[token |-> t, subscribed |-> FALSE, states |-> <<>>]>>
             /\ toProxy' = toProxy
    <3> DEFINE k == [token |-> t, subscribed |-> FALSE, states |-> <<>>]
    <3>1. k \in Tasks /\ k.states = <<>>
      BY <1>5 DEF Tasks
    <3>2. handling' = <<k>>
      BY <2>3, Zenon
    <3> HIDE DEF k
    <3>3. TaskJustified(k)
      BY <3>1, ShortSequences, Zenon DEF TaskJustified
    <3>4. handling' \in Seq(Tasks)
      BY <3>1, <3>2, ShortSequences, Zenon
    <3>5. Len(handling') = 1 /\ Range(handling') = {k}
      BY <3>2, ShortSequences, Zenon
    <3>6. Len(handling') <= 1
      BY <3>5
    <3> QED  BY <2>1, <2>3, <3>3, <3>4, <3>5, <3>6, Zenon
  <2> QED  BY <1>1, <2>2, <2>3, Zenon
<1>7. RoutesInv'
  BY <1>1, <1>6, StillJustified, Zenon DEF IInv
<1>8. TypeOK'
  BY <1>1, <1>4, <1>6, Zenon DEF IInv, TypeOK, Query, database, routeMap
<1> QED  BY <1>2, <1>3, <1>7, <1>8, Zenon DEF IInv

\* Subscribing to the state of a pending backend keeps the invariant.
LEMMA SubscribeToStateStep == ASSUME IInv, SubscribeToState PROVE IInv'
<1>1. /\ handling # <<>> /\ handling' = [handling EXCEPT ![1].subscribed = TRUE]
      /\ handler' = handler /\ status' = status /\ listeners' = listeners
      /\ monitor' = monitor /\ removals' = removals /\ toProxy' = toProxy
      /\ waiting' = waiting /\ routes' = routes
  BY Zenon DEF SubscribeToState, database, routeMap, links
<1>2. HandlerTokens' /\ ChannelKept' /\ GoneJustified'
  BY <1>1, SameHandlers, Zenon DEF IInv, SameRequest
<1>3. KeptAlive'
  BY <1>1, KeptSame, Zenon DEF IInv
<1>4. /\ handling[1] \in Tasks /\ handling[1] \in Range(handling) /\ Len(handling) = 1
  BY <1>1, HandlingFacts, Zenon DEF IInv
<1>5. handling \in Seq(Tasks)
  BY Zenon DEF IInv, TypeOK
<1> DEFINE k == [handling[1] EXCEPT !.subscribed = TRUE]
<1>6. k \in Tasks /\ k.token = handling[1].token /\ k.states = handling[1].states
  BY <1>4, Zenon DEF Tasks
<1>7. handling' = [handling EXCEPT ![1] = k]
  BY <1>1, Zenon
<1> HIDE DEF k
<1>8. DOMAIN handling = 1 .. 1 /\ handling \in [1 .. 1 -> Tasks]
  BY <1>4, <1>5
<1>9. handling' \in [1 .. 1 -> Tasks] /\ DOMAIN handling' = 1 .. 1 /\ \A i \in 1 .. 1 : handling'[i] = k
  BY <1>6, <1>7, <1>8
<1>10. handling' \in Seq(Tasks) /\ Len(handling') = 1
  <2>1. 1 \in Nat
    BY Zenon
  <2> QED  BY <1>9, <2>1, FunctionSeq, Zenon
<1>11. Len(handling') <= 1
  BY <1>10
<1>12. \A x \in Range(handling') : TaskJustified(x)
  <2>1. TaskJustified(handling[1])
    BY <1>4, Zenon DEF IInv, RoutesInv, TasksJustified
  <2>2. TaskJustified(k)
    BY <1>6, <2>1, Zenon DEF TaskJustified
  <2>3. \A x \in Range(handling') : x = k
    BY <1>9, Zenon DEF Range
  <2> QED  BY <2>2, <2>3, Zenon
<1>13. RoutesInv'
  BY <1>1, <1>12, StillJustified, Zenon DEF IInv
<1>14. TypeOK'
  BY <1>10, <1>11, Zenon DEF IInv, TypeOK, SubscribeToState, database, routeMap, links
<1> QED  BY <1>2, <1>3, <1>13, <1>14, Zenon DEF IInv

\* The second query, which answers or spawns a waiting task, keeps the invariant.
LEMMA RequeryStep == ASSUME IInv, Requery PROVE IInv'
<1>1. PICK t : /\ t = handling[1].token /\ handling # <<>> /\ handling' = <<>>
               /\ handler' = handler /\ status' = status /\ listeners' = listeners
               /\ monitor' = monitor /\ removals' = removals /\ routes' = routes
               /\ \/ /\ route_info_for_token(t) # "pending"
                     /\ toProxy' = Send(toProxy, RouteResponse(t, route_info_for_token(t)))
                     /\ waiting' = waiting
                  \/ /\ waiting' = Append(waiting, handling[1])
                     /\ toProxy' = toProxy
  BY Zenon DEF Requery, database, routeMap
<1>2. HandlerTokens' /\ ChannelKept' /\ GoneJustified'
  BY <1>1, SameHandlers, Zenon DEF IInv, SameRequest
<1>3. KeptAlive'
  BY <1>1, KeptSame, Zenon DEF IInv
<1>4. handling[1] \in Tasks /\ handling[1] \in Range(handling) /\ t \in Tokens
  BY <1>1, HandlingFacts, Zenon DEF IInv
<1>5. /\ toProxy' \in Seq(ToProxy)
      /\ \A m \in Range(toProxy') : m \in Range(toProxy) \/ MessageJustified(m)
      /\ waiting' \in Seq(Tasks)
      /\ \A k \in Range(waiting') : k \in Range(waiting) \/ TaskJustified(k)
  <2>1. toProxy \in Seq(ToProxy) /\ waiting \in Seq(Tasks)
    BY Zenon DEF IInv, TypeOK
  <2>2. CASE /\ route_info_for_token(t) # "pending"
             /\ toProxy' = Send(toProxy, RouteResponse(t, route_info_for_token(t)))
             /\ waiting' = waiting
    <3> DEFINE r == route_info_for_token(t)
    <3>1. r \in Routes /\ Justified(t, r)
      BY <1>4, <2>2, RouteInfo, Zenon DEF IInv
    <3>2. RouteResponse(t, r) \in ToProxy /\ MessageJustified(RouteResponse(t, r))
      BY <1>4, <3>1, ResponseJustified, Zenon
    <3>3. /\ toProxy' \in Seq(ToProxy)
          /\ \A m \in Range(toProxy') : m \in Range(toProxy) \/ MessageJustified(m)
      BY <2>2, <3>2, SendJustified, Zenon DEF IInv
    <3> QED  BY <2>1, <2>2, <3>3, Zenon
  <2>3. CASE waiting' = Append(waiting, handling[1]) /\ toProxy' = toProxy
    <3>1. waiting' \in Seq(Tasks)
      BY <1>4, <2>1, <2>3, AppendFacts, Zenon
    <3>2. Range(waiting') = Range(waiting) \cup {handling[1]}
      BY <1>4, <2>1, <2>3, RangeAppend
    <3>3. TaskJustified(handling[1])
      BY <1>4, Zenon DEF IInv, RoutesInv, TasksJustified
    <3> QED  BY <2>1, <2>3, <3>1, <3>2, <3>3, Zenon
  <2> QED  BY <1>1, <2>2, <2>3, Zenon
<1>6. handling' \in Seq(Tasks) /\ Len(handling') = 0 /\ Range(handling') = {}
  BY <1>1, ShortSequences, Zenon
<1>7. Len(handling') <= 1
  BY <1>6
<1>8. RoutesInv'
  BY <1>1, <1>5, <1>6, StillJustified, Zenon DEF IInv
<1>9. TypeOK'
  BY <1>5, <1>6, <1>7, Zenon DEF IInv, TypeOK, Requery, database, routeMap
<1> QED  BY <1>2, <1>3, <1>8, <1>9, Zenon DEF IInv

\* Handling a keepalive keeps the invariant.
LEMMA HandleKeepAliveStep == ASSUME IInv, HandleKeepAlive PROVE IInv'
<1>1. PICK b : /\ b = Head(toController).backend /\ Head(toController).type = "keepalive"
               /\ toController # <<>> /\ toController' = Tail(toController)
               /\ handler' = handler /\ status' = status /\ listeners' = listeners
               /\ monitor' = monitor /\ removals' = removals
               /\ waiting' = waiting /\ handling' = handling /\ routes' = routes
               /\ \/ status[b] = "terminated" /\ toProxy' = Send(toProxy, BackendRemoved(b))
                  \/ toProxy' = toProxy
  BY Zenon DEF HandleKeepAlive, database, controller, routeMap
<1>2. HandlerTokens' /\ ChannelKept' /\ GoneJustified'
  BY <1>1, SameHandlers, Zenon DEF IInv, SameRequest
<1>3. KeptAlive'
  BY <1>1, KeptSame, Zenon DEF IInv
<1>4. Tail(toController) \in Seq(ToController) /\ Head(toController) \in ToController
  BY <1>1, FirstMessage, Zenon DEF IInv
<1>5. b \in Backends
  BY <1>1, <1>4, MessageTypes, Zenon
<1>6. /\ toProxy' \in Seq(ToProxy)
      /\ \A m \in Range(toProxy') : m \in Range(toProxy) \/ MessageJustified(m)
  <2>1. CASE status[b] = "terminated" /\ toProxy' = Send(toProxy, BackendRemoved(b))
    <3>1. BackendRemoved(b) \in ToProxy /\ MessageJustified(BackendRemoved(b))
      BY <1>5, <2>1, RemovalJustified, Zenon
    <3> QED  BY <2>1, <3>1, SendJustified, Zenon DEF IInv
  <2>2. CASE toProxy' = toProxy
    BY <2>2, Zenon DEF IInv, TypeOK
  <2> QED  BY <1>1, <2>1, <2>2, Zenon
<1>7. RoutesInv'
  BY <1>1, <1>6, StillJustified, Zenon DEF IInv
<1>8. TypeOK'
  BY <1>1, <1>4, <1>6, Zenon DEF IInv, TypeOK, HandleKeepAlive, database, controller, routeMap
<1> QED  BY <1>2, <1>3, <1>7, <1>8, Zenon DEF IInv

\* Telling the proxy of a terminated backend keeps the invariant.
LEMMA HandleTerminatedStep ==
  ASSUME IInv, NEW b \in Backends, HandleTerminated(b)
  PROVE  IInv'
<1>1. /\ b \in removals /\ removals' = removals \ {b}
      /\ toProxy' = Send(toProxy, BackendRemoved(b))
      /\ handler' = handler /\ status' = status /\ listeners' = listeners
      /\ monitor' = monitor /\ waiting' = waiting /\ handling' = handling /\ routes' = routes
  BY Zenon DEF HandleTerminated, database, routeMap
<1>2. HandlerTokens' /\ ChannelKept' /\ GoneJustified'
  BY <1>1, SameHandlers, Zenon DEF IInv, SameRequest
<1>3. KeptAlive'
  BY <1>1, KeptSame, Zenon DEF IInv
<1>4. status[b] = "terminated"
  BY <1>1, Zenon DEF IInv, RoutesInv, RemovalsJustified
<1>5. BackendRemoved(b) \in ToProxy /\ MessageJustified(BackendRemoved(b))
  BY <1>4, RemovalJustified, Zenon
<1>6. /\ toProxy' \in Seq(ToProxy)
      /\ \A m \in Range(toProxy') : m \in Range(toProxy) \/ MessageJustified(m)
  BY <1>1, <1>5, SendJustified, Zenon DEF IInv
<1>7. \A x \in removals' : x \in removals
  BY <1>1, Zenon
<1>8. RoutesInv'
  BY <1>1, <1>6, <1>7, StillJustified, Zenon DEF IInv
<1>9. TypeOK'
  BY <1>6, <1>7, Zenon DEF IInv, TypeOK, HandleTerminated, database, routeMap
<1> QED  BY <1>2, <1>3, <1>8, <1>9, Zenon DEF IInv

\* A waiting task that hears of Ready or of an end, and answers, keeps the invariant.
LEMMA WaitOverStep ==
  ASSUME IInv, NEW i \in DOMAIN waiting, WaitOver(i)
  PROVE  IInv'
<1>1. PICK k, s, r :
         /\ k = waiting[i] /\ s = Head(k.states) /\ k.states # <<>>
         /\ r = (IF s = "ready" THEN Target[k.token] ELSE None)
         /\ toProxy' = Send(toProxy, RouteResponse(k.token, r))
         /\ waiting' = Without(waiting, i)
         /\ handler' = handler /\ status' = status /\ listeners' = listeners
         /\ monitor' = monitor /\ removals' = removals
         /\ handling' = handling /\ routes' = routes
  BY Zenon DEF WaitOver, database, routeMap
<1>2. HandlerTokens' /\ ChannelKept' /\ GoneJustified'
  BY <1>1, SameHandlers, Zenon DEF IInv, SameRequest
<1>3. KeptAlive'
  BY <1>1, KeptSame, Zenon DEF IInv
<1>4. waiting \in Seq(Tasks)
  BY Zenon DEF IInv, TypeOK
<1>5. k \in Range(waiting)
  BY <1>1, Zenon DEF Range
<1>6. k \in Tasks /\ TaskJustified(k)
  <2>1. Range(waiting) \subseteq Tasks
    BY <1>4, RangeType, Zenon
  <2> QED  BY <1>5, <2>1, Zenon DEF IInv, RoutesInv, TasksJustified
<1>7. k.token \in Tokens /\ k.states \in Seq(Statuses)
  BY <1>6, Zenon DEF Tasks
<1>8. s \in Statuses /\ s # "pending" /\ (s \in Ended => status[Target[k.token]] \in Ended)
  <2>1. s \in Range(k.states)
    BY <1>1, <1>7, RangeTail
  <2>2. s \in Statuses
    BY <1>7, <2>1, RangeType, Zenon
  <2> QED  BY <1>6, <2>1, <2>2, Zenon DEF TaskJustified
<1>9. Target[k.token] \in Backends /\ Target[k.token] # None
  BY <1>7, RoutesAssumption, HandlersAssumption, Zenon
<1>10. r \in Routes /\ Justified(k.token, r)
  <2>1. CASE s = "ready"
    BY <1>1, <1>9, <2>1, Zenon DEF Routes, Justified
  <2>2. CASE s # "ready"
    <3>1. r = None /\ s \in Ended
      BY <1>1, <1>8, <2>2, Zenon DEF Statuses
    <3> QED  BY <1>8, <3>1, Zenon DEF Routes, Justified
  <2> QED  BY <2>1, <2>2, Zenon
<1>11. RouteResponse(k.token, r) \in ToProxy /\ MessageJustified(RouteResponse(k.token, r))
  BY <1>7, <1>10, ResponseJustified, Zenon
<1>12. /\ toProxy' \in Seq(ToProxy)
       /\ \A m \in Range(toProxy') : m \in Range(toProxy) \/ MessageJustified(m)
  BY <1>1, <1>11, SendJustified, Zenon DEF IInv
<1>13. waiting' \in Seq(Tasks) /\ Range(waiting') \subseteq Range(waiting)
  BY <1>1, <1>4, WithoutFacts
<1>14. RoutesInv'
  <2>1. \A x \in Range(waiting') : x \in Range(waiting)
    BY <1>13, Zenon
  <2> QED  BY <1>1, <1>12, <2>1, StillJustified, Zenon DEF IInv
<1>15. TypeOK'
  BY <1>12, <1>13, Zenon DEF IInv, TypeOK, WaitOver, database, routeMap
<1> QED  BY <1>2, <1>3, <1>14, <1>15, Zenon DEF IInv

-----------------------------------------------------------------------------
(* What goes wrong *)

\* The end of the connection, with what is lost, keeps the invariant.
LEMMA EndConnectionStep == ASSUME IInv, Trouble, EndConnection PROVE IInv'
<1>1. /\ connected' = FALSE /\ toController' = <<>> /\ toProxy' = <<>>
      /\ handling' = <<>> /\ waiting' = <<>> /\ removals' = {}
      /\ status' = status /\ listeners' = listeners /\ routes' = routes /\ monitor' = monitor
      /\ sender' = sender /\ signalling' = signalling
      /\ handler' = [g \in Handlers |->
           IF handler[g].at = "waiting" THEN Unanswered(handler[g]) ELSE handler[g]]
  BY Zenon DEF EndConnection, Lose, database, routeMap, Unanswered
<1>2. \A g \in Handlers : handler[g] \in HandlerStates
  BY Zenon DEF IInv, TypeOK
<1>3. \A g \in Handlers :
        Unanswered(handler[g]) \in HandlerStates /\ SameRequest(Unanswered(handler[g]), handler[g])
  BY <1>2, Changes, Zenon
<1>4. handler' \in [Handlers -> HandlerStates]
  BY <1>1, <1>2, <1>3, Zenon
<1>5. \A g \in Handlers : SameRequest(handler'[g], handler[g])
  BY <1>1, <1>3, Zenon DEF SameRequest
<1>6. HandlerTokens' /\ ChannelKept' /\ GoneJustified'
  BY <1>1, <1>5, SameHandlers, Zenon DEF IInv
<1>7. KeptAlive'
  BY <1>1, <1>5, KeptSame, Zenon DEF IInv, SameRequest
<1>8. Range(<<>>) = {} /\ Len(<<>>) = 0 /\ \A S : <<>> \in Seq(S)
  BY ShortSequences, Zenon
<1>9. RoutesInv'
  BY <1>1, <1>8, StillJustified, Zenon DEF IInv
<1>10. Len(handling') <= 1
  <2>1. Len(handling') = 0
    BY <1>1, <1>8, Zenon
  <2> QED  BY <2>1
<1>11. troubles' \in 0 .. MaxTroubles
  BY TroubleType, Zenon DEF IInv
<1>12. TypeOK'
  BY <1>1, <1>4, <1>8, <1>10, <1>11, Zenon DEF IInv, TypeOK
<1> QED  BY <1>6, <1>7, <1>9, <1>12, Zenon DEF IInv

\* A database error while a message is handled keeps the invariant.
LEMMA HandleFailsStep == ASSUME IInv, HandleFails PROVE IInv'
<1>1. PICK msg :
      /\ toController # <<>> /\ toController' = Tail(toController) /\ Trouble
      /\ status' = status /\ listeners' = listeners /\ routes' = routes /\ monitor' = monitor
      /\ toProxy' = toProxy /\ removals' = removals /\ waiting' = waiting /\ handling' = handling
      /\ handler' = [g \in Handlers |->
           IF handler[g].at = "waiting" /\ msg.type = "route" /\ msg.token = handler[g].token
           THEN Unanswered(handler[g]) ELSE handler[g]]
  BY Zenon DEF HandleFails, Lose, database, controller, routeMap, Unanswered
<1>2. \A g \in Handlers : handler[g] \in HandlerStates
  BY Zenon DEF IInv, TypeOK
<1>3. \A g \in Handlers :
        Unanswered(handler[g]) \in HandlerStates /\ SameRequest(Unanswered(handler[g]), handler[g])
  BY <1>2, Changes, Zenon
<1>4. handler' \in [Handlers -> HandlerStates]
  BY <1>1, <1>2, <1>3, Zenon
<1>5. \A g \in Handlers : SameRequest(handler'[g], handler[g])
  BY <1>1, <1>3, Zenon DEF SameRequest
<1>6. HandlerTokens' /\ ChannelKept' /\ GoneJustified'
  BY <1>1, <1>5, SameHandlers, Zenon DEF IInv
<1>7. KeptAlive'
  BY <1>1, <1>5, KeptSame, Zenon DEF IInv, SameRequest
<1>8. RoutesInv'
  BY <1>1, StillJustified, Zenon DEF IInv
<1>9. toController' \in Seq(ToController)
  BY <1>1, FirstMessage, Zenon DEF IInv
<1>10. troubles' \in 0 .. MaxTroubles
  BY <1>1, TroubleType, Zenon DEF IInv
<1>11. TypeOK'
  BY <1>4, <1>9, <1>10, Zenon DEF IInv, TypeOK, HandleFails, database, controller, routeMap
<1> QED  BY <1>6, <1>7, <1>8, <1>11, Zenon DEF IInv

\* A waiting task that gives up after its timeout keeps the invariant.
LEMMA WaitTimesOutStep ==
  ASSUME IInv, NEW i \in DOMAIN waiting, WaitTimesOut(i)
  PROVE  IInv'
<1>1. /\ waiting' = Without(waiting, i) /\ Trouble
      /\ status' = status /\ listeners' = listeners /\ routes' = routes /\ monitor' = monitor
      /\ toProxy' = toProxy /\ removals' = removals /\ handling' = handling
      /\ handler' = [g \in Handlers |->
           IF handler[g].at = "waiting" /\ waiting[i].token = handler[g].token
           THEN Unanswered(handler[g]) ELSE handler[g]]
  BY Zenon DEF WaitTimesOut, Lose, database, routeMap, links, Unanswered
<1>2. \A g \in Handlers : handler[g] \in HandlerStates
  BY Zenon DEF IInv, TypeOK
<1>3. \A g \in Handlers :
        Unanswered(handler[g]) \in HandlerStates /\ SameRequest(Unanswered(handler[g]), handler[g])
  BY <1>2, Changes, Zenon
<1>4. handler' \in [Handlers -> HandlerStates]
  BY <1>1, <1>2, <1>3, Zenon
<1>5. \A g \in Handlers : SameRequest(handler'[g], handler[g])
  BY <1>1, <1>3, Zenon DEF SameRequest
<1>6. HandlerTokens' /\ ChannelKept' /\ GoneJustified'
  BY <1>1, <1>5, SameHandlers, Zenon DEF IInv
<1>7. KeptAlive'
  BY <1>1, <1>5, KeptSame, Zenon DEF IInv, SameRequest
<1>8. waiting' \in Seq(Tasks) /\ Range(waiting') \subseteq Range(waiting)
  <2>1. waiting \in Seq(Tasks)
    BY Zenon DEF IInv, TypeOK
  <2> QED  BY <1>1, <2>1, WithoutFacts
<1>9. RoutesInv'
  <2>1. \A x \in Range(waiting') : x \in Range(waiting)
    BY <1>8, Zenon
  <2> QED  BY <1>1, <2>1, StillJustified, Zenon DEF IInv
<1>10. troubles' \in 0 .. MaxTroubles
  BY <1>1, TroubleType, Zenon DEF IInv
<1>11. TypeOK'
  BY <1>4, <1>8, <1>10, Zenon DEF IInv, TypeOK, WaitTimesOut, database, routeMap, links
<1> QED  BY <1>6, <1>7, <1>9, <1>11, Zenon DEF IInv

-----------------------------------------------------------------------------
(* The theorems *)

\* A proxy that starts has no routes, no requests and no entries.
LEMMA InitInv == Init => IInv
<1> SUFFICES ASSUME Init PROVE IInv
  BY Zenon
<1>1. Range(<<>>) = {} /\ Len(<<>>) = 0 /\ \A S : <<>> \in Seq(S)
  BY ShortSequences, Zenon
<1>2. Idle \in HandlerStates /\ Idle.at = "idle"
  BY Records, Zenon
<1>3. \A g \in Handlers : handler[g] = Idle
  BY Zenon DEF Init
<1>4. EmptyMonitor \in Monitors /\ EmptyMonitor.backends = NoBackends
  <2>1. NoBackends \in UNION {[S -> Entries] : S \in SUBSET Backends}
    <3>1. NoBackends \in [{} -> Entries]
      BY Zenon DEF NoBackends
    <3>2. {} \in SUBSET Backends
      BY Zenon
    <3> QED  BY <3>1, <3>2, Zenon
  <2>2. <<>> \in Seq([backend : Backends, due : {0}])
    BY <1>1, Zenon
  <2> DEFINE F == UNION {[S -> Entries] : S \in SUBSET Backends}
             Q == Seq([backend : Backends, due : {0}])
             e == <<>>
             n == NoBackends
  <2>3. n \in F /\ e \in Q /\ Monitors = [backends : F, queue : Q]
    BY <2>1, <2>2, Zenon DEF Monitors
  <2>4. EmptyMonitor = [backends |-> n, queue |-> e]
    BY Zenon DEF EmptyMonitor
  <2> HIDE DEF F, Q, e, n
  <2>5. EmptyMonitor \in Monitors /\ EmptyMonitor.backends = n
    BY <2>3, <2>4
  <2> QED  BY <2>5, Zenon DEF n
<1>5. TypeOK
  <2>1. Len(handling) <= 1 /\ Len(routes) <= CacheSize /\ troubles \in 0 .. MaxTroubles
    <3>1. Len(handling) = 0 /\ Len(routes) = 0 /\ troubles = 0
      BY <1>1, Zenon DEF Init
    <3> QED  BY <3>1, RoutesAssumption
  <2>2. status \in [Backends -> Statuses]
    BY Zenon DEF Init, Statuses
  <2>3. handler \in [Handlers -> HandlerStates]
    BY <1>2, Zenon DEF Init
  <2> QED  BY <1>1, <1>4, <2>1, <2>2, <2>3, Zenon DEF Init, TypeOK
<1>6. HandlerTokens /\ ChannelKept /\ GoneJustified
  BY <1>2, <1>3, Zenon DEF HandlerTokens, ChannelKept, GoneJustified
<1>7. RoutesInv
  BY <1>1, Zenon DEF Init, RoutesInv, RoutesJustified, MessagesJustified, RemovalsJustified,
     TasksJustified
<1>8. KeptAlive
  <2> SUFFICES ASSUME NEW b \in Backends PROVE CountedAt(b)
    BY KeptIsCounted, Zenon
  <2>1. OpenTo(b) = {}
    BY <1>2, <1>3, Zenon DEF OpenTo
  <2>2. DOMAIN NoBackends = {}
    BY Zenon DEF NoBackends
  <2>3. monitor = EmptyMonitor
    BY Zenon DEF Init
  <2>4. ~HasEntry(monitor, b)
    BY <1>4, <2>2, <2>3, Zenon DEF HasEntry
  <2> QED  BY <2>1, <2>4, Zenon DEF CountedAt
<1> QED  BY <1>5, <1>6, <1>7, <1>8, Zenon DEF IInv

\* Every step of the proxy, the controller and their environment keeps it.
LEMMA NextInv == IInv /\ [Next]_vars => IInv'
<1> SUFFICES ASSUME IInv, [Next]_vars PROVE IInv'
  BY Zenon
<1>1. CASE ProxyStep
  <2>1. ASSUME NEW h \in Handlers, Listen(h) PROVE IInv'
    BY <2>1, ListenStep, Zenon
  <2>2. ASSUME NEW h \in Handlers, Request(h) PROVE IInv'
    BY <2>2, RequestStep, Zenon
  <2>3. ASSUME NEW h \in Handlers, Reread(h) PROVE IInv'
    BY <2>3, RereadStep, Zenon
  <2>4. ASSUME NEW h \in Handlers, Refuse(h) PROVE IInv'
    BY <2>4, RefuseStep, Zenon
  <2>5. ASSUME NEW h \in Handlers, NEW u \in BOOLEAN, Forward(h, u) PROVE IInv'
    BY <2>5, ForwardStep, Zenon
  <2>6. CASE VisitBackend
    BY <2>6, VisitBackendStep, Zenon
  <2>7. CASE Connect
    BY <2>7, ConnectStep, Zenon
  <2>8. CASE ReceiveRoute
    BY <2>8, ReceiveRouteStep, Zenon
  <2>9. CASE Signal
    BY <2>9, SignalStep, Zenon
  <2>10. CASE ReceiveRemoved
    BY <2>10, ReceiveRemovedStep, Zenon
  <2> QED  BY <1>1, <2>1, <2>2, <2>3, <2>4, <2>5, <2>6, <2>7, <2>8, <2>9, <2>10, Zenon DEF ProxyStep
<1>2. CASE ControllerStep
  <2>1. CASE Query
    BY <2>1, QueryStep, Zenon
  <2>2. CASE SubscribeToState
    BY <2>2, SubscribeToStateStep, Zenon
  <2>3. CASE Requery
    BY <2>3, RequeryStep, Zenon
  <2>4. CASE HandleKeepAlive
    BY <2>4, HandleKeepAliveStep, Zenon
  <2>5. ASSUME NEW b \in Backends, HandleTerminated(b) PROVE IInv'
    BY <2>5, HandleTerminatedStep, Zenon
  <2>6. ASSUME NEW i \in DOMAIN waiting, WaitOver(i) PROVE IInv'
    BY <2>6, WaitOverStep, Zenon
  <2> QED  BY <1>2, <2>1, <2>2, <2>3, <2>4, <2>5, <2>6, Zenon DEF ControllerStep
<1>3. CASE EnvironmentStep
  <2>1. ASSUME NEW h \in Handlers, NEW t \in Tokens, Lookup(h, t) PROVE IInv'
    BY <2>1, LookupStep, Zenon
  <2>2. ASSUME NEW h \in Handlers, Close(h) PROVE IInv'
    BY <2>2, CloseStep, Zenon
  <2>3. ASSUME NEW h \in Handlers, Cancel(h) PROVE IInv'
    BY <2>3, CancelStep, Zenon
  <2>4. ASSUME NEW b \in Backends, NEW s \in Statuses, update_state(b, s) PROVE IInv'
    BY <2>4, UpdateStateStep, Zenon
  <2>5. CASE Break
    BY <2>5, EndConnectionStep, Zenon DEF Break
  <2>6. CASE RequeryFails
    BY <2>6, EndConnectionStep, Zenon DEF RequeryFails
  <2>7. CASE HandleFails
    BY <2>7, HandleFailsStep, Zenon
  <2>8. ASSUME NEW i \in DOMAIN waiting, WaitTimesOut(i) PROVE IInv'
    BY <2>8, WaitTimesOutStep, Zenon
  <2> QED  BY <1>3, <2>1, <2>2, <2>3, <2>4, <2>5, <2>6, <2>7, <2>8, Zenon DEF EnvironmentStep
<1>4. CASE UNCHANGED vars
  <2>1. /\ handler' = handler /\ status' = status /\ listeners' = listeners
        /\ monitor' = monitor /\ toProxy' = toProxy /\ removals' = removals
        /\ handling' = handling /\ waiting' = waiting /\ routes' = routes
    BY <1>4, Zenon DEF vars, database, controller, routeMap, links
  <2>2. HandlerTokens' /\ ChannelKept' /\ GoneJustified'
    BY <2>1, SameHandlers, Zenon DEF IInv, SameRequest
  <2>3. RoutesInv'
    BY <2>1, StillJustified, Zenon DEF IInv
  <2>4. KeptAlive'
    BY <2>1, KeptSame, Zenon DEF IInv
  <2>5. TypeOK'
    BY <1>4, Zenon DEF IInv, TypeOK, vars, database, controller, routeMap, links
  <2> QED  BY <2>2, <2>3, <2>4, <2>5, Zenon DEF IInv
<1> QED  BY <1>1, <1>2, <1>3, <1>4, Zenon DEF Next

\* The invariant holds in every state that can be reached.
THEOREM Invariance == Spec => []IInv
  BY InitInv, NextInv, PTL DEF Spec

\* The proxy, the controller and the messages between them keep their types.
THEOREM TypeCorrect == Spec => []TypeOK
<1>1. IInv => TypeOK
  BY Zenon DEF IInv
<1> QED  BY <1>1, Invariance, PTL

\* The channel of a lookup that was not signalled is still in the route map, so
\* that the expect in RouteMap::lookup cannot panic.
THEOREM NoChannelLost == Spec => []ChannelKept
<1>1. IInv => ChannelKept
  BY Zenon DEF IInv
<1> QED  BY <1>1, Invariance, PTL

\* A 410 from the cache is only ever about a backend that is going away or gone.
THEOREM GoneOnlyWhenEnded == Spec => []GoneJustified
<1>1. IInv => GoneJustified
  BY Zenon DEF IInv
<1> QED  BY <1>1, Invariance, PTL

\* The monitor counts the open connections of a live backend, and will visit it.
THEOREM ConnectionsCounted == Spec => []KeptAlive
<1>1. IInv => KeptAlive
  BY Zenon DEF IInv
<1> QED  BY <1>1, Invariance, PTL
=============================================================================
