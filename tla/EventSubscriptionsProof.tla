----------------------- MODULE EventSubscriptionsProof -----------------------
(***************************************************************************)
(* Proofs about EventSubscriptions: what the manager sends is in order and *)
(* forgets nothing that it could know of, and what a client sees, over all *)
(* its streams, is in order and has no gaps.                               *)
(***************************************************************************)
EXTENDS EventSubscriptions, TLAPS

-----------------------------------------------------------------------------
(* Sequences and sets *)

\* The empty set has no elements.
LEMMA EmptyCardinality == Cardinality({}) = 0
<1> DEFINE body(f) == [T \in SUBSET {} |-> IF T = {} THEN 0 ELSE 1 + f[T \ {CHOOSE x : x \in T}]]
           CS == CHOOSE f : f = body(f)
           zero == [T \in SUBSET {} |-> 0]
<1>1. zero = body(zero)
  BY Zenon
<1>2. CS = body(CS)
  BY <1>1, Zenon
<1>3. CS[{}] = 0
  BY <1>2, Zenon
<1> QED  BY <1>3, Zenon DEF Cardinality

\* The elements of a sequence.
LEMMA SeqElement == ASSUME NEW S, NEW s \in Seq(S), NEW n \in 1..Len(s) PROVE s[n] \in S
  OBVIOUS

\* What Append adds.
LEMMA AppendFacts ==
  ASSUME NEW S, NEW s \in Seq(S), NEW e \in S
  PROVE  /\ Append(s, e) \in Seq(S) /\ Append(s, e) # <<>>
         /\ Len(s) \in Nat /\ Len(Append(s, e)) = Len(s) + 1
         /\ Append(s, e)[Len(s) + 1] = e
         /\ \A n \in 1..Len(s) : Append(s, e)[n] = s[n]
  OBVIOUS

\* What Head and Tail are.
LEMMA TailFacts ==
  ASSUME NEW S, NEW s \in Seq(S), s # <<>>
  PROVE  /\ Tail(s) \in Seq(S) /\ Head(s) \in S /\ Head(s) = s[1]
         /\ Len(s) \in Nat \ {0} /\ Len(Tail(s)) = Len(s) - 1
         /\ \A n \in 1..(Len(s) - 1) : Tail(s)[n] = s[n + 1]
  OBVIOUS

\* A sequence over a set is one over any larger set.
LEMMA SeqMono == ASSUME NEW S, NEW T, S \subseteq T, NEW s \in Seq(S) PROVE s \in Seq(T)
  OBVIOUS

\* What a sequence holds with one more element.
LEMMA RangeAppend ==
  ASSUME NEW S, NEW s \in Seq(S), NEW e \in S
  PROVE  Range(Append(s, e)) = Range(s) \cup {e}
<1>1. Len(Append(s, e)) = Len(s) + 1 /\ Append(s, e)[Len(s) + 1] = e
  OBVIOUS
<1>2. \A n \in 1..Len(s) : Append(s, e)[n] = s[n]
  OBVIOUS
<1>3. DOMAIN s = 1..Len(s) /\ DOMAIN Append(s, e) = 1..(Len(s) + 1)
  OBVIOUS
<1> QED  BY <1>1, <1>2, <1>3 DEF Range

\* What a sequence holds is its head or in its tail.
LEMMA RangeTail ==
  ASSUME NEW S, NEW s \in Seq(S), s # <<>>
  PROVE  /\ Head(s) \in Range(s)
         /\ Range(s) = Range(Tail(s)) \cup {Head(s)}
<1>1. Len(Tail(s)) = Len(s) - 1 /\ Len(s) > 0 /\ Head(s) = s[1]
  OBVIOUS
<1>2. \A n \in 1..(Len(s) - 1) : Tail(s)[n] = s[n + 1]
  OBVIOUS
<1>3. DOMAIN s = 1..Len(s) /\ DOMAIN Tail(s) = 1..(Len(s) - 1)
  OBVIOUS
<1>4. \A x \in Range(s) : x = Head(s) \/ x \in Range(Tail(s))
  <2> TAKE x \in Range(s)
  <2>1. PICK n \in 1..Len(s) : x = s[n]
    BY <1>3, Zenon DEF Range
  <2>2. CASE n = 1
    BY <1>1, <2>1, <2>2, Zenon
  <2>3. CASE n # 1
    <3>1. n - 1 \in 1..(Len(s) - 1) /\ Tail(s)[n - 1] = x
      BY <1>1, <1>2, <2>1, <2>3
    <3> QED  BY <3>1, <1>3, Zenon DEF Range
  <2> QED  BY <2>2, <2>3, Zenon
<1>5. \A x \in Range(Tail(s)) : x \in Range(s)
  <2> TAKE x \in Range(Tail(s))
  <2>1. PICK n \in 1..(Len(s) - 1) : x = Tail(s)[n]
    BY <1>3, Zenon DEF Range
  <2>2. n + 1 \in 1..Len(s) /\ s[n + 1] = x
    BY <1>1, <1>2, <2>1
  <2> QED  BY <2>2, <1>3, Zenon DEF Range
<1> QED  BY <1>1, <1>3, <1>4, <1>5 DEF Range

-----------------------------------------------------------------------------
(* Types *)

\* A full channel is one that holds something.
LEMMA PushType ==
  ASSUME NEW st \in Stream, NEW i \in Ids
  PROVE  /\ Push(st, i) \in Stream
         /\ Push(st, i).pc = st.pc
         /\ Push(st, i).rows = st.rows
         /\ Push(st, i).last_status = st.last_status
         /\ Push(st, i).last_event_id = st.last_event_id
         /\ \/ /\ Push(st, i).buffer = Append(st.buffer, i)
               /\ Push(st, i).lagged = st.lagged
            \/ /\ st.buffer # <<>>
               /\ Push(st, i).buffer = Append(Tail(st.buffer), i)
               /\ Push(st, i).lagged
<1>1. st.buffer \in Seq(Ids)
  BY Zenon DEF Stream
<1>2. CASE Len(st.buffer) < Capacity
  <2>1. Append(st.buffer, i) \in Seq(Ids)
    BY <1>1, AppendFacts, Zenon
  <2> QED  BY <1>2, <2>1, Zenon DEF Push, Stream
<1>3. CASE ~(Len(st.buffer) < Capacity)
  <2>1. st.buffer # <<>>
    BY <1>1, <1>3, SubscriptionConstants
  <2>2. Append(Tail(st.buffer), i) \in Seq(Ids)
    BY <1>1, <2>1, TailFacts, AppendFacts, Zenon
  <2> QED  BY <1>3, <2>1, <2>2, Zenon DEF Push, Stream
<1> QED  BY <1>2, <1>3, Zenon

\* More ids do not change what a stream is.
LEMMA StreamMono == ASSUME Ids \subseteq Ids' PROVE \A st \in Stream : st \in Stream'
<1> SUFFICES ASSUME NEW st \in Stream PROVE st \in Stream'
  BY Zenon
<1>1. st.buffer \in Seq(Ids')
  BY SeqMono, Zenon DEF Stream
<1> QED  BY <1>1, Zenon DEF Stream

\* What send_message does to the streams and to the history keeps their types.
LEMMA SendTypes ==
  ASSUME TypeOK, NEW i \in Ids, send_message(i)
  PROVE  stream' \in [Clients -> Stream] /\ sent' \in Seq(Ids)
<1>1. \A st \in Stream : Push(st, i) \in Stream
  BY PushType, Zenon
<1> QED  BY <1>1 DEF TypeOK, send_message

\* What a stream may be about is a status.
LEMMA StatusTypes ==
  ASSUME TypeOK
  PROVE  /\ \A b : Statuses(b) \subseteq 1..MaxStatus
         /\ \A c \in Clients : LastSeen(c) \in 0..MaxStatus
         /\ Committed \subseteq Ids /\ Ids \subseteq Nat
         /\ \A i \in Ids : event[i].backend \in Backends /\ event[i].status \in 1..MaxStatus
<1>1. Committed \subseteq Ids /\ Ids \subseteq Nat
  BY DEF TypeOK, Committed, Range, Ids
<1>2. \A i \in Ids : event[i].backend \in Backends /\ event[i].status \in 1..MaxStatus
  <2>1. \A i \in Ids : event[i] \in Event
    BY DEF TypeOK, Ids
  <2> QED  BY <2>1, Zenon DEF Event
<1>3. \A b : Statuses(b) \subseteq 1..MaxStatus
  BY <1>1, <1>2, Zenon DEF Statuses
<1>4. ASSUME NEW c \in Clients PROVE LastSeen(c) \in 0..MaxStatus
  <2>1. seen[c] \in Seq(1..MaxStatus) /\ MaxStatus \in Nat
    BY SubscriptionConstants, Zenon DEF TypeOK
  <2>2. seen[c] # <<>> => seen[c][Len(seen[c])] \in 1..MaxStatus
    BY <2>1
  <2> QED  BY <2>1, <2>2 DEF LastSeen
<1> QED  BY <1>1, <1>2, <1>3, <1>4, Zenon

\* Every action keeps the types of the variables.
LEMMA TypeStep == TypeOK /\ [Next]_vars => TypeOK'
<1> SUFFICES ASSUME TypeOK, [Next]_vars PROVE TypeOK'
  BY Zenon
<1>0. event' = event => Ids' = Ids /\ Stream' = Stream
  BY Zenon DEF Ids, Stream
<1>1. ASSUME NEW b \in Backends, NEW s \in 1..MaxStatus, Emit(b, s) PROVE TypeOK'
  <2>1. Len(event') = Len(event) + 1 /\ event' \in Seq(Event)
    BY <1>1 DEF TypeOK, Emit, Event
  <2>2. Ids \subseteq Ids' /\ Len(event) + 1 \in Ids' /\ 0..Len(event) \subseteq (0..Len(event))'
    BY <2>1 DEF Ids, TypeOK
  <2>3. commits \in Seq(Ids') /\ inbox \in Seq(Ids') /\ sent \in Seq(Ids')
    BY <2>2, SeqMono, Zenon DEF TypeOK
  <2>4. stream \in [Clients -> Stream']
    BY <2>2, StreamMono, Zenon DEF TypeOK
  <2> QED  BY <1>1, <2>1, <2>2, <2>3, <2>4, Zenon DEF TypeOK, Emit, manager
<1>2. ASSUME NEW i \in open, Commit(i) PROVE TypeOK'
  <2>1. i \in Ids
    BY Zenon DEF TypeOK
  <2>2. Append(commits, i) \in Seq(Ids) /\ Append(inbox, i) \in Seq(Ids)
    BY <2>1 DEF TypeOK
  <2> QED  BY <1>0, <1>2, <2>2, Zenon DEF TypeOK, Commit
<1>3. ASSUME NEW i \in open, Rollback(i) PROVE TypeOK'
  BY <1>0, <1>3, Zenon DEF TypeOK, Rollback, manager
<1>4. CASE Listen
  BY <1>0, <1>4 DEF TypeOK, Listen, table
<1>5. CASE Fetch
  <2>1. fetched' \subseteq Ids
    BY <1>5, StatusTypes, Zenon DEF Fetch, get_events_since
  <2> QED  BY <1>0, <1>5, <2>1, Zenon DEF TypeOK, Fetch, table
<1>6. CASE SendFetched
  <2>1. PICK i \in fetched : send_message(i) /\ fetched' = fetched \ {i} /\ last' = i
    BY <1>6, Zenon DEF SendFetched
  <2>2. i \in Ids /\ i \in 0..Len(event)
    BY DEF TypeOK, Ids
  <2>3. stream' \in [Clients -> Stream] /\ sent' \in Seq(Ids)
    BY <2>1, <2>2, SendTypes, Zenon
  <2> QED  BY <1>0, <1>6, <2>1, <2>2, <2>3, Zenon DEF TypeOK, SendFetched, table
<1>7. CASE Receive
  <2>1. Head(inbox) \in Ids /\ Tail(inbox) \in Seq(Ids)
    BY <1>7 DEF Receive, TypeOK
  <2>2. CASE Head(inbox) <= last
    BY <1>0, <1>7, <2>1, <2>2, Zenon DEF TypeOK, Receive, table
  <2>3. CASE ~(Head(inbox) <= last)
    <3>1. stream' \in [Clients -> Stream] /\ sent' \in Seq(Ids)
      BY <1>7, <2>1, <2>3, SendTypes, Zenon DEF Receive
    <3>2. Head(inbox) \in 0..Len(event)
      BY <2>1 DEF Ids, TypeOK
    <3> QED  BY <1>0, <1>7, <2>1, <2>3, <3>1, <3>2, Zenon DEF TypeOK, Receive, table
  <2> QED  BY <2>2, <2>3, Zenon
<1>8. CASE NoticeBreak
  BY <1>0, <1>8, Zenon DEF TypeOK, NoticeBreak, table
<1>9. CASE FetchFails
  <2>1. breaks' \in Nat /\ inbox' \in Seq(Ids)
    BY <1>9 DEF TypeOK, FetchFails
  <2> QED  BY <1>0, <1>9, <2>1, Zenon DEF TypeOK, FetchFails, table
<1>10. ASSUME NEW n \in 0..Len(inbox), BreakListener(n) PROVE TypeOK'
  <2>1. SubSeq(inbox, 1, n) \in Seq(Ids) /\ breaks' \in Nat
    BY <1>10 DEF TypeOK, BreakListener
  <2> QED  BY <1>0, <1>10, <2>1, Zenon DEF TypeOK, BreakListener, table
<1>11. ASSUME NEW c \in Clients, Serve(c) \/ Drop(c) \/ BreakStream(c) PROVE TypeOK'
  <2> USE SubscriptionConstants DEF table, manager
  <2>1. \A b : Statuses(b) \subseteq 1..MaxStatus
    BY StatusTypes, Zenon
  <2>2. LastSeen(c) \in 0..MaxStatus
    BY StatusTypes, Zenon
  <2>3. CASE Subscribe(c)
    <3>1. [NoStream EXCEPT !.pc = "subscribed", !.last_event_id = LastSeen(c)] \in Stream
      <4>1. <<>> \in Seq(Ids) /\ {} \in SUBSET (1..MaxStatus) /\ 0 \in 0..MaxStatus
        OBVIOUS
      <4> QED  BY <2>2, <4>1, Zenon DEF Stream, NoStream
    <3> QED  BY <1>0, <2>3, <3>1, Zenon DEF TypeOK, Subscribe
  <2>4. CASE ReadTable(c)
    <3>1. stream' \in [Clients -> Stream]
      BY <2>1, <2>4, ZenonT(40) DEF TypeOK, ReadTable, Stream
    <3> QED  BY <1>0, <2>4, <3>1, Zenon DEF TypeOK, ReadTable
  <2>5. CASE YieldRow(c)
    <3>1. PICK s \in stream[c].rows :
            /\ stream' = [stream EXCEPT ![c].rows = @ \ {s}, ![c].last_status = s]
            /\ Pass(c, s)
      BY <2>5, Zenon DEF YieldRow
    <3>2. s \in 1..MaxStatus
      BY Zenon DEF TypeOK, Stream
    <3>3. [stream[c] EXCEPT !.rows = @ \ {s}, !.last_status = s] \in Stream
      <4>1. stream[c] \in Stream /\ stream[c].rows \ {s} \in SUBSET (1..MaxStatus)
        BY Zenon DEF TypeOK, Stream
      <4>2. s \in 0..MaxStatus
        BY <3>2
      <4> QED  BY <4>1, <4>2, Zenon DEF Stream
    <3>4. seen' \in [Clients -> Seq(1..MaxStatus)]
      BY <3>1, <3>2 DEF TypeOK, Pass
    <3> QED  BY <1>0, <2>5, <3>1, <3>3, <3>4, Zenon DEF TypeOK, YieldRow
  <2>6. CASE YieldNotification(c)
    <3>1. /\ stream[c] \in Stream /\ stream[c].buffer \in Seq(Ids) /\ stream[c].buffer # <<>>
          /\ Head(stream[c].buffer) \in Ids /\ Tail(stream[c].buffer) \in Seq(Ids)
      BY <2>6, TailFacts, Zenon DEF TypeOK, YieldNotification, Stream
    <3>2. event[Head(stream[c].buffer)].status \in 1..MaxStatus
      BY <3>1, StatusTypes, Zenon
    <3> DEFINE h == Head(stream[c].buffer)
               skipped == [stream[c] EXCEPT !.buffer = Tail(@)]
               yielded == [stream[c] EXCEPT !.buffer = Tail(@), !.last_status = event[h].status]
    <3>3. skipped \in Stream /\ yielded \in Stream
      <4>1. event[h].status \in 0..MaxStatus
        BY <3>2
      <4> QED  BY <3>1, <4>1, Zenon DEF Stream
    <3>4. stream' = [stream EXCEPT ![c] = skipped] \/ stream' = [stream EXCEPT ![c] = yielded]
      BY <2>6, Zenon DEF TypeOK, YieldNotification
    <3>5. stream' \in [Clients -> Stream]
      BY <3>3, <3>4, Zenon DEF TypeOK
    <3>6. seen' \in [Clients -> Seq(1..MaxStatus)]
      <4>1. Append(seen[c], event[h].status) \in Seq(1..MaxStatus)
        BY <3>2, AppendFacts, Zenon DEF TypeOK
      <4>2. seen' = seen \/ seen' = [seen EXCEPT ![c] = Append(@, event[h].status)]
        BY <2>6, Zenon DEF YieldNotification, Pass
      <4> QED  BY <4>1, <4>2, Zenon DEF TypeOK
    <3> QED  BY <1>0, <2>6, <3>5, <3>6, Zenon DEF TypeOK, YieldNotification
  <2>7. CASE StreamEnds(c) \/ BreakStream(c)
    <3>1. stream' = [stream EXCEPT ![c] = NoStream] /\ NoStream \in Stream
      BY <2>7 DEF StreamEnds, BreakStream, Abandon, NoStream, Stream
    <3>2. stream' \in [Clients -> Stream] 
      BY <3>1, Zenon DEF TypeOK
    <3>3. dropping' = [dropping EXCEPT ![c] = @ + 1] /\ (breaks' = breaks \/ breaks' = breaks + 1)
      BY <2>7, Zenon DEF StreamEnds, BreakStream, Abandon
    <3>4. dropping' \in [Clients -> Nat] /\ breaks' \in Nat
      BY <3>3 DEF TypeOK
    <3> QED  BY <1>0, <2>7, <3>2, <3>4, Zenon DEF TypeOK, StreamEnds, BreakStream
  <2>8. CASE Drop(c)
    <3>1. dropping' \in [Clients -> Nat] /\ listeners' \subseteq Backends
      BY <2>8 DEF TypeOK, Drop
    <3> QED  BY <1>0, <2>8, <3>1, Zenon DEF TypeOK, Drop
  <2> QED  BY <1>11, <2>3, <2>4, <2>5, <2>6, <2>7, <2>8, Zenon DEF Serve
<1>12. CASE UNCHANGED vars
  BY <1>0, <1>12, Zenon DEF TypeOK, vars
<1> QED
  BY <1>1, <1>2, <1>3, <1>4, <1>5, <1>6, <1>7, <1>8, <1>9, <1>10, <1>11, <1>12, Zenon
     DEF Next, Database, Manager, Faults

-----------------------------------------------------------------------------
(* The inductive invariant *)

\* One backend has at most one transaction open, and its events are inserted
\* in the order of their statuses.
TableOrder ==
  /\ open \cap Committed = {}
  /\ \A i, j \in open : event[i].backend = event[j].backend => i = j
  /\ \A i \in open, j \in Committed :
       event[i].backend = event[j].backend => j < i /\ event[j].status < event[i].status
  /\ \A i, j \in Committed :
       (event[i].backend = event[j].backend /\ event[i].status < event[j].status) => i < j

\* What was sent is at most last_message, what is yet to be sent is above it.
SentBelow ==
  /\ SentInOrder
  /\ \A n \in 1..Len(sent) : sent[n] \in Committed /\ sent[n] <= last
  /\ last # 0 => last \in Committed
  /\ sent = <<>> => last = 0
  /\ \A i \in fetched : i \in Committed /\ last < i
  /\ fetched # {} => phase = "catchup"

\* The rows of an answer leave out nothing below them but what was committed
\* after the query.
FetchedFirst ==
  \A i \in Committed, f \in fetched : (last < i /\ i < f) => i \in fetched \/ Overtaken(i)

\* What is not above last_message will not be sent any more.
PassedOver ==
  \A i \in Committed : i <= last => i \in Range(sent) \/ Overtaken(i) \/ Early(i)

\* The notifications that are received follow each other in the order of
\* commit, up to the last one while the connection is alive; what was
\* committed before them is dealt with once the listener is live.
InboxSuffix ==
  \E k \in 0..Len(commits) :
    /\ k + Len(inbox) <= Len(commits)
    /\ \A n \in 1..Len(inbox) : inbox[n] = commits[k + n]
    /\ conn => k + Len(inbox) = Len(commits)
    /\ phase = "live" => \A p \in 1..k : commits[p] <= last \/ Early(commits[p])

ManagerInv == SentBelow /\ FetchedFirst /\ PassedOver /\ InboxSuffix

\* Everything a stream refers to was committed.
StreamKnown(c) ==
  /\ \A n \in 1..Len(seen[c]) : seen[c][n] \in Statuses(Watched[c])
  /\ stream[c].rows \subseteq Statuses(Watched[c])
  /\ stream[c].last_status # 0 => stream[c].last_status \in Statuses(Watched[c])
  /\ stream[c].last_event_id # 0 => stream[c].last_event_id \in Statuses(Watched[c])

\* The rows that are left are above the last status, and complete below the
\* last of them.
RowsAhead(c) ==
  /\ stream[c].pc = "subscribed" => stream[c].last_status = 0
  /\ \A r \in stream[c].rows : stream[c].last_status < r
  /\ \A r \in stream[c].rows, s \in Statuses(Watched[c]) :
       s < r => s \in stream[c].rows \/ s <= stream[c].last_status

\* The channel holds events of the backend in the order in which they were
\* sent, and has all that neither the table nor an earlier one gave.
BufferAhead(c) ==
  /\ \A n \in 1..Len(stream[c].buffer) :
       /\ stream[c].buffer[n] \in Range(sent)
       /\ event[stream[c].buffer[n]].backend = Watched[c]
  /\ \A m, n \in 1..Len(stream[c].buffer) : m < n => stream[c].buffer[m] < stream[c].buffer[n]
  /\ (stream[c].pc = "streaming" /\ ~stream[c].lagged) =>
       \A i \in Range(sent) : event[i].backend = Watched[c] =>
         \/ event[i].status \in stream[c].rows
         \/ i \in Range(stream[c].buffer)
         \/ event[i].status <= stream[c].last_status

\* A status that the manager could send has been seen.
Covered(c, i) ==
  event[i].status \in Range(seen[c]) \/ Overtaken(i) \/ (sent # <<>> /\ Early(i))

\* What the client has seen is what the stream has passed on or was asked to
\* leave out, and that has no gaps.
SeenBelow(c) ==
  Attached(c) =>
    /\ \A n \in 1..Len(seen[c]) :
         seen[c][n] <= stream[c].last_status \/ seen[c][n] <= stream[c].last_event_id
    /\ \A i \in Committed :
         (/\ event[i].backend = Watched[c]
          /\ \/ event[i].status <= stream[c].last_status
             \/ event[i].status <= stream[c].last_event_id) => Covered(c, i)

\* SeenInOrder and NoGaps for one client.
SeenSoFar(c) ==
  /\ \A m, n \in 1..Len(seen[c]) : m < n => seen[c][m] < seen[c][n]
  /\ \A i \in Committed :
       (event[i].backend = Watched[c] /\ event[i].status < LastSeen(c)) => Covered(c, i)

ClientInv(c) ==
  StreamKnown(c) /\ RowsAhead(c) /\ BufferAhead(c) /\ SeenBelow(c) /\ SeenSoFar(c)

StreamInv == \A c \in Clients : ClientInv(c)

IInv == TypeOK /\ TableOrder /\ ManagerInv /\ LiveIsListed /\ StreamInv

-----------------------------------------------------------------------------
(* The table *)

\* What an append to the commits does to the ones before.
LEMMA CommitAppends ==
  ASSUME TypeOK, NEW i \in open, Commit(i)
  PROVE  /\ i \in Ids
         /\ Len(commits') = Len(commits) + 1
         /\ commits'[Len(commits) + 1] = i
         /\ \A n \in 1..Len(commits) : commits'[n] = commits[n]
         /\ Committed' = Committed \cup {i}
<1>1. i \in Ids /\ commits \in Seq(Ids) /\ commits' = Append(commits, i)
  BY Zenon DEF TypeOK, Commit
<1> QED  BY <1>1, AppendFacts, RangeAppend DEF Committed

\* Transactions keep the order of a backend's events.
LEMMA TableStep == TypeOK /\ TableOrder /\ [Next]_vars => TableOrder'
<1> SUFFICES ASSUME TypeOK, TableOrder, [Next]_vars PROVE TableOrder'
  BY Zenon
<1>0. Committed \subseteq Ids /\ open \subseteq Ids
  BY StatusTypes, Zenon DEF TypeOK
<1>1. ASSUME NEW b \in Backends, NEW s \in 1..MaxStatus, Emit(b, s) PROVE TableOrder'
  <2>1. /\ \A i \in Ids : event'[i] = event[i]
        /\ event'[Len(event) + 1] = [backend |-> b, status |-> s]
        /\ Len(event) + 1 \notin Ids
        /\ \A i \in Ids : i < Len(event) + 1
    BY <1>1 DEF Emit, TypeOK, Ids, Event
  <2>2. Committed' = Committed /\ open' = open \cup {Len(event) + 1}
    BY <1>1, Zenon DEF Emit, Committed
  <2>3. \A j \in Committed : event[j].backend = b => event[j].status < s
    BY <1>1, Zenon DEF Emit, Statuses
  <2>4. \A j \in open : event[j].backend # b
    BY <1>1, Zenon DEF Emit
  <2> QED  BY <1>0, <2>1, <2>2, <2>3, <2>4 DEF TableOrder
<1>2. ASSUME NEW i \in open, Commit(i) PROVE TableOrder'
  <2>1. Committed' = Committed \cup {i} /\ open' = open \ {i} /\ event' = event
    BY <1>2, CommitAppends, Zenon DEF Commit
  <2>2. \A j \in Ids : event[j].status \in Nat /\ j \in Nat
    BY StatusTypes, SubscriptionConstants
  <2> QED  BY <1>0, <2>1, <2>2 DEF TableOrder
<1>3. ASSUME NEW i \in open, Rollback(i) PROVE TableOrder'
  BY <1>3, Zenon DEF Rollback, TableOrder, Committed
<1>4. CASE UNCHANGED table
  BY <1>4 DEF table, TableOrder, Committed
<1>5. ASSUME NEW c \in Clients, Serve(c) \/ Drop(c) \/ BreakStream(c) PROVE UNCHANGED table
  BY <1>5, Zenon DEF Serve, Drop, BreakStream, Subscribe, ReadTable, YieldRow, YieldNotification, StreamEnds
<1>6. CASE Manager \/ FetchFails
  BY <1>4, <1>6, Zenon DEF Manager, FetchFails, Listen, Fetch, SendFetched, Receive, NoticeBreak
<1>7. ASSUME NEW n \in 0..Len(inbox), BreakListener(n) PROVE UNCHANGED table
  BY <1>7, Zenon DEF BreakListener
<1>8. UNCHANGED vars => UNCHANGED table
  BY Zenon DEF vars, table
<1> QED  BY <1>1, <1>2, <1>3, <1>4, <1>5, <1>6, <1>7, <1>8, Zenon DEF Next, Database, Faults

-----------------------------------------------------------------------------
(* The manager *)

\* A commit overtakes nothing that was committed before it, and is overtaken
\* if its id is not the highest.
LEMMA CommitOvertaken ==
  ASSUME TypeOK, NEW i \in open, Commit(i)
  PROVE  /\ \A j : Overtaken(j) => Overtaken(j)'
         /\ \A j : Early(j) => Early(j)'
         /\ \A j \in Committed : j > i => Overtaken(i)'
<1>1. /\ commits \in Seq(Ids) /\ Len(commits) \in Nat /\ Len(commits') = Len(commits) + 1
      /\ commits'[Len(commits) + 1] = i
      /\ \A n \in 1..Len(commits) : commits'[n] = commits[n]
  BY CommitAppends DEF TypeOK
<1>2. 1..Len(commits) \subseteq 1..Len(commits') /\ Len(commits) + 1 \in 1..Len(commits')
  BY <1>1
<1>3. ASSUME NEW j, Overtaken(j) PROVE Overtaken(j)'
  BY <1>1, <1>2, <1>3, Zenon DEF Overtaken
<1>4. ASSUME NEW j, Early(j) PROVE Early(j)'
  <2>1. sent' = sent
    BY Zenon DEF Commit
  <2> QED  BY <1>1, <1>2, <1>4, <2>1, Zenon DEF Early
<1>5. ASSUME NEW j \in Committed, j > i PROVE Overtaken(i)'
  <2>1. PICK m \in 1..Len(commits) : commits[m] = j
    BY <1>1 DEF Committed, Range
  <2>2. m < Len(commits) + 1 /\ m \in 1..Len(commits')
    BY <1>1, <1>2
  <2> QED  BY <1>1, <1>2, <1>5, <2>1, <2>2, Zenon DEF Overtaken
<1> QED  BY <1>3, <1>4, <1>5, Zenon

\* A commit is above all that was sent, or overtaken.
LEMMA CommitManager ==
  ASSUME TypeOK, TableOrder, ManagerInv, NEW i \in open, Commit(i)
  PROVE  ManagerInv'
<1>1. /\ i \in Ids /\ Ids \subseteq Nat /\ Committed \subseteq Ids
      /\ Committed' = Committed \cup {i} /\ i \notin Committed
  BY CommitAppends, StatusTypes, Zenon DEF TableOrder
<1>2. /\ sent' = sent /\ last' = last /\ fetched' = fetched /\ phase' = phase /\ conn' = conn
      /\ inbox' = IF conn THEN Append(inbox, i) ELSE inbox
  BY Zenon DEF Commit
<1>3. last \in Nat
  BY DEF TypeOK
<1>4. SentBelow'
  BY <1>1, <1>2, Zenon DEF ManagerInv, SentBelow, SentInOrder
<1>5. FetchedFirst'
  BY <1>1, <1>2, CommitOvertaken, Zenon DEF ManagerInv, SentBelow, FetchedFirst
<1>6. PassedOver'
  BY <1>1, <1>2, <1>3, CommitOvertaken DEF ManagerInv, SentBelow, PassedOver, Ids
<1>7. InboxSuffix'
  <2>1. PICK k \in 0..Len(commits) :
          /\ k + Len(inbox) <= Len(commits)
          /\ \A n \in 1..Len(inbox) : inbox[n] = commits[k + n]
          /\ conn => k + Len(inbox) = Len(commits)
          /\ phase = "live" => \A q \in 1..k : commits[q] <= last \/ Early(commits[q])
    BY Zenon DEF ManagerInv, InboxSuffix
  <2>2. /\ Len(commits) \in Nat /\ Len(inbox) \in Nat
        /\ Len(commits') = Len(commits) + 1
        /\ commits'[Len(commits) + 1] = i
        /\ \A n \in 1..Len(commits) : commits'[n] = commits[n]
    BY CommitAppends DEF TypeOK
  <2>3. k \in 0..Len(commits')
    BY <2>2
  <2>4. phase' = "live" => \A q \in 1..k : commits'[q] <= last' \/ Early(commits[q])'
    BY <1>2, <2>1, <2>2, CommitOvertaken
  <2>5. \A q \in 1..k : commits'[q] = commits[q]
    BY <2>2
  <2>6. CASE ~conn
    <3>1. /\ inbox' = inbox /\ ~conn'
          /\ k + Len(inbox) <= Len(commits')
          /\ \A n \in 1..Len(inbox) : inbox[n] = commits'[k + n]
      BY <1>2, <2>1, <2>2, <2>6
    <3> QED  BY <2>3, <2>4, <2>5, <3>1, Zenon DEF InboxSuffix
  <2>7. CASE conn
    <3>1. /\ inbox' = Append(inbox, i) /\ Len(inbox') = Len(inbox) + 1 /\ inbox'[Len(inbox) + 1] = i
          /\ \A n \in 1..Len(inbox) : inbox'[n] = inbox[n]
      BY <1>1, <1>2, <2>7, AppendFacts DEF TypeOK
    <3>2. k + Len(inbox') = Len(commits')
      BY <2>1, <2>2, <2>7, <3>1
    <3>3. ASSUME NEW n \in 1..Len(inbox') PROVE inbox'[n] = commits'[k + n]
      <4>1. CASE n \in 1..Len(inbox)
        BY <2>1, <2>2, <3>1, <4>1
      <4>2. CASE n = Len(inbox) + 1
        <5>1. k + n = Len(commits) + 1
          BY <2>1, <2>2, <2>7, <4>2
        <5> QED  BY <2>2, <3>1, <4>2, <5>1, Zenon
      <4> QED  BY <2>2, <3>1, <4>1, <4>2
    <3> QED  BY <2>2, <2>3, <2>4, <2>5, <3>2, <3>3 DEF InboxSuffix
  <2> QED  BY <2>6, <2>7, Zenon
<1> QED  BY <1>4, <1>5, <1>6, <1>7, Zenon DEF ManagerInv

\* Sending an event above last_message keeps the order, and leaves behind only
\* what was overtaken or came early.
LEMMA SendManager ==
  ASSUME TypeOK, SentBelow, PassedOver, NEW i \in Committed, i > last,
         sent' = Append(sent, i), last' = i, commits' = commits,
         \A j \in fetched' : j \in fetched /\ i < j,
         fetched' # {} => phase' = "catchup",
         \A j \in Committed : (last < j /\ j < i) => Overtaken(j) \/ Early(j)'
  PROVE  /\ SentBelow'
         /\ PassedOver'
         /\ Range(sent') = Range(sent) \cup {i}
         /\ \A j : sent # <<>> /\ Early(j) => Early(j)'
<1>1. Committed' = Committed /\ Committed \subseteq Ids /\ Ids \subseteq Nat \ {0} /\ last \in Nat
  <2>1. Committed \subseteq Ids
    BY StatusTypes, Zenon
  <2> QED  BY <2>1 DEF TypeOK, Committed, Ids
<1>0. \A j : Overtaken(j)' = Overtaken(j)
  BY Zenon DEF Overtaken
<1>2. /\ sent \in Seq(Ids) /\ Len(sent) \in Nat /\ i \in Ids
      /\ Len(sent') = Len(sent) + 1 /\ sent'[Len(sent) + 1] = i
      /\ \A n \in 1..Len(sent) : sent'[n] = sent[n]
      /\ sent' # <<>>
  <2>1. sent \in Seq(Ids) /\ i \in Ids
    BY <1>1, Zenon DEF TypeOK
  <2> QED  BY <2>1, AppendFacts
<1>3. Range(sent') = Range(sent) \cup {i}
  BY <1>2, RangeAppend
<1>4. ASSUME NEW j, sent # <<>>, Early(j) PROVE Early(j)'
  <2>1. sent'[1] = sent[1]
    BY <1>2, <1>4
  <2> QED  BY <1>4, <2>1 DEF Early
<1>5. SentBelow'
  <2>1. \A n \in 1..Len(sent') : sent'[n] \in Committed' /\ sent'[n] <= last'
    <3> SUFFICES ASSUME NEW n \in 1..Len(sent') PROVE sent'[n] \in Committed /\ sent'[n] <= i
      BY <1>1, Zenon
    <3>1. CASE n \in 1..Len(sent)
      <4>1. sent'[n] \in Committed /\ sent'[n] <= last
        BY <1>2, <3>1, Zenon DEF SentBelow
      <4>2. sent'[n] \in Nat /\ i \in Nat /\ last \in Nat /\ last < i
        BY <1>1, <4>1, Zenon
      <4> QED  BY <4>1, <4>2
    <3>2. CASE n = Len(sent) + 1
      BY <1>1, <1>2, <3>2
    <3> QED  BY <1>2, <3>1, <3>2
  <2>2. SentInOrder'
    <3> SUFFICES ASSUME NEW m \in 1..Len(sent'), NEW n \in 1..Len(sent'), m < n
                 PROVE  sent'[m] < sent'[n]
      BY Zenon DEF SentInOrder
    <3>1. m \in 1..Len(sent) /\ sent'[m] = sent[m] /\ sent[m] \in Committed /\ sent[m] <= last
      BY <1>2 DEF SentBelow
    <3>2. CASE n \in 1..Len(sent)
      BY <1>2, <3>1, <3>2, Zenon DEF SentBelow, SentInOrder
    <3>3. CASE n = Len(sent) + 1
      <4>1. sent[m] \in Nat /\ i \in Nat /\ last \in Nat /\ last < i
        BY <1>1, <3>1, Zenon
      <4> QED  BY <1>2, <3>1, <3>3, <4>1
    <3> QED  BY <1>2, <3>2, <3>3
  <2>3. last' \in Committed' /\ \A j \in fetched' : j \in Committed' /\ last' < j
    BY <1>1, Zenon DEF SentBelow
  <2> QED  BY <1>2, <2>1, <2>2, <2>3, Zenon DEF SentBelow
<1>6. PassedOver'
  <2> SUFFICES ASSUME NEW j \in Committed, j <= i
               PROVE  j \in Range(sent') \/ Overtaken(j) \/ Early(j)'
    BY <1>0, <1>1, Zenon DEF PassedOver
  <2>1. CASE j <= last
    <3>1. sent # <<>>
      BY <1>1, <2>1 DEF SentBelow
    <3> QED  BY <1>3, <1>4, <2>1, <3>1, Zenon DEF PassedOver
  <2>2. CASE j = i
    BY <1>3, <2>2, Zenon
  <2>3. CASE last < j /\ j < i
    BY <2>3, Zenon
  <2> QED  BY <1>1, <2>1, <2>2, <2>3
<1> QED  BY <1>3, <1>4, <1>5, <1>6, Zenon

\* The rows of an answer are sent from the lowest id on.
LEMMA SendFetchedManager == TypeOK /\ ManagerInv /\ SendFetched => ManagerInv'
<1> SUFFICES ASSUME TypeOK, ManagerInv, SendFetched PROVE ManagerInv'
  BY Zenon
<1>1. PICK i \in fetched : /\ \A j \in fetched : i <= j
                           /\ send_message(i) /\ fetched' = fetched \ {i} /\ last' = i
  BY Zenon DEF SendFetched
<1>2. /\ i \in Committed /\ i > last /\ sent' = Append(sent, i) /\ commits' = commits
      /\ phase = "catchup" /\ phase' = phase /\ conn' = conn /\ inbox' = inbox
      /\ fetched \subseteq Nat /\ Committed \subseteq Nat /\ last \in Nat
  BY <1>1, StatusTypes DEF SendFetched, send_message, table, ManagerInv, SentBelow, TypeOK
<1>3. \A j \in fetched' : j \in fetched /\ i < j
  BY <1>1, <1>2
<1>4. \A j \in Committed : (last < j /\ j < i) => Overtaken(j)
  BY <1>1, <1>2 DEF ManagerInv, FetchedFirst
<1>5. SentBelow' /\ PassedOver'
  BY <1>1, <1>2, <1>3, <1>4, SendManager, Zenon DEF ManagerInv
<1>6. FetchedFirst'
  <2>1. Committed' = Committed /\ \A j : Overtaken(j)' = Overtaken(j)
    BY <1>2, Zenon DEF Committed, Overtaken
  <2> QED  BY <1>1, <1>2, <2>1 DEF ManagerInv, FetchedFirst
<1>7. InboxSuffix'
  BY <1>2, Zenon DEF ManagerInv, InboxSuffix
<1> QED  BY <1>5, <1>6, <1>7, Zenon DEF ManagerInv

\* A notification is skipped if its event was sent before; the events that one
\* passes over were committed after it, or before the first.
LEMMA ReceiveManager == TypeOK /\ ManagerInv /\ Receive => ManagerInv'
<1> SUFFICES ASSUME TypeOK, ManagerInv, Receive PROVE ManagerInv'
  BY Zenon
<1> DEFINE h == Head(inbox)
<1>1. PICK k \in 0..Len(commits) :
        /\ k + Len(inbox) <= Len(commits)
        /\ \A n \in 1..Len(inbox) : inbox[n] = commits[k + n]
        /\ conn => k + Len(inbox) = Len(commits)
        /\ \A q \in 1..k : commits[q] <= last \/ Early(commits[q])
  BY Zenon DEF ManagerInv, InboxSuffix, Receive
<1>2. /\ Len(commits) \in Nat /\ Len(inbox) \in Nat \ {0}
      /\ Len(inbox') = Len(inbox) - 1
      /\ \A n \in 1..Len(inbox') : inbox'[n] = inbox[n + 1]
      /\ h = inbox[1]
  BY TailFacts DEF TypeOK, Receive
<1>3. k + 1 \in 1..Len(commits) /\ h = commits[k + 1]
  BY <1>1, <1>2
<1>4. /\ h \in Committed /\ Committed \subseteq Nat /\ last \in Nat
      /\ \A q \in 1..Len(commits) : commits[q] \in Committed
      /\ \A j \in Committed : \E q \in 1..Len(commits) : j = commits[q]
  <2>1. commits \in Seq(Ids) /\ last \in Nat /\ Committed \subseteq Nat
    BY StatusTypes DEF TypeOK
  <2>2. DOMAIN commits = 1..Len(commits)
    BY <2>1
  <2> QED  BY <1>3, <2>1, <2>2, Zenon DEF Committed, Range
<1>5. /\ commits' = commits /\ conn' = conn /\ phase = "live" /\ phase' = phase
      /\ fetched = {} /\ fetched' = {}
  BY Zenon DEF Receive, table
<1>6. /\ k + 1 + Len(inbox') <= Len(commits)
      /\ \A n \in 1..Len(inbox') : inbox'[n] = commits[k + 1 + n]
      /\ conn => k + 1 + Len(inbox') = Len(commits)
  <2>1. \A n \in 1..Len(inbox') : n + 1 \in 1..Len(inbox) /\ k + (n + 1) = k + 1 + n
    BY <1>2
  <2>2. \A n \in 1..Len(inbox') : inbox'[n] = commits[k + 1 + n]
    BY <1>1, <1>2, <2>1, Zenon
  <2>3. k + 1 + Len(inbox') = k + Len(inbox)
    BY <1>2
  <2> QED  BY <1>1, <2>2, <2>3, Zenon
<1>7. CASE h <= last
  <2>1. last' = last /\ sent' = sent
    BY <1>7, Zenon DEF Receive
  <2>2. \A q \in 1..(k + 1) : commits[q] <= last \/ Early(commits[q])
    BY <1>1, <1>3, <1>7
  <2>3. InboxSuffix'
    BY <1>3, <1>5, <1>6, <2>1, <2>2 DEF InboxSuffix, Early
  <2>4. SentBelow' /\ FetchedFirst' /\ PassedOver'
    BY <1>5, <2>1 DEF ManagerInv, SentBelow, FetchedFirst, PassedOver, SentInOrder, Committed, Overtaken, Early
  <2> QED  BY <2>3, <2>4, Zenon DEF ManagerInv
<1>8. CASE ~(h <= last)
  <2>1. last' = h /\ sent' = Append(sent, h) /\ h > last
    BY <1>4, <1>8 DEF Receive, send_message
  <2>2. ASSUME NEW q \in 1..k, Early(commits[q]) PROVE Early(commits[q])'
    <3>1. sent \in Seq(Ids) /\ h \in Ids /\ Len(sent) \in Nat
      <4>1. h \in Ids
        BY <1>4, StatusTypes, Zenon
      <4> QED  BY <4>1 DEF TypeOK
    <3>2. CASE sent # <<>>
      <4>1. sent'[1] = sent[1]
        BY <2>1, <3>1, <3>2, AppendFacts
      <4> QED  BY <1>5, <2>2, <3>2, <4>1, Zenon DEF Early
    <3>3. CASE sent = <<>>
      <4>1. sent'[1] = h
        BY <2>1, <3>3
      <4>2. q \in 1..Len(commits) /\ q < k + 1
        BY <1>1, <1>2
      <4> QED  BY <1>3, <1>5, <4>1, <4>2, Zenon DEF Early
    <3> QED  BY <3>2, <3>3, Zenon
  <2>3. ASSUME NEW j \in Committed, last < j, j < h PROVE Overtaken(j) \/ Early(j)'
    <3>1. PICK q \in 1..Len(commits) : j = commits[q]
      BY <1>4, Zenon
    <3>2. CASE q \in 1..k
      <4>1. ~(commits[q] <= last)
        BY <1>4, <2>3, <3>1
      <4> QED  BY <1>1, <1>5, <2>2, <3>1, <3>2, <4>1, Zenon
    <3>3. CASE q = k + 1
      BY <1>3, <1>4, <2>3, <3>1, <3>3
    <3>4. CASE q > k + 1
      BY <1>3, <2>3, <3>1, <3>4, Zenon DEF Overtaken
    <3> QED  BY <1>2, <3>2, <3>3, <3>4
  <2>4. SentBelow' /\ PassedOver'
    BY <1>4, <1>5, <2>1, <2>3, SendManager, Zenon DEF ManagerInv
  <2>5. FetchedFirst'
    BY <1>5, Zenon DEF FetchedFirst
  <2>6. ASSUME NEW q \in 1..(k + 1) PROVE commits'[q] <= last' \/ Early(commits[q])'
    <3>1. CASE q = k + 1
      <4>1. h \in Nat
        BY <1>4, Zenon
      <4> QED  BY <1>3, <1>5, <2>1, <3>1, <4>1
    <3>2. CASE q \in 1..k
      <4>1. q \in 1..Len(commits)
        BY <1>2, <3>2
      <4>2. CASE commits[q] <= last
        <5>1. commits[q] \in Nat /\ h \in Nat /\ last \in Nat
          BY <1>4, <4>1, Zenon
        <5> QED  BY <1>5, <2>1, <4>2, <5>1
      <4> QED  BY <1>1, <2>2, <3>2, <4>2, Zenon
    <3> QED  BY <3>1, <3>2
  <2>7. InboxSuffix'
    BY <1>3, <1>5, <1>6, <2>6 DEF InboxSuffix
  <2> QED  BY <2>4, <2>5, <2>7, Zenon DEF ManagerInv
<1> QED  BY <1>7, <1>8, Zenon

\* An answer holds the lowest ids, and is empty only if there is nothing.
LEMMA FetchManager == TypeOK /\ ManagerInv /\ Fetch => ManagerInv'
<1> SUFFICES ASSUME TypeOK, ManagerInv, Fetch PROVE ManagerInv'
  BY Zenon
<1> DEFINE after == {i \in Committed : i > last}
<1>1. /\ commits' = commits /\ conn' = conn /\ inbox' = inbox /\ last' = last /\ sent' = sent
      /\ phase = "catchup" /\ phase' = IF fetched' = {} THEN "live" ELSE phase
      /\ fetched' \subseteq after
      /\ \A i \in fetched', j \in after \ fetched' : i < j
      /\ fetched' = after \/ Cardinality(fetched') = Limit
  BY Zenon DEF Fetch, table, get_events_since
<1>2. Committed' = Committed /\ Committed \subseteq Nat /\ last \in Nat
  BY <1>1, StatusTypes DEF TypeOK, Committed
<1>3. \A j : Overtaken(j)' = Overtaken(j) /\ Early(j)' = Early(j)
  BY <1>1, Zenon DEF Overtaken, Early
<1>4. fetched' = {} => after = {}
  BY <1>1, EmptyCardinality, SubscriptionConstants, Zenon
<1>5. SentBelow'
  BY <1>1, <1>2, Zenon DEF ManagerInv, SentBelow, SentInOrder
<1>6. FetchedFirst'
  BY <1>1, <1>2 DEF FetchedFirst
<1>7. PassedOver'
  BY <1>1, <1>2, <1>3, Zenon DEF ManagerInv, PassedOver
<1>8. InboxSuffix'
  <2>1. PICK k \in 0..Len(commits) :
          /\ k + Len(inbox) <= Len(commits)
          /\ \A n \in 1..Len(inbox) : inbox[n] = commits[k + n]
          /\ conn => k + Len(inbox) = Len(commits)
    BY Zenon DEF ManagerInv, InboxSuffix
  <2>2. ASSUME fetched' = {}, NEW q \in 1..k PROVE commits[q] <= last
    <3>1. commits[q] \in Committed
      BY DEF Committed, Range, TypeOK
    <3>2. commits[q] \notin after /\ commits[q] \in Nat
      BY <1>2, <1>4, <2>2, <3>1, Zenon
    <3> QED  BY <1>2, <3>1, <3>2
  <2> QED  BY <1>1, <2>1, <2>2, Zenon DEF InboxSuffix
<1> QED  BY <1>5, <1>6, <1>7, <1>8, Zenon DEF ManagerInv

\* What the connection of the listener does.
LEMMA ListenManager ==
  ASSUME TypeOK, ManagerInv,
         Listen \/ FetchFails \/ NoticeBreak \/ \E n \in 0..Len(inbox) : BreakListener(n)
  PROVE  ManagerInv'
<1>1. commits' = commits /\ fetched' = fetched /\ last' = last /\ sent' = sent
  BY Zenon DEF Listen, FetchFails, NoticeBreak, BreakListener, table
<1>2. fetched' # {} => phase' = "catchup"
  BY Zenon DEF Listen, FetchFails, NoticeBreak, BreakListener, ManagerInv, SentBelow
<1>3. SentBelow' /\ FetchedFirst' /\ PassedOver'
  BY <1>1, <1>2 DEF ManagerInv, SentBelow, FetchedFirst, PassedOver, SentInOrder, Committed, Overtaken, Early
<1>4. Len(commits) \in Nat /\ Len(inbox) \in Nat
  BY DEF TypeOK
<1>5. CASE Listen \/ FetchFails
  <2>1. inbox' = <<>> /\ (phase' = "live" => last = 0)
    BY <1>5, Zenon DEF Listen, FetchFails
  <2>2. last = 0 => sent = <<>>
    <3>1. \A n \in 1..Len(sent) : sent[n] \in Ids /\ sent[n] <= last
      BY DEF TypeOK, ManagerInv, SentBelow
    <3>2. last = 0 => Len(sent) = 0
      BY <3>1 DEF Ids, TypeOK
    <3> QED  BY <3>2 DEF TypeOK
  <2>3. phase' = "live" => \A q : Early(q)'
    BY <1>1, <2>1, <2>2, Zenon DEF Early
  <2>4. /\ Len(commits') \in 0..Len(commits')
        /\ Len(commits') + Len(inbox') = Len(commits')
        /\ Len(commits') + Len(inbox') <= Len(commits')
        /\ \A n \in 1..Len(inbox') : FALSE
    BY <1>1, <1>4, <2>1
  <2>5. InboxSuffix'
    BY <2>3, <2>4, Zenon DEF InboxSuffix
  <2> QED  BY <1>3, <2>5, Zenon DEF ManagerInv
<1>6. CASE NoticeBreak
  BY <1>1, <1>3, <1>6, Zenon DEF NoticeBreak, InboxSuffix, ManagerInv
<1>7. ASSUME NEW n \in 0..Len(inbox), BreakListener(n) PROVE InboxSuffix'
  <2>1. /\ inbox' = SubSeq(inbox, 1, n) /\ Len(inbox') = n /\ n <= Len(inbox)
        /\ \A m \in 1..n : inbox'[m] = inbox[m] /\ m \in 1..Len(inbox)
    BY <1>7 DEF BreakListener, TypeOK
  <2>2. ~conn' /\ phase' = phase
    BY <1>7, Zenon DEF BreakListener
  <2>3. PICK k \in 0..Len(commits) :
          /\ k + Len(inbox) <= Len(commits)
          /\ \A m \in 1..Len(inbox) : inbox[m] = commits[k + m]
          /\ phase = "live" => \A q \in 1..k : commits[q] <= last \/ Early(commits[q])
    BY Zenon DEF ManagerInv, InboxSuffix
  <2>4. k + n <= Len(commits)
    BY <1>4, <2>1, <2>3
  <2> QED  BY <1>1, <2>1, <2>2, <2>3, <2>4 DEF InboxSuffix, Early
<1> QED  BY <1>3, <1>5, <1>6, <1>7, Zenon DEF ManagerInv

\* Every action keeps what the manager relies on.
LEMMA ManagerStep == TypeOK /\ TableOrder /\ ManagerInv /\ [Next]_vars => ManagerInv'
<1> SUFFICES ASSUME TypeOK, TableOrder, ManagerInv, [Next]_vars PROVE ManagerInv'
  BY Zenon
<1>1. CASE UNCHANGED <<commits, manager, sent>>
  <2>1. UNCHANGED <<commits, phase, conn, inbox, fetched, last, sent>>
    BY <1>1, Zenon DEF manager
  <2> QED  BY <2>1 DEF ManagerInv, SentBelow, FetchedFirst, PassedOver, InboxSuffix, SentInOrder, Committed,
                       Overtaken, Early
<1>2. ASSUME NEW b \in Backends, NEW s \in 1..MaxStatus, Emit(b, s) PROVE ManagerInv'
  BY <1>1, <1>2, Zenon DEF Emit
<1>3. ASSUME NEW i \in open, Rollback(i) PROVE ManagerInv'
  BY <1>1, <1>3, Zenon DEF Rollback
<1>4. ASSUME NEW c \in Clients, Serve(c) \/ Drop(c) \/ BreakStream(c) PROVE ManagerInv'
  BY <1>1, <1>4, Zenon DEF Serve, Drop, BreakStream, Subscribe, ReadTable, YieldRow, YieldNotification, StreamEnds, table
<1>5. CASE UNCHANGED vars
  BY <1>1, <1>5, Zenon DEF vars, manager
<1> QED  BY <1>2, <1>3, <1>4, <1>5, CommitManager, SendFetchedManager, ReceiveManager, FetchManager, ListenManager, Zenon
            DEF Next, Database, Manager, Faults

-----------------------------------------------------------------------------
(* Status streams *)

\* The types that the lemmas about one client use.
LEMMA ClientTypes ==
  ASSUME TypeOK, NEW c \in Clients
  PROVE  /\ stream[c] \in Stream
         /\ stream[c].buffer \in Seq(Ids)
         /\ stream[c].rows \subseteq Nat \ {0}
         /\ stream[c].last_status \in Nat /\ stream[c].last_event_id \in Nat
         /\ seen[c] \in Seq(1..MaxStatus)
         /\ \A n \in 1..Len(seen[c]) : seen[c][n] \in Nat \ {0}
         /\ LastSeen(c) \in Nat
         /\ Committed \subseteq Ids /\ Range(sent) \subseteq Ids /\ Ids \subseteq Nat
         /\ \A i \in Ids : event[i].status \in Nat \ {0}
<1>1. stream[c] \in Stream /\ seen[c] \in Seq(1..MaxStatus) /\ Range(sent) \subseteq Ids
  BY DEF TypeOK, Range
<1>2. \A n \in 1..Len(seen[c]) : seen[c][n] \in 1..MaxStatus
  BY <1>1, SeqElement, Zenon
<1>3. 1..MaxStatus \subseteq Nat \ {0} /\ 0..MaxStatus \subseteq Nat
  BY SubscriptionConstants
<1>4. /\ Committed \subseteq Ids /\ Ids \subseteq Nat /\ LastSeen(c) \in Nat
      /\ \A i \in Ids : event[i].status \in Nat \ {0}
  BY <1>3, StatusTypes, Zenon
<1>5. /\ stream[c].rows \subseteq Nat \ {0} /\ stream[c].buffer \in Seq(Ids)
      /\ stream[c].last_status \in Nat /\ stream[c].last_event_id \in Nat
  BY <1>1, <1>3, Zenon DEF Stream
<1> QED  BY <1>1, <1>2, <1>3, <1>4, <1>5, Zenon

\* A client is not affected by a step that leaves its stream, what was
\* committed and what was sent alone.
LEMMA ClientKept ==
  ASSUME TypeOK, NEW c \in Clients, ClientInv(c),
         \A i \in Ids : event'[i] = event[i],
         commits' = commits, sent' = sent, stream'[c] = stream[c], seen'[c] = seen[c]
  PROVE  ClientInv(c)'
<1>1. Committed \subseteq Ids /\ Range(sent) \subseteq Ids
  BY ClientTypes, Zenon
<1>2. Committed' = Committed /\ LastSeen(c)' = LastSeen(c) /\ Attached(c)' = Attached(c)
  BY Zenon DEF Committed, LastSeen, Attached
<1>3. Statuses(Watched[c])' = Statuses(Watched[c])
  BY <1>1, <1>2, Zenon DEF Statuses
<1>4. \A i \in Committed : Covered(c, i)' = Covered(c, i)
  BY <1>1, <1>2, Zenon DEF Covered, Overtaken, Early
<1>5. StreamKnown(c)' /\ RowsAhead(c)'
  BY <1>3, Zenon DEF ClientInv, StreamKnown, RowsAhead
<1>6. BufferAhead(c)'
  BY <1>1, Zenon DEF ClientInv, BufferAhead
<1>7. SeenBelow(c)' /\ SeenSoFar(c)'
  BY <1>1, <1>2, <1>4, Zenon DEF ClientInv, SeenBelow, SeenSoFar
<1> QED  BY <1>5, <1>6, <1>7, Zenon DEF ClientInv

\* The status of a commit is above all that a client has seen or waits for.
LEMMA CommitClient ==
  ASSUME TypeOK, TableOrder, NEW c \in Clients, ClientInv(c), NEW i \in open, Commit(i)
  PROVE  ClientInv(c)'
<1>1. /\ event' = event /\ sent' = sent /\ stream' = stream /\ seen' = seen
      /\ Committed' = Committed \cup {i} /\ i \in Ids
  BY CommitAppends, Zenon DEF Commit
<1>2. event[i].backend = Watched[c] => \A s \in Statuses(Watched[c]) : s < event[i].status
  BY DEF TableOrder, Statuses
<1>3. Statuses(Watched[c])' =
        IF event[i].backend = Watched[c] THEN Statuses(Watched[c]) \cup {event[i].status}
                                         ELSE Statuses(Watched[c])
  BY <1>1, Zenon DEF Statuses
<1>4. \A j \in Committed : Covered(c, j) => Covered(c, j)'
  BY <1>1, CommitOvertaken, Zenon DEF Covered
<1>5. LastSeen(c)' = LastSeen(c) /\ Attached(c)' = Attached(c)
  BY <1>1, Zenon DEF LastSeen, Attached
<1>6. StreamKnown(c)'
  BY <1>1, <1>3, Zenon DEF ClientInv, StreamKnown
<1>7. RowsAhead(c)'
  BY <1>1, <1>2, <1>3, ClientTypes DEF ClientInv, StreamKnown, RowsAhead
<1>8. BufferAhead(c)'
  BY <1>1, Zenon DEF ClientInv, BufferAhead
<1>9. SeenBelow(c)'
  <2>1. event[i].backend = Watched[c] =>
          ~(event[i].status <= stream[c].last_status) /\ ~(event[i].status <= stream[c].last_event_id)
    BY <1>1, <1>2, ClientTypes DEF ClientInv, StreamKnown
  <2> QED  BY <1>1, <1>4, <1>5, <2>1, Zenon DEF ClientInv, SeenBelow
<1>10. SeenSoFar(c)'
  <2>1. event[i].backend = Watched[c] => ~(event[i].status < LastSeen(c))
    <3>1. LastSeen(c) = 0 \/ LastSeen(c) \in Statuses(Watched[c])
      BY ClientTypes DEF ClientInv, StreamKnown, LastSeen
    <3>2. event[i].status \in Nat /\ LastSeen(c) \in Nat
      BY <1>1, ClientTypes, Zenon
    <3> QED  BY <1>2, <3>1, <3>2
  <2> QED  BY <1>1, <1>4, <1>5, <2>1, Zenon DEF ClientInv, SeenSoFar
<1> QED  BY <1>6, <1>7, <1>8, <1>9, <1>10, Zenon DEF ClientInv

\* An event that is sent comes after all that is in a channel, and is put in
\* the channel of every stream of its backend.
LEMMA SendClient ==
  ASSUME TypeOK, ManagerInv, LiveIsListed, NEW c \in Clients, ClientInv(c),
         NEW i \in Committed, i > last, send_message(i),
         event' = event, commits' = commits, seen' = seen
  PROVE  ClientInv(c)'
<1> DEFINE st == stream[c]
           old == st.buffer
<1>1. st \in Stream /\ old \in Seq(Ids) /\ i \in Ids /\ Ids \subseteq Nat /\ Len(old) \in Nat
  BY ClientTypes
<1>2. \/ stream'[c] = st /\ ~(Attached(c) /\ Watched[c] = event[i].backend)
      \/ stream'[c] = Push(st, i) /\ Watched[c] = event[i].backend
  BY Zenon DEF send_message, LiveIsListed
<1>3. /\ stream'[c].pc = st.pc /\ stream'[c].rows = st.rows
      /\ stream'[c].last_status = st.last_status /\ stream'[c].last_event_id = st.last_event_id
  BY <1>1, <1>2, PushType
<1>4. /\ sent \in Seq(Ids) /\ sent' = Append(sent, i)
      /\ Range(sent') = Range(sent) \cup {i} /\ Len(sent) \in Nat
      /\ \A n \in 1..Len(sent) : sent'[n] = sent[n]
  <2>1. sent \in Seq(Ids) /\ sent' = Append(sent, i)
    BY Zenon DEF TypeOK, send_message
  <2> QED  BY <1>1, <2>1, AppendFacts, RangeAppend
<1>5. \A j \in Range(sent) : j < i
  <2>1. ASSUME NEW n \in 1..Len(sent) PROVE sent[n] < i
    <3>1. sent[n] \in Ids /\ sent[n] <= last
      BY <1>4, SeqElement, Zenon DEF ManagerInv, SentBelow
    <3>2. last \in Nat
      BY DEF TypeOK
    <3>3. sent[n] \in Nat /\ i \in Nat
      BY <1>1, <3>1, Zenon
    <3> QED  BY <3>1, <3>2, <3>3
  <2> QED  BY <1>4, <2>1 DEF Range
<1>6. /\ Committed' = Committed /\ Statuses(Watched[c])' = Statuses(Watched[c])
      /\ LastSeen(c)' = LastSeen(c) /\ Attached(c)' = Attached(c)
  BY <1>3, Zenon DEF Committed, Statuses, LastSeen, Attached
<1>7. \A j : Covered(c, j) => Covered(c, j)'
  <2>1. sent # <<>> => sent' # <<>> /\ sent'[1] = sent[1]
    BY <1>4
  <2> QED  BY <2>1, Zenon DEF Covered, Overtaken, Early
<1>8. StreamKnown(c)' /\ RowsAhead(c)'
  BY <1>3, <1>6, Zenon DEF ClientInv, StreamKnown, RowsAhead
<1>9. SeenBelow(c)' /\ SeenSoFar(c)'
  BY <1>3, <1>6, <1>7, Zenon DEF ClientInv, SeenBelow, SeenSoFar
<1>10. /\ \A n \in 1..Len(old) : old[n] \in Range(sent) /\ event[old[n]].backend = Watched[c]
       /\ \A m, n \in 1..Len(old) : m < n => old[m] < old[n]
       /\ (st.pc = "streaming" /\ ~st.lagged) =>
            \A j \in Range(sent) : event[j].backend = Watched[c] =>
              event[j].status \in st.rows \/ j \in Range(old) \/ event[j].status <= st.last_status
  BY Zenon DEF ClientInv, BufferAhead
<1>11. CASE stream'[c] = st /\ ~(Attached(c) /\ Watched[c] = event[i].backend)
  <2>1. st.pc = "streaming" => event[i].backend # Watched[c]
    BY <1>11, Zenon DEF Attached
  <2>2. BufferAhead(c)'
    BY <1>4, <1>10, <1>11, <2>1, Zenon DEF BufferAhead
  <2> QED  BY <1>8, <1>9, <2>2, Zenon DEF ClientInv
<1>12. CASE stream'[c] = Push(st, i) /\ Watched[c] = event[i].backend
  <2> DEFINE new == Push(st, i).buffer
  <2>1. /\ new \in Seq(Ids) /\ Len(new) \in Nat \ {0} /\ new[Len(new)] = i
        /\ \A n \in 1..(Len(new) - 1) : \E m \in 1..Len(old) :
             new[n] = old[m] /\ (new = Append(old, i) => m = n) /\ (new # Append(old, i) => m = n + 1)
        /\ new # Append(old, i) => Push(st, i).lagged
        /\ Push(st, i).lagged \/ Push(st, i).lagged = st.lagged
    <3>1. CASE new = Append(old, i) /\ Push(st, i).lagged = st.lagged
      BY <1>1, <3>1, AppendFacts
    <3>2. CASE old # <<>> /\ new = Append(Tail(old), i) /\ Push(st, i).lagged
      <4>1. /\ Tail(old) \in Seq(Ids) /\ Len(Tail(old)) = Len(old) - 1 /\ Len(old) \in Nat \ {0}
            /\ \A n \in 1..(Len(old) - 1) : Tail(old)[n] = old[n + 1]
        BY <1>1, <3>2, TailFacts, Zenon
      <4>2. /\ new \in Seq(Ids) /\ Len(new) = Len(old) /\ new[Len(new)] = i
            /\ \A n \in 1..(Len(old) - 1) : new[n] = Tail(old)[n]
        BY <1>1, <3>2, <4>1, AppendFacts
      <4>3. new # Append(old, i)
        BY <1>1, <4>1, <4>2, AppendFacts
      <4>4. \A n \in 1..(Len(new) - 1) : n + 1 \in 1..Len(old) /\ new[n] = old[n + 1]
        BY <4>1, <4>2
      <4> QED  BY <3>2, <4>1, <4>2, <4>3, <4>4, Zenon
    <3> QED  BY <1>1, <3>1, <3>2, PushType, Zenon
  <2> HIDE DEF new
  <2>2. \A n \in 1..Len(new) : new[n] \in Range(sent') /\ event[new[n]].backend = Watched[c]
    <3> TAKE n \in 1..Len(new)
    <3>1. CASE n = Len(new)
      BY <1>4, <1>12, <2>1, <3>1, Zenon
    <3>2. CASE n # Len(new)
      <4>1. n \in 1..(Len(new) - 1)
        BY <2>1, <3>2
      <4>2. PICK m \in 1..Len(old) : new[n] = old[m]
        BY <2>1, <4>1, Zenon
      <4> QED  BY <1>4, <1>10, <4>2, Zenon
    <3> QED  BY <3>1, <3>2, Zenon
  <2>3. ASSUME NEW m \in 1..Len(new), NEW n \in 1..Len(new), m < n PROVE new[m] < new[n]
    <3>1. PICK k \in 1..Len(old) :
            new[m] = old[k] /\ (new = Append(old, i) => k = m) /\ (new # Append(old, i) => k = m + 1)
      BY <2>1, <2>3
    <3>2. CASE n = Len(new)
      BY <1>5, <1>10, <2>1, <3>1, <3>2, Zenon
    <3>3. CASE n # Len(new)
      <4>1. PICK l \in 1..Len(old) :
              new[n] = old[l] /\ (new = Append(old, i) => l = n) /\ (new # Append(old, i) => l = n + 1)
        BY <2>1, <3>3
      <4>2. k < l
        BY <2>3, <3>1, <4>1
      <4> QED  BY <1>10, <3>1, <4>1, <4>2, Zenon
    <3> QED  BY <3>2, <3>3, Zenon
  <2>4. ASSUME ~Push(st, i).lagged PROVE Range(new) = Range(old) \cup {i} /\ ~st.lagged
    <3>1. new = Append(old, i) /\ ~st.lagged
      BY <2>1, <2>4, Zenon
    <3> QED  BY <1>1, <3>1, RangeAppend
  <2>5. BufferAhead(c)'
    BY <1>3, <1>4, <1>10, <1>12, <2>2, <2>3, <2>4, Zenon DEF BufferAhead, new
  <2> QED  BY <1>8, <1>9, <2>5, Zenon DEF ClientInv
<1> QED  BY <1>2, <1>11, <1>12, Zenon

\* A new stream leaves out what the client has seen.
LEMMA SubscribeClient ==
  ASSUME TypeOK, NEW c \in Clients, ClientInv(c), Subscribe(c)
  PROVE  ClientInv(c)'
<1>1. /\ event' = event /\ commits' = commits /\ sent' = sent /\ seen' = seen
      /\ Committed' = Committed /\ Statuses(Watched[c])' = Statuses(Watched[c])
      /\ LastSeen(c)' = LastSeen(c)
      /\ \A i : Covered(c, i)' = Covered(c, i)
  BY Zenon DEF Subscribe, table, Committed, Statuses, LastSeen, Covered, Overtaken, Early
<1>2. /\ stream'[c].pc = "subscribed" /\ stream'[c].rows = {} /\ stream'[c].buffer = <<>>
      /\ stream'[c].last_status = 0 /\ stream'[c].last_event_id = LastSeen(c)
  BY Zenon DEF Subscribe, TypeOK, NoStream
<1>3. /\ seen[c] \in Seq(1..MaxStatus) /\ LastSeen(c) \in Nat /\ Len(seen[c]) \in Nat
      /\ \A n \in 1..Len(seen[c]) : seen[c][n] \in Nat \ {0}
      /\ Committed \subseteq Ids /\ \A i \in Ids : event[i].status \in Nat \ {0}
  BY ClientTypes
<1>4. \/ LastSeen(c) = 0 /\ Len(seen[c]) = 0
      \/ Len(seen[c]) > 0 /\ LastSeen(c) = seen[c][Len(seen[c])]
  BY <1>3 DEF LastSeen
<1>5. StreamKnown(c)'
  BY <1>1, <1>2, <1>3, <1>4 DEF ClientInv, StreamKnown
<1>6. RowsAhead(c)' /\ BufferAhead(c)'
  BY <1>2 DEF RowsAhead, BufferAhead
<1>7. SeenSoFar(c)'
  BY <1>1, Zenon DEF ClientInv, SeenSoFar
<1>8. ASSUME NEW n \in 1..Len(seen[c]) PROVE seen[c][n] <= LastSeen(c)
  <2>1. n = Len(seen[c]) \/ n < Len(seen[c])
    BY <1>3
  <2> QED  BY <1>3, <1>4, <2>1 DEF ClientInv, SeenSoFar
<1>9. ASSUME NEW i \in Committed, event[i].backend = Watched[c], event[i].status <= LastSeen(c)
      PROVE  Covered(c, i)
  <2>1. CASE event[i].status < LastSeen(c)
    BY <1>9, <2>1, Zenon DEF ClientInv, SeenSoFar
  <2>2. CASE event[i].status = LastSeen(c)
    <3>1. Len(seen[c]) \in 1..Len(seen[c]) /\ event[i].status = seen[c][Len(seen[c])]
      BY <1>3, <1>4, <2>2
    <3>2. event[i].status \in Range(seen[c])
      BY <1>3, <3>1 DEF Range
    <3> QED  BY <3>2, Zenon DEF Covered
  <2> QED  BY <1>3, <1>9, <2>1, <2>2
<1>10. SeenBelow(c)'
  <2>1. \A n \in 1..Len(seen'[c]) : seen'[c][n] <= stream'[c].last_event_id
    BY <1>1, <1>2, <1>8, Zenon
  <2>2. \A i \in Committed' :
          (/\ event'[i].backend = Watched[c]
           /\ \/ event'[i].status <= stream'[c].last_status
              \/ event'[i].status <= stream'[c].last_event_id) => Covered(c, i)'
    BY <1>1, <1>2, <1>3, <1>9
  <2> QED  BY <2>1, <2>2, Zenon DEF SeenBelow
<1> QED  BY <1>5, <1>6, <1>7, <1>10, Zenon DEF ClientInv

\* The table has the status of everything that was sent.
LEMMA ReadTableClient ==
  ASSUME TypeOK, ManagerInv, NEW c \in Clients, ClientInv(c), ReadTable(c)
  PROVE  ClientInv(c)'
<1>1. /\ event' = event /\ commits' = commits /\ sent' = sent /\ seen' = seen
      /\ Committed' = Committed /\ Statuses(Watched[c])' = Statuses(Watched[c])
      /\ LastSeen(c)' = LastSeen(c)
      /\ \A i : Covered(c, i)' = Covered(c, i)
  BY Zenon DEF ReadTable, table, Committed, Statuses, LastSeen, Covered, Overtaken, Early
<1>2. stream[c] \in Stream
  BY ClientTypes, Zenon
<1>3. /\ stream'[c].pc = "streaming" /\ stream'[c].rows = Statuses(Watched[c])
      /\ stream'[c].buffer = stream[c].buffer
      /\ stream'[c].last_status = stream[c].last_status
      /\ stream'[c].last_event_id = stream[c].last_event_id
      /\ stream[c].pc = "subscribed"
  BY <1>2, Zenon DEF ReadTable, TypeOK, Stream
<1>4. Range(sent) \subseteq Committed
  <2>1. sent \in Seq(Ids)
    BY Zenon DEF TypeOK
  <2> QED  BY <2>1 DEF Range, ManagerInv, SentBelow
<1>5. /\ Committed \subseteq Ids /\ \A i \in Ids : event[i].status \in Nat \ {0}
      /\ stream[c].last_status = 0
  BY <1>3, ClientTypes, Zenon DEF ClientInv, RowsAhead
<1>6. \A s \in Statuses(Watched[c]) : s \in Nat \ {0}
  BY <1>5, Zenon DEF Statuses
<1>7. StreamKnown(c)'
  BY <1>1, <1>3, Zenon DEF ClientInv, StreamKnown
<1>8. RowsAhead(c)'
  BY <1>1, <1>3, <1>5, <1>6 DEF RowsAhead
<1>9. BufferAhead(c)'
  <2>1. \A i \in Range(sent) : event[i].backend = Watched[c] => event[i].status \in Statuses(Watched[c])
    BY <1>4, Zenon DEF Statuses
  <2> QED  BY <1>1, <1>3, <2>1, Zenon DEF ClientInv, BufferAhead
<1>10. SeenBelow(c)' /\ SeenSoFar(c)'
  BY <1>1, <1>3, Zenon DEF ClientInv, SeenBelow, SeenSoFar, Attached
<1> QED  BY <1>7, <1>8, <1>9, <1>10, Zenon DEF ClientInv

\* A stream that passes on the next status, where all lower ones are dealt
\* with, keeps what the client has seen in order and without gaps.
LEMMA PassClient ==
  ASSUME TypeOK, NEW c \in Clients, ClientInv(c), stream[c].pc = "streaming",
         NEW status \in Statuses(Watched[c]), status > stream[c].last_status, Pass(c, status),
         event' = event, commits' = commits, sent' = sent,
         stream'[c].pc = "streaming", stream'[c].last_status = status,
         stream'[c].last_event_id = stream[c].last_event_id,
         \A i \in Committed : (event[i].backend = Watched[c] /\ event[i].status < status) =>
           event[i].status <= stream[c].last_status \/ Overtaken(i) \/ (sent # <<>> /\ Early(i))
  PROVE  /\ SeenBelow(c)' /\ SeenSoFar(c)'
         /\ \A n \in 1..Len(seen'[c]) : seen'[c][n] \in Statuses(Watched[c])
<1> DEFINE low == stream[c].last_status
           from == stream[c].last_event_id
<1>1. /\ Committed' = Committed /\ Committed \subseteq Ids
      /\ \A i \in Ids : event[i].status \in Nat \ {0}
      /\ low \in Nat /\ from \in Nat
      /\ seen[c] \in Seq(1..MaxStatus) /\ Len(seen[c]) \in Nat
      /\ \A n \in 1..Len(seen[c]) : seen[c][n] \in Nat
  BY ClientTypes DEF Committed
<1>2. status \in Nat
  BY <1>1, Zenon DEF Statuses
<1>3. \A n \in 1..Len(seen[c]) : seen[c][n] \in Statuses(Watched[c])
  BY Zenon DEF ClientInv, StreamKnown
<1>4. /\ \A n \in 1..Len(seen[c]) : seen[c][n] <= low \/ seen[c][n] <= from
      /\ \A i \in Committed :
           (event[i].backend = Watched[c] /\ (event[i].status <= low \/ event[i].status <= from))
             => Covered(c, i)
  BY Zenon DEF ClientInv, SeenBelow, Attached
<1>5. \A i \in Committed : (event[i].backend = Watched[c] /\ event[i].status < status) => Covered(c, i)
  BY <1>4, Zenon DEF Covered
<1>6. CASE status <= from
  <2>1. seen' = seen
    <3>1. ~(status > from)
      BY <1>1, <1>2, <1>6
    <3> QED  BY <3>1, Zenon DEF Pass
  <2>2. LastSeen(c)' = LastSeen(c) /\ \A i : Covered(c, i)' = Covered(c, i)
    BY <2>1 DEF LastSeen, Covered, Overtaken, Early
  <2>3. SeenSoFar(c)'
    BY <1>1, <2>1, <2>2, Zenon DEF ClientInv, SeenSoFar
  <2>4. \A n \in 1..Len(seen'[c]) : seen'[c][n] <= stream'[c].last_status \/ seen'[c][n] <= from
    <3>1. \A n \in 1..Len(seen[c]) : seen[c][n] <= low => seen[c][n] <= status
      BY <1>1, <1>2
    <3> QED  BY <1>4, <2>1, <3>1, Zenon
  <2>5. \A i \in Committed :
          (event[i].backend = Watched[c] /\ (event[i].status <= status \/ event[i].status <= from))
             => Covered(c, i)'
    BY <1>1, <1>2, <1>4, <1>6, <2>2
  <2>6. SeenBelow(c)'
    BY <1>1, <2>4, <2>5, Zenon DEF SeenBelow
  <2> QED  BY <1>3, <2>1, <2>3, <2>6, Zenon
<1>7. CASE ~(status <= from)
  <2>1. seen'[c] = Append(seen[c], status)
    <3>1. status > from
      BY <1>1, <1>2, <1>7
    <3> QED  BY <3>1, Zenon DEF Pass, TypeOK
  <2>2. status \in 1..MaxStatus
    <3>1. \A i \in Ids : event[i].status \in 1..MaxStatus
      BY StatusTypes, Zenon
    <3> QED  BY <1>1, <3>1, Zenon DEF Statuses
  <2>3. /\ Len(seen'[c]) = Len(seen[c]) + 1 /\ seen'[c] # <<>>
        /\ seen'[c][Len(seen[c]) + 1] = status
        /\ \A n \in 1..Len(seen[c]) : seen'[c][n] = seen[c][n]
        /\ Range(seen'[c]) = Range(seen[c]) \cup {status}
    <3> DEFINE S == 1..MaxStatus
    <3>1. seen[c] \in Seq(S) /\ status \in S
      BY <1>1, <2>2, Zenon
    <3> HIDE DEF S
    <3> QED  BY <2>1, <3>1, AppendFacts, RangeAppend
  <2>4. LastSeen(c)' = status
    BY <2>3, Zenon DEF LastSeen
  <2>5. \A n \in 1..Len(seen[c]) : seen[c][n] < status
    BY <1>1, <1>2, <1>4, <1>7
  <2>6. \A n \in 1..Len(seen'[c]) : n \in 1..Len(seen[c]) \/ n = Len(seen[c]) + 1
    BY <1>1, <2>3
  <2>7. \A m, n \in 1..Len(seen'[c]) : m < n => seen'[c][m] < seen'[c][n]
    <3> TAKE m, n \in 1..Len(seen'[c])
    <3> HAVE m < n
    <3>1. m \in 1..Len(seen[c])
      BY <1>1, <2>3
    <3>2. CASE n \in 1..Len(seen[c])
      BY <2>3, <3>1, <3>2, Zenon DEF ClientInv, SeenSoFar
    <3> QED  BY <2>3, <2>5, <2>6, <3>1, <3>2, Zenon
  <2>8. \A i : Covered(c, i) => Covered(c, i)'
    BY <2>3, Zenon DEF Covered, Overtaken, Early
  <2>9. ASSUME NEW i \in Committed, event[i].backend = Watched[c], event[i].status <= status
        PROVE  Covered(c, i)'
    <3>1. event[i].status < status \/ event[i].status = status
      BY <1>1, <1>2, <2>9
    <3>2. CASE event[i].status = status
      BY <2>3, <3>2, Zenon DEF Covered
    <3> QED  BY <1>5, <2>8, <2>9, <3>1, <3>2, Zenon
  <2>10. SeenSoFar(c)'
    <3>1. \A i \in Committed :
            (event[i].backend = Watched[c] /\ event[i].status < status) => Covered(c, i)'
      BY <1>5, <2>8, Zenon
    <3> QED  BY <1>1, <2>4, <2>7, <3>1, Zenon DEF SeenSoFar
  <2>11. \A n \in 1..Len(seen'[c]) : seen'[c][n] <= stream'[c].last_status
    <3>1. status <= status /\ \A n \in 1..Len(seen[c]) : seen[c][n] <= status
      BY <1>1, <1>2, <2>5
    <3> QED  BY <2>3, <2>6, <3>1, Zenon
  <2>12. \A i \in Committed :
           (event[i].backend = Watched[c] /\ (event[i].status <= status \/ event[i].status <= from))
              => Covered(c, i)'
    BY <1>4, <2>8, <2>9, Zenon
  <2>13. SeenBelow(c)'
    BY <1>1, <2>11, <2>12, Zenon DEF SeenBelow
  <2> QED  BY <1>3, <2>3, <2>6, <2>10, <2>13, Zenon
<1> QED  BY <1>6, <1>7, Zenon

\* The least row that is left is the next status.
LEMMA YieldRowClient ==
  ASSUME TypeOK, NEW c \in Clients, ClientInv(c), YieldRow(c)
  PROVE  ClientInv(c)'
<1>1. PICK status \in stream[c].rows :
        /\ \A s \in stream[c].rows : status <= s
        /\ stream' = [stream EXCEPT ![c].rows = @ \ {status}, ![c].last_status = status]
        /\ Pass(c, status)
  BY Zenon DEF YieldRow
<1>2. /\ event' = event /\ commits' = commits /\ sent' = sent
      /\ Committed' = Committed /\ Statuses(Watched[c])' = Statuses(Watched[c])
      /\ stream[c].pc = "streaming"
  BY Zenon DEF YieldRow, table, Committed, Statuses
<1>3. stream[c] \in Stream
  BY ClientTypes, Zenon
<1>4. /\ stream'[c].pc = "streaming" /\ stream'[c].rows = stream[c].rows \ {status}
      /\ stream'[c].buffer = stream[c].buffer /\ stream'[c].lagged = stream[c].lagged
      /\ stream'[c].last_status = status
      /\ stream'[c].last_event_id = stream[c].last_event_id
  BY <1>1, <1>2, <1>3, Zenon DEF TypeOK, Stream
<1>5. /\ stream[c].rows \subseteq Statuses(Watched[c])
      /\ stream[c].last_event_id # 0 => stream[c].last_event_id \in Statuses(Watched[c])
      /\ \A r \in stream[c].rows : stream[c].last_status < r
      /\ \A r \in stream[c].rows, s \in Statuses(Watched[c]) :
           s < r => s \in stream[c].rows \/ s <= stream[c].last_status
  BY Zenon DEF ClientInv, StreamKnown, RowsAhead
<1>6. /\ stream[c].last_status \in Nat /\ stream[c].rows \subseteq Nat
      /\ Committed \subseteq Ids /\ Range(sent) \subseteq Ids
      /\ \A i \in Ids : event[i].status \in Nat
  BY ClientTypes, Zenon
<1>7. \A s \in Statuses(Watched[c]) : s \in Nat
  BY <1>6, Zenon DEF Statuses
<1>8. status \in Statuses(Watched[c]) /\ status > stream[c].last_status /\ status \in Nat
  BY <1>1, <1>5, <1>6, Zenon
<1>9. \A s \in Statuses(Watched[c]) : s < status => s <= stream[c].last_status
  BY <1>1, <1>5, <1>7, <1>8
<1>10. \A i \in Committed : (event[i].backend = Watched[c] /\ event[i].status < status) =>
         event[i].status <= stream[c].last_status
  BY <1>9, Zenon DEF Statuses
<1>11. /\ SeenBelow(c)' /\ SeenSoFar(c)'
       /\ \A n \in 1..Len(seen'[c]) : seen'[c][n] \in Statuses(Watched[c])
  BY <1>1, <1>2, <1>4, <1>8, <1>10, PassClient, Zenon
<1>12. StreamKnown(c)'
  BY <1>2, <1>4, <1>5, <1>8, <1>11, Zenon DEF StreamKnown
<1>13. RowsAhead(c)'
  <2>1. \A r \in stream'[c].rows : status < r
    <3>1. \A r \in stream[c].rows : r \in Nat /\ (r # status => status < r)
      <4>1. \A r \in stream[c].rows : r \in Nat /\ status <= r
        BY <1>1, <1>6, Zenon
      <4> QED  BY <1>8, <4>1
    <3> QED  BY <1>4, <3>1, Zenon
  <2>2. ASSUME NEW r \in stream'[c].rows, NEW s \in Statuses(Watched[c]), s < r
        PROVE  s \in stream'[c].rows \/ s <= status
    <3>1. s \in stream[c].rows \/ s <= stream[c].last_status
      BY <1>4, <1>5, <2>2, Zenon
    <3>2. CASE s <= stream[c].last_status
      <4>1. s \in Nat /\ stream[c].last_status \in Nat
        BY <1>6, <1>7, Zenon
      <4> QED  BY <1>8, <3>2, <4>1
    <3>3. CASE s \in stream[c].rows /\ s # status
      BY <1>4, <3>3, Zenon
    <3>4. CASE s = status
      BY <1>8, <3>4
    <3> QED  BY <3>1, <3>2, <3>3, <3>4, Zenon
  <2> QED  BY <1>2, <1>4, <2>1, <2>2, Zenon DEF RowsAhead
<1>14. BufferAhead(c)'
  <2>1. ASSUME NEW i \in Range(sent),
               \/ event[i].status \in stream[c].rows \/ event[i].status <= stream[c].last_status
        PROVE  event[i].status \in stream'[c].rows \/ event[i].status <= status
    <3>1. event[i].status \in Nat
      BY <1>6, Zenon
    <3> QED  BY <1>4, <1>6, <1>8, <2>1, <3>1
  <2> QED  BY <1>2, <1>4, <2>1, Zenon DEF ClientInv, BufferAhead
<1> QED  BY <1>11, <1>12, <1>13, <1>14, Zenon DEF ClientInv

\* The head of the channel is a status that is known, or the next one.
LEMMA YieldNotificationClient ==
  ASSUME TypeOK, TableOrder, ManagerInv, NEW c \in Clients, ClientInv(c), YieldNotification(c)
  PROVE  ClientInv(c)'
<1> DEFINE buf == stream[c].buffer
           h == Head(buf)
           status == event[h].status
<1>1. /\ event' = event /\ commits' = commits /\ sent' = sent
      /\ Committed' = Committed /\ Statuses(Watched[c])' = Statuses(Watched[c])
      /\ stream[c].pc = "streaming" /\ stream[c].rows = {} /\ ~stream[c].lagged /\ buf # <<>>
  BY Zenon DEF YieldNotification, table, Committed, Statuses
<1>2. /\ stream[c] \in Stream /\ buf \in Seq(Ids)
      /\ stream[c].last_status \in Nat
      /\ Committed \subseteq Ids /\ Range(sent) \subseteq Ids /\ Ids \subseteq Nat
      /\ \A i \in Ids : event[i].status \in Nat
  BY ClientTypes, Zenon
<1>3. /\ Tail(buf) \in Seq(Ids) /\ h \in Ids /\ h = buf[1]
      /\ Len(buf) \in Nat \ {0} /\ Len(Tail(buf)) = Len(buf) - 1
      /\ \A n \in 1..(Len(buf) - 1) : Tail(buf)[n] = buf[n + 1]
      /\ Range(buf) = Range(Tail(buf)) \cup {h}
  BY <1>1, <1>2, TailFacts, RangeTail, Zenon
<1>4. /\ \A n \in 1..Len(buf) : buf[n] \in Range(sent) /\ event[buf[n]].backend = Watched[c]
      /\ \A m, n \in 1..Len(buf) : m < n => buf[m] < buf[n]
      /\ \A i \in Range(sent) : event[i].backend = Watched[c] =>
           i \in Range(buf) \/ event[i].status <= stream[c].last_status
  BY <1>1, Zenon DEF ClientInv, BufferAhead
<1>5. h \in Range(sent) /\ event[h].backend = Watched[c]
  BY <1>3, <1>4
<1>6. h \in Committed /\ h <= last /\ sent # <<>>
  <2>1. sent \in Seq(Ids)
    BY Zenon DEF TypeOK
  <2>2. PICK n \in 1..Len(sent) : h = sent[n]
    BY <1>5, <2>1 DEF Range
  <2> QED  BY <2>1, <2>2 DEF ManagerInv, SentBelow
<1>7. status \in Statuses(Watched[c]) /\ status \in Nat
  BY <1>2, <1>3, <1>5, <1>6, Zenon DEF Statuses
<1>8. /\ stream'[c].buffer = Tail(buf) /\ stream'[c].pc = "streaming" /\ stream'[c].rows = {}
      /\ stream'[c].last_event_id = stream[c].last_event_id
      /\ stream'[c].last_status = IF status <= stream[c].last_status THEN stream[c].last_status ELSE status
  <2>1. stream \in [Clients -> Stream]
    BY Zenon DEF TypeOK
  <2>2. CASE status <= stream[c].last_status
    <3>1. stream' = [stream EXCEPT ![c].buffer = Tail(@)]
      BY <2>2, Zenon DEF YieldNotification
    <3> QED  BY <1>1, <1>2, <2>1, <2>2, <3>1, Zenon DEF Stream
  <2>3. CASE ~(status <= stream[c].last_status)
    <3>1. stream' = [stream EXCEPT ![c].buffer = Tail(@), ![c].last_status = status]
      BY <2>3, Zenon DEF YieldNotification
    <3> QED  BY <1>1, <1>2, <2>1, <2>3, <3>1, Zenon DEF Stream
  <2> QED  BY <2>2, <2>3, Zenon
<1>9. RowsAhead(c)'
  BY <1>8, Zenon DEF RowsAhead
<1>10. BufferAhead(c)'
  <2>1. \A n \in 1..Len(Tail(buf)) : n + 1 \in 1..Len(buf) /\ Tail(buf)[n] = buf[n + 1]
    BY <1>3
  <2>2. \A n \in 1..Len(Tail(buf)) :
          Tail(buf)[n] \in Range(sent) /\ event[Tail(buf)[n]].backend = Watched[c]
    BY <1>4, <2>1, Zenon
  <2>3. \A m, n \in 1..Len(Tail(buf)) : m < n => Tail(buf)[m] < Tail(buf)[n]
    BY <1>3, <1>4, <2>1
  <2>4. ASSUME NEW i \in Range(sent), event[i].backend = Watched[c]
        PROVE  i \in Range(Tail(buf)) \/ event[i].status <= stream'[c].last_status
    <3>1. event[i].status \in Nat
      BY <1>2, Zenon
    <3>2. i \in Range(Tail(buf)) \/ i = h \/ event[i].status <= stream[c].last_status
      BY <1>3, <1>4, <2>4, Zenon
    <3> QED  BY <1>2, <1>7, <1>8, <3>1, <3>2
  <2> QED  BY <1>1, <1>8, <2>2, <2>3, <2>4, Zenon DEF BufferAhead
<1>11. CASE status <= stream[c].last_status
  <2>1. seen' = seen /\ stream'[c].last_status = stream[c].last_status
    BY <1>8, <1>11, Zenon DEF YieldNotification
  <2>2. LastSeen(c)' = LastSeen(c) /\ \A i : Covered(c, i)' = Covered(c, i)
    BY <1>1, <2>1, Zenon DEF LastSeen, Covered, Overtaken, Early
  <2>3. StreamKnown(c)'
    BY <1>1, <1>8, <2>1, Zenon DEF ClientInv, StreamKnown
  <2>4. SeenBelow(c)' /\ SeenSoFar(c)'
    BY <1>1, <1>8, <2>1, <2>2, Zenon DEF ClientInv, SeenBelow, SeenSoFar, Attached
  <2> QED  BY <1>9, <1>10, <2>3, <2>4, Zenon DEF ClientInv
<1>12. CASE ~(status <= stream[c].last_status)
  <2>1. Pass(c, status) /\ stream'[c].last_status = status
    BY <1>8, <1>12, Zenon DEF YieldNotification
  <2>2. ASSUME NEW i \in Committed, event[i].backend = Watched[c], event[i].status < status
        PROVE  event[i].status <= stream[c].last_status \/ Overtaken(i) \/ (sent # <<>> /\ Early(i))
    <3>1. i < h
      BY <1>5, <1>6, <2>2 DEF TableOrder
    <3>2. CASE i \in Range(sent)
      <4>1. i \in Range(buf) => \E m \in 1..Len(buf) : i = buf[m]
        BY <1>2 DEF Range
      <4>2. ASSUME NEW m \in 1..Len(buf), i = buf[m] PROVE FALSE
        <5>1. m = 1 \/ (1 \in 1..Len(buf) /\ 1 < m)
          BY <1>3
        <5>2. i = h \/ h < i
          BY <1>3, <1>4, <4>2, <5>1, Zenon
        <5>3. i \in Nat /\ h \in Nat
          BY <1>2, <1>3, Zenon
        <5> QED  BY <3>1, <5>2, <5>3
      <4>3. i \notin Range(buf)
        BY <4>1, <4>2, Zenon
      <4> QED  BY <1>4, <2>2, <3>2, <4>3, Zenon
    <3>3. CASE i \notin Range(sent)
      <4>1. i \in Nat /\ h \in Nat
        BY <1>2, <1>3, Zenon
      <4>2. last \in Nat
        BY DEF TypeOK
      <4>3. i <= last
        BY <1>6, <3>1, <4>1, <4>2
      <4> QED  BY <1>6, <3>3, <4>3, Zenon DEF ManagerInv, PassedOver
    <3> QED  BY <3>2, <3>3, Zenon
  <2>3. status > stream[c].last_status
    BY <1>2, <1>7, <1>12
  <2>4. /\ SeenBelow(c)' /\ SeenSoFar(c)'
        /\ \A n \in 1..Len(seen'[c]) : seen'[c][n] \in Statuses(Watched[c])
    BY <1>1, <1>7, <1>8, <2>1, <2>2, <2>3, PassClient, Zenon
  <2>5. StreamKnown(c)'
    BY <1>1, <1>7, <1>8, <2>1, <2>4, Zenon DEF ClientInv, StreamKnown
  <2> QED  BY <1>9, <1>10, <2>4, <2>5, Zenon DEF ClientInv
<1> QED  BY <1>11, <1>12, Zenon

\* A client without a stream keeps what it has seen.
LEMMA AbandonClient ==
  ASSUME TypeOK, NEW c \in Clients, ClientInv(c), Abandon(c),
         event' = event, commits' = commits, sent' = sent, seen' = seen
  PROVE  ClientInv(c)'
<1>1. stream'[c] = NoStream
  BY Zenon DEF Abandon, TypeOK
<1>2. /\ Committed' = Committed /\ Statuses(Watched[c])' = Statuses(Watched[c])
      /\ LastSeen(c)' = LastSeen(c)
      /\ \A i : Covered(c, i)' = Covered(c, i)
  BY Zenon DEF Committed, Statuses, LastSeen, Covered, Overtaken, Early
<1>3. /\ stream'[c].rows = {} /\ stream'[c].buffer = <<>> /\ stream'[c].pc = "off"
      /\ stream'[c].last_status = 0 /\ stream'[c].last_event_id = 0
  BY <1>1 DEF NoStream
<1>4. StreamKnown(c)'
  BY <1>2, <1>3, Zenon DEF ClientInv, StreamKnown
<1>5. RowsAhead(c)' /\ BufferAhead(c)'
  BY <1>3 DEF RowsAhead, BufferAhead
<1>6. SeenBelow(c)' /\ SeenSoFar(c)'
  BY <1>2, <1>3 DEF ClientInv, SeenBelow, SeenSoFar, Attached
<1> QED  BY <1>4, <1>5, <1>6, Zenon DEF ClientInv

\* A step of one client's streams concerns no other client.
LEMMA OtherClient ==
  ASSUME TypeOK, NEW c \in Clients, NEW d \in Clients, d # c, ClientInv(d),
         Serve(c) \/ Drop(c) \/ BreakStream(c)
  PROVE  ClientInv(d)'
<1>1. event' = event /\ commits' = commits /\ sent' = sent
  BY Zenon DEF Serve, Drop, BreakStream, Subscribe, ReadTable, YieldRow, YieldNotification, StreamEnds, table
<1>2. stream'[d] = stream[d]
  <2>1. stream \in [Clients -> Stream]
    BY Zenon DEF TypeOK
  <2> QED  BY <2>1, Zenon DEF Serve, Drop, BreakStream, Subscribe, ReadTable, YieldRow, YieldNotification,
                       StreamEnds, Abandon
<1>3. seen'[d] = seen[d]
  <2>1. seen \in [Clients -> Seq(1..MaxStatus)]
    BY Zenon DEF TypeOK
  <2> QED  BY <2>1, Zenon DEF Serve, Drop, BreakStream, Subscribe, ReadTable, YieldRow, YieldNotification,
                       StreamEnds, Pass
<1> QED  BY <1>1, <1>2, <1>3, ClientKept, Zenon

\* A stream that is served, dropped or broken keeps its invariant.
LEMMA OwnClient ==
  ASSUME TypeOK, TableOrder, ManagerInv, NEW c \in Clients, ClientInv(c),
         Serve(c) \/ Drop(c) \/ BreakStream(c)
  PROVE  ClientInv(c)'
<1>1. CASE StreamEnds(c) \/ BreakStream(c)
  BY <1>1, AbandonClient, Zenon DEF StreamEnds, BreakStream, table
<1>2. CASE Drop(c)
  BY <1>2, ClientKept, Zenon DEF Drop, table
<1> QED  BY <1>1, <1>2, SubscribeClient, ReadTableClient, YieldRowClient, YieldNotificationClient, Zenon DEF Serve

\* Every step keeps what is known of all streams.
LEMMA StreamStep == IInv /\ [Next]_vars => StreamInv'
<1> SUFFICES ASSUME IInv, [Next]_vars, NEW d \in Clients PROVE ClientInv(d)'
  BY Zenon DEF StreamInv
<1>1. TypeOK /\ TableOrder /\ ManagerInv /\ LiveIsListed /\ ClientInv(d)
  BY Zenon DEF IInv, StreamInv
<1>2. ASSUME NEW b \in Backends, NEW s \in 1..MaxStatus, Emit(b, s) PROVE ClientInv(d)'
  <2>1. \A i \in Ids : event'[i] = event[i]
    BY <1>1, <1>2 DEF Emit, TypeOK, Ids
  <2> QED  BY <1>1, <1>2, <2>1, ClientKept, Zenon DEF Emit
<1>3. ASSUME NEW i \in open, Commit(i) PROVE ClientInv(d)'
  BY <1>1, <1>3, CommitClient, Zenon
<1>4. ASSUME NEW i \in open, Rollback(i) PROVE ClientInv(d)'
  BY <1>1, <1>4, ClientKept, Zenon DEF Rollback
<1>5. CASE SendFetched
  <2>1. PICK i \in fetched : send_message(i)
    BY <1>5, Zenon DEF SendFetched
  <2>2. i \in Committed /\ last < i
    BY <1>1, Zenon DEF ManagerInv, SentBelow
  <2>3. i > last
    BY <2>2, Zenon
  <2>4. event' = event /\ commits' = commits /\ seen' = seen
    BY <1>5, Zenon DEF SendFetched, table
  <2> QED  BY <1>1, <2>1, <2>2, <2>3, <2>4, SendClient, Zenon
<1>6. CASE Receive
  <2>1. event' = event /\ commits' = commits /\ seen' = seen
    BY <1>6, Zenon DEF Receive, table
  <2>2. CASE Head(inbox) <= last
    BY <1>1, <1>6, <2>1, <2>2, ClientKept, Zenon DEF Receive
  <2>3. CASE ~(Head(inbox) <= last)
    <3>1. send_message(Head(inbox)) /\ inbox # <<>>
      BY <1>6, <2>3, Zenon DEF Receive
    <3>2. inbox \in Seq(Ids) /\ last \in Nat /\ Ids \subseteq Nat
      BY <1>1 DEF TypeOK, Ids
    <3>3. Head(inbox) > last
      <4>1. Head(inbox) \in Nat
        BY <3>1, <3>2, TailFacts, Zenon
      <4> QED  BY <2>3, <3>2, <4>1
    <3>4. Head(inbox) \in Committed
      <4>1. PICK k \in 0..Len(commits) :
              k + Len(inbox) <= Len(commits) /\ \A n \in 1..Len(inbox) : inbox[n] = commits[k + n]
        BY <1>1, Zenon DEF ManagerInv, InboxSuffix
      <4>2. Head(inbox) = inbox[1] /\ Len(inbox) \in Nat \ {0}
        BY <3>1, <3>2, TailFacts, Zenon
      <4>3. commits \in Seq(Ids)
        BY <1>1, Zenon DEF TypeOK
      <4>4. Len(commits) \in Nat /\ DOMAIN commits = 1..Len(commits)
        BY <4>3
      <4>5. k + 1 \in DOMAIN commits /\ Head(inbox) = commits[k + 1]
        BY <4>1, <4>2, <4>4
      <4> QED  BY <4>5, Zenon DEF Committed, Range
    <3> QED  BY <1>1, <2>1, <3>1, <3>3, <3>4, SendClient, Zenon
  <2> QED  BY <2>2, <2>3, Zenon
<1>7. CASE Listen \/ Fetch \/ NoticeBreak \/ FetchFails \/ \E n \in 0..Len(inbox) : BreakListener(n)
  BY <1>1, <1>7, ClientKept, Zenon DEF Listen, Fetch, NoticeBreak, FetchFails, BreakListener, table
<1>8. ASSUME NEW c \in Clients, Serve(c) \/ Drop(c) \/ BreakStream(c) PROVE ClientInv(d)'
  BY <1>1, <1>8, OwnClient, OtherClient, Zenon
<1>9. CASE UNCHANGED vars
  BY <1>1, <1>9, ClientKept, Zenon DEF vars
<1> QED  BY <1>2, <1>3, <1>4, <1>5, <1>6, <1>7, <1>8, <1>9, Zenon DEF Next, Database, Manager, Faults

-----------------------------------------------------------------------------
(* The listener map *)

\* subscribe adds the entry, and what is left of drop keeps one that is in use.
LEMMA ListedStep == TypeOK /\ LiveIsListed /\ [Next]_vars => LiveIsListed'
<1> SUFFICES ASSUME TypeOK, LiveIsListed, [Next]_vars PROVE LiveIsListed'
  BY Zenon
<1>1. \A c \in Clients : stream[c] \in Stream
  BY ClientTypes, Zenon
<1>2. ASSUME listeners' = listeners, \A c \in Clients : stream'[c].pc \in {"subscribed", "streaming"} => Attached(c)
      PROVE  LiveIsListed'
  BY <1>2, Zenon DEF LiveIsListed, Attached
<1>3. ASSUME listeners' = listeners, stream' = stream PROVE LiveIsListed'
  BY <1>2, <1>3, Zenon DEF Attached
<1>4. ASSUME NEW i \in Ids, listeners' = listeners, send_message(i) PROVE LiveIsListed'
  <2>1. ASSUME NEW c \in Clients PROVE stream'[c].pc = stream[c].pc
    BY <1>1, <1>4, PushType, Zenon DEF send_message
  <2> QED  BY <1>2, <1>4, <2>1, Zenon DEF Attached
<1>5. CASE SendFetched
  BY <1>4, <1>5, Zenon DEF SendFetched, TypeOK
<1>6. CASE Receive
  <2>1. Head(inbox) \in Ids
    BY <1>6, TailFacts, Zenon DEF Receive, TypeOK
  <2> QED  BY <1>3, <1>4, <1>6, <2>1, Zenon DEF Receive
<1>7. ASSUME NEW c \in Clients, Subscribe(c) PROVE LiveIsListed'
  <2>1. ASSUME NEW d \in Clients, d # c PROVE stream'[d] = stream[d]
    BY <1>7, <2>1, Zenon DEF Subscribe, TypeOK
  <2>2. listeners' = listeners \cup {Watched[c]}
    BY <1>7, Zenon DEF Subscribe
  <2> QED  BY <2>1, <2>2, Zenon DEF LiveIsListed, Attached
<1>8. ASSUME NEW c \in Clients, Drop(c) PROVE LiveIsListed'
  BY <1>8, Zenon DEF Drop, LiveIsListed, Attached
<1>9. ASSUME NEW c \in Clients,
             ReadTable(c) \/ YieldRow(c) \/ YieldNotification(c) \/ StreamEnds(c) \/ BreakStream(c)
      PROVE  LiveIsListed'
  <2>1. listeners' = listeners
    BY <1>9, Zenon DEF ReadTable, YieldRow, YieldNotification, StreamEnds, BreakStream
  <2>2. stream \in [Clients -> Stream]
    BY Zenon DEF TypeOK
  <2>3. ASSUME NEW d \in Clients, d # c PROVE stream'[d] = stream[d]
    BY <1>9, <2>2, <2>3, Zenon DEF ReadTable, YieldRow, YieldNotification, StreamEnds, BreakStream, Abandon
  <2>4. stream'[c].pc \in {"subscribed", "streaming"} => Attached(c)
    BY <1>9, <2>2, Zenon DEF ReadTable, YieldRow, YieldNotification, StreamEnds, BreakStream, Abandon, NoStream,
                      Attached, Stream
  <2> QED  BY <1>2, <2>1, <2>3, <2>4, Zenon DEF Attached
<1>10. CASE Listen \/ Fetch \/ NoticeBreak \/ FetchFails \/ \E n \in 0..Len(inbox) : BreakListener(n)
  BY <1>3, <1>10, Zenon DEF Listen, Fetch, NoticeBreak, FetchFails, BreakListener
<1>11. CASE Database
  BY <1>3, <1>11, Zenon DEF Database, Emit, Commit, Rollback
<1>12. CASE UNCHANGED vars
  BY <1>3, <1>12, Zenon DEF vars
<1> QED  BY <1>5, <1>6, <1>7, <1>8, <1>9, <1>10, <1>11, <1>12, Zenon DEF Next, Manager, Serve, Faults

-----------------------------------------------------------------------------
(* Theorems *)

\* Nothing has happened in the beginning.
LEMMA Initially == Init => IInv
<1> SUFFICES ASSUME Init PROVE IInv
  BY Zenon
<1>1. Ids = {} /\ Committed = {} /\ Range(sent) = {} /\ Len(commits) = 0 /\ Len(inbox) = 0 /\ Len(sent) = 0
  BY DEF Init, Ids, Committed, Range
<1>2. TypeOK
  <2>1. NoStream \in Stream
    BY SubscriptionConstants DEF NoStream, Stream
  <2>2. /\ event \in Seq(Event) /\ commits \in Seq(Ids) /\ inbox \in Seq(Ids) /\ sent \in Seq(Ids)
        /\ last \in 0..Len(event) /\ open \subseteq Ids /\ fetched \subseteq Ids /\ listeners \subseteq Backends
    BY DEF Init
  <2>3. /\ stream \in [Clients -> Stream] /\ dropping \in [Clients -> Nat] /\ breaks \in Nat
        /\ seen \in [Clients -> Seq(1..MaxStatus)]
    BY <2>1 DEF Init
  <2>4. phase \in {"down", "catchup", "live"} /\ conn \in BOOLEAN
    BY Zenon DEF Init
  <2> QED  BY <2>2, <2>3, <2>4, Zenon DEF TypeOK
<1>3. TableOrder
  BY <1>1, Zenon DEF Init, TableOrder
<1>4. ManagerInv
  BY <1>1 DEF Init, ManagerInv, SentBelow, SentInOrder, FetchedFirst, PassedOver, InboxSuffix
<1>5. LiveIsListed
  BY Zenon DEF Init, LiveIsListed, Attached, NoStream
<1>6. ASSUME NEW c \in Clients PROVE ClientInv(c)
  <2>1. /\ stream[c].pc = "off" /\ stream[c].rows = {} /\ stream[c].buffer = <<>>
        /\ stream[c].last_status = 0 /\ stream[c].last_event_id = 0 /\ seen[c] = <<>>
    BY Zenon DEF Init, NoStream
  <2> QED  BY <1>1, <2>1 DEF ClientInv, StreamKnown, RowsAhead, BufferAhead, SeenBelow, SeenSoFar, Attached
<1> QED  BY <1>2, <1>3, <1>4, <1>5, <1>6, Zenon DEF IInv, StreamInv

\* The table, the listener and the streams keep the inductive invariant in
\* every step: of a transaction, of the manager's loop, of a request's handler,
\* of a dropped subscription, and of every fault.
THEOREM Invariance == Spec => []IInv
<1>1. IInv /\ [Next]_vars => IInv'
  BY TypeStep, TableStep, ManagerStep, ListedStep, StreamStep, Zenon DEF IInv
<1> QED  BY <1>1, Initially, PTL DEF Spec

\* The states are well-typed.
THEOREM TypeCorrect == Spec => []TypeOK
<1>1. IInv => TypeOK
  BY Zenon DEF IInv
<1> QED  BY <1>1, Invariance, PTL

\* However often the listener reconnects, EventSubscriptionManager::new sends
\* no event twice and none after a later one.
THEOREM SentOnceInOrder == Spec => []SentInOrder
<1>1. IInv => SentInOrder
  BY Zenon DEF IInv, ManagerInv, SentBelow
<1> QED  BY <1>1, Invariance, PTL

\* An event is sent or can still arrive, whatever connections and queries
\* fail, unless it is from before the first message or was overtaken.
THEOREM NoEventForgotten == Spec => []NothingForgotten
<1>1. ASSUME IInv PROVE NothingForgotten
  <2> SUFFICES ASSUME NEW i \in Committed, i \notin Range(sent), ~Overtaken(i), ~Early(i)
               PROVE  i > last /\ (phase # "live" \/ ~conn \/ i \in Range(inbox) \cup fetched)
    BY Zenon DEF NothingForgotten
  <2>1. TypeOK /\ ManagerInv
    BY <1>1, Zenon DEF IInv
  <2>2. commits \in Seq(Ids) /\ inbox \in Seq(Ids) /\ last \in Nat /\ Ids \subseteq Nat /\ Committed \subseteq Ids
    BY <2>1, StatusTypes DEF TypeOK, Ids
  <2>3. ~(i <= last)
    BY <2>1, Zenon DEF ManagerInv, PassedOver
  <2>4. i > last
    BY <2>2, <2>3
  <2>5. ASSUME phase = "live", conn PROVE i \in Range(inbox)
    <3>1. PICK k \in 0..Len(commits) :
            /\ \A n \in 1..Len(inbox) : inbox[n] = commits[k + n]
            /\ k + Len(inbox) = Len(commits)
            /\ \A p \in 1..k : commits[p] <= last \/ Early(commits[p])
      BY <2>1, <2>5, Zenon DEF ManagerInv, InboxSuffix
    <3>2. PICK p \in 1..Len(commits) : i = commits[p]
      BY <2>2 DEF Committed, Range
    <3>3. p \notin 1..k
      BY <2>3, <3>1, <3>2, Zenon
    <3>4. Len(inbox) \in Nat /\ Len(commits) \in Nat /\ DOMAIN inbox = 1..Len(inbox)
      BY <2>2
    <3>5. p - k \in 1..Len(inbox) /\ k + (p - k) = p
      BY <3>1, <3>3, <3>4
    <3>6. inbox[p - k] = i
      BY <3>1, <3>2, <3>5, Zenon
    <3> QED  BY <3>4, <3>5, <3>6, Zenon DEF Range
  <2> QED  BY <2>4, <2>5, Zenon
<1> QED  BY <1>1, Invariance, PTL

\* A subscription that is in use has its entry in the ListenerMap.
THEOREM SubscriptionsListed == Spec => []LiveIsListed
<1>1. IInv => LiveIsListed
  BY Zenon DEF IInv
<1> QED  BY <1>1, Invariance, PTL

\* Over all its connections a client sees the statuses of its backend in order
\* and each at most once.
THEOREM ClientSeesInOrder == Spec => []SeenInOrder
<1>1. IInv => SeenInOrder
  BY Zenon DEF IInv, StreamInv, ClientInv, SeenSoFar, SeenInOrder
<1> QED  BY <1>1, Invariance, PTL

\* What a client has seen has no gaps but those of the manager itself: the
\* join of table and notifications, a lagging channel and a reconnect lose
\* nothing.
THEOREM ClientSeesAll == Spec => []NoGaps
<1>1. IInv => NoGaps
  BY Zenon DEF IInv, StreamInv, ClientInv, SeenSoFar, NoGaps, Covered
<1> QED  BY <1>1, Invariance, PTL

=============================================================================
