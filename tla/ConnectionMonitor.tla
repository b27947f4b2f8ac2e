------------------------- MODULE ConnectionMonitor -------------------------
(***************************************************************************)
(* The proxy's record of which backends have traffic                       *)
(* (src/plane/src/proxy/connection_monitor.rs).  It is a data structure    *)
(* behind one mutex, so its methods are operators on a value m:            *)
(*                                                                         *)
(*   m.backends  the entries, a function whose domain is the set of        *)
(*               backends that have one;                                   *)
(*   m.queue     visit_queue, the visits that are due, oldest first.       *)
(*                                                                         *)
(* Each method that may call the listener, which sends a KeepAlive, comes  *)
(* with the predicate that says whether it does.  A time of the source is  *)
(* the number the caller passes as `due'.                                  *)
(*                                                                         *)
(* The visit loop pops the oldest visit, sleeps until it is due and only   *)
(* then takes the lock again.  Nothing else pops, so it is the same to     *)
(* leave the visit at the head of the queue until it is carried out, and   *)
(* Visit does both in one step.                                            *)
(***************************************************************************)
EXTENDS Integers, Sequences

CONSTANT
  CountBound    \* active_connections is an unsigned integer below this bound

ASSUME CountAssumption == CountBound \in Nat \ {0}

Entries == [active : 0 .. CountBound - 1, recent : BOOLEAN]

NoBackends == [b \in {} |-> 0]

\* ConnectionMonitor::default.
EmptyMonitor == [backends |-> NoBackends, queue |-> <<>>]

HasEntry(m, b) == b \in DOMAIN m.backends

SetEntry(m, b, e) ==
  [m EXCEPT !.backends =
     [x \in DOMAIN m.backends \cup {b} |-> IF x = b THEN e ELSE m.backends[x]]]

DropEntry(m, b) ==
  [m EXCEPT !.backends = [x \in DOMAIN m.backends \ {b} |-> m.backends[x]]]

Enqueue(m, b, due) == [m EXCEPT !.queue = Append(@, [backend |-> b, due |-> due])]

(***************************************************************************)
(* touch_backend and inc_connection: a request that was not upgraded, and  *)
(* one that was.  Only a backend without an entry is announced (the        *)
(* listener is called) and queued.                                         *)
(***************************************************************************)
Announces(m, b) == ~HasEntry(m, b)

touch_backend(m, b, due) ==
  IF HasEntry(m, b)
  THEN [m EXCEPT !.backends[b].recent = TRUE]
  ELSE SetEntry(Enqueue(m, b, due), b, [active |-> 0, recent |-> TRUE])

inc_connection(m, b, due) ==
  IF HasEntry(m, b)
  THEN [m EXCEPT !.backends[b] =
          [active |-> (@.active + 1) % CountBound, recent |-> TRUE]]
  ELSE SetEntry(Enqueue(m, b, due), b, [active |-> 1, recent |-> TRUE])

\* An entry made since the connection was counted may be at zero: the count wraps.
dec_connection(m, b) ==
  IF HasEntry(m, b)
  THEN [m EXCEPT !.backends[b].active = (@ - 1) % CountBound]
  ELSE m

\* A visit that is queued for the backend stays in the queue.
remove_backend(m, b) == DropEntry(m, b)

(***************************************************************************)
(* One round of the loop in ConnectionMonitorHandle::new, for the oldest   *)
(* visit.                                                                  *)
(***************************************************************************)
InUse(m, b) ==
  HasEntry(m, b) /\ (m.backends[b].active > 0 \/ m.backends[b].recent)

\* Mutant of Visit: the open connections do not keep the entry.
VisitRecent(m, due) ==
  LET b == Head(m.queue).backend
      rest == [m EXCEPT !.queue = Tail(@)]
  IN IF HasEntry(m, b) /\ m.backends[b].recent
     THEN Enqueue([rest EXCEPT !.backends[b].recent = FALSE], b, due)
     ELSE DropEntry(rest, b)

\* Mutant of Visit: an entry is kept although nothing uses it.
VisitKeeps(m, due) ==
  LET b == Head(m.queue).backend
      rest == [m EXCEPT !.queue = Tail(@)]
  IN IF HasEntry(m, b) THEN Enqueue(rest, b, due) ELSE rest

VisitAnnounces(m) == InUse(m, Head(m.queue).backend)

Visit(m, due) ==
  LET b == Head(m.queue).backend
      rest == [m EXCEPT !.queue = Tail(@)]
  IN IF InUse(m, b)
     THEN Enqueue([rest EXCEPT !.backends[b].recent = FALSE], b, due)
     ELSE DropEntry(rest, b)
=============================================================================
