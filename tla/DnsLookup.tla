------------------------------ MODULE DnsLookup ------------------------------
(***************************************************************************)
(* The DNS server that answers the TXT queries of ACME challenges          *)
(* (plane/src/dns/mod.rs).  It keeps nothing: every query becomes a        *)
(* request to a controller (controller/dns.rs), over a typed socket, for   *)
(* the value of acme_txt_entries.  The requests of all queries go through  *)
(* one broadcast channel of capacity 1 to the task that owns the socket;   *)
(* the queries for one cluster share an entry of request_map, and the next *)
(* response for the cluster, whichever request it answers, answers them    *)
(* all.                                                                    *)
(*                                                                         *)
(* Breaks, errors of the database, failed registrations, requests          *)
(* overwritten by another cluster's, messages dropped by a full queue and  *)
(* timeouts of a query whose answer is on the way are mishaps, of which    *)
(* there are at most MaxMishaps.                                           *)
(***************************************************************************)
EXTENDS TypedSocket, Functions

CONSTANTS Queries,    \* the queries that can be open at once
          Clusters,   \* the clusters asked for
          None,       \* no request in the broadcast channel
          MaxWrites,  \* times a cluster's value is written
          MaxMishaps

ASSUME DnsAssumption ==
    /\ None \notin Clusters
    /\ {MaxWrites, MaxMishaps} \subseteq Nat

VARIABLES record,      \* acme_txt_entries: how often a cluster's value was written
          query,       \* the tasks of handle_request
          request_map, \* the queries waiting on a cluster's channel, or no entry
          outbound,    \* the broadcast channel to the connection's task
          task,        \* that task: "connecting" | "connected"
          socket,      \* its connection
          handler,     \* the controller's: "registering" | "serving" | "gone"
          mishaps

server == <<query, request_map, outbound>>
dnsVars == <<record, server, task, socket, handler, mishaps>>

NoEntry == [exists |-> FALSE, waiting |-> {}]
Entry(waiting) == [exists |-> TRUE, waiting |-> waiting]

Idle == [pc |-> "idle", cluster |-> None, floor |-> 0, value |-> 0]

DnsInit ==
    /\ record = [c \in Clusters |-> 0]
    /\ query = [q \in Queries |-> Idle]
    /\ request_map = [c \in Clusters |-> NoEntry]
    /\ outbound = None
    /\ task = "connecting"
    /\ socket = NoSocket
    /\ handler = "gone"
    /\ mishaps = 0

Mishap ==
    /\ mishaps < MaxMishaps
    /\ mishaps' = mishaps + 1

(* A message that a full queue drops is a mishap.                          *)
Dropping(q) == IF socket.open /\ ~HasRoom(q) THEN Mishap ELSE UNCHANGED mishaps

(* A request or a response for the cluster is under way.                   *)
OnTheWay(c) ==
    \/ outbound = c
    \/ c \in Range(socket.up)
    \/ \E r \in Range(socket.down) : r.cluster = c

-----------------------------------------------------------------------------
(* The queries.                                                            *)

(* The value a query may not fall behind: the one published when it was    *)
(* asked, if no older request was under way then.                          *)
Floor(c) == IF OnTheWay(c) THEN 0 ELSE record[c]

Asked(c) == [pc |-> "waiting", cluster |-> c, floor |-> Floor(c), value |-> 0]

(* The broadcast channel holds one request; the task that reads it only    *)
(* logs that it has missed the one overwritten.                            *)
Overwrite(c) ==
    /\ outbound' = c
    /\ IF outbound \in {None, c} THEN UNCHANGED mishaps ELSE Mishap

(* A query for a cluster that has an entry takes its place.                *)
RequestAfresh(q, c) ==
    /\ query[q].pc = "idle"
    /\ query' = [query EXCEPT ![q] = Asked(c)]
    /\ request_map' = [request_map EXCEPT ![c] = Entry({q})]
    /\ Overwrite(c)
    /\ UNCHANGED <<record, task, socket, handler>>

(* Only the query that creates the entry sends a request.                  *)
RequestOnce(q, c) ==
    /\ query[q].pc = "idle"
    /\ query' = [query EXCEPT ![q] = Asked(c)]
    /\ request_map' = [request_map EXCEPT ![c] = Entry(@.waiting \cup {q})]
    /\ IF request_map[c].exists THEN UNCHANGED <<outbound, mishaps>> ELSE Overwrite(c)
    /\ UNCHANGED <<record, task, socket, handler>>

(* do_lookup and request: a TXT query for a name of the zone subscribes to *)
(* the cluster's channel, made for it if there is none, and sends the      *)
(* request; a request the task has not taken yet is overwritten.           *)
do_lookup(q, c) ==
    /\ query[q].pc = "idle"
    /\ query' = [query EXCEPT ![q] = Asked(c)]
    /\ request_map' = [request_map EXCEPT ![c] = Entry(@.waiting \cup {q})]
    /\ Overwrite(c)
    /\ UNCHANGED <<record, task, socket, handler>>

(* After 5 seconds the query gives up with SERVFAIL, and drops its         *)
(* receiver; the entry stays.  That is longer than a request and its       *)
(* response take.                                                          *)
TimesOut(q) ==
    LET c == query[q].cluster
    IN  /\ query[q].pc = "waiting"
        /\ IF OnTheWay(c) THEN Mishap ELSE UNCHANGED mishaps
        /\ query' = [query EXCEPT ![q] = Idle]
        /\ request_map' = [request_map EXCEPT ![c].waiting = @ \ {q}]
        /\ UNCHANGED <<record, outbound, task, socket, handler>>

(* The response is sent, and the resolver may ask again.                   *)
Responds(q) ==
    /\ query[q].pc = "answered"
    /\ query' = [query EXCEPT ![q] = Idle]
    /\ UNCHANGED <<record, request_map, outbound, task, socket, handler, mishaps>>

-----------------------------------------------------------------------------
(* The task that owns the connection.                                      *)

Connect ==
    /\ task = "connecting"
    /\ task' = "connected"
    /\ socket' = NewSocket
    /\ handler' = "registering"
    /\ UNCHANGED <<record, server, mishaps>>

(* A request is taken from the channel and sent.                           *)
Outbound(c) ==
    /\ task = "connected" /\ outbound = c
    /\ outbound' = None
    /\ Dropping(socket.up)
    /\ socket' = send(socket, c)
    /\ UNCHANGED <<record, query, request_map, task, handler>>

(* A TxtRecordResponse: the cluster's entry is removed, and every query    *)
(* subscribed to its channel gets the value.                               *)
Inbound ==
    /\ task = "connected" /\ Received(socket.down)
    /\ LET r == Head(socket.down)
           waiting == request_map[r.cluster].waiting
       IN  /\ request_map' = [request_map EXCEPT ![r.cluster] = NoEntry]
           /\ query' = [q \in Queries |->
                          IF q \in waiting
                          THEN [query[q] EXCEPT !.pc = "answered", !.value = r.value]
                          ELSE query[q]]
    /\ socket' = [socket EXCEPT !.down = Tail(@)]
    /\ UNCHANGED <<record, outbound, task, handler, mishaps>>

(* recv returns None: connect again, with what the map and the channel     *)
(* hold.                                                                   *)
Closed ==
    /\ task = "connected" /\ Finished(socket.down, socket)
    /\ task' = "connecting"
    /\ UNCHANGED <<record, server, socket, handler, mishaps>>

-----------------------------------------------------------------------------
(* The controller: dns_socket_inner.                                       *)

register_node ==
    /\ handler = "registering"
    /\ \/ handler' = "serving" /\ UNCHANGED <<socket, mishaps>>
       \/ handler' = "gone" /\ Mishap /\ UNCHANGED socket
    /\ UNCHANGED <<record, server, task>>

StaleRecord(c) == IF record[c] > 0 THEN record[c] - 1 ELSE 0

txt_record_for_cluster(c) == record[c]

(* A request is answered with the value of the row.                        *)
Serve ==
    /\ handler = "serving" /\ Received(socket.up)
    /\ LET c == Head(socket.up)
           r == [cluster |-> c, value |-> txt_record_for_cluster(c)]
       IN  socket' = Reply([socket EXCEPT !.up = Tail(@)], r)
    /\ Dropping(socket.down)
    /\ UNCHANGED <<record, server, task, handler>>

(* The query of the row fails: there is no response.                       *)
ServeFails ==
    /\ handler = "serving" /\ Received(socket.up)
    /\ Mishap
    /\ socket' = [socket EXCEPT !.up = Tail(@)]
    /\ UNCHANGED <<record, server, task, handler>>

HandlerEnds ==
    /\ handler = "serving" /\ Finished(socket.up, socket)
    /\ handler' = "gone"
    /\ UNCHANGED <<record, server, task, socket, mishaps>>

(* A proxy publishes a challenge (set_cluster_dns).                        *)
PublishTxt(c) ==
    /\ record[c] < MaxWrites
    /\ record' = [record EXCEPT ![c] = @ + 1]
    /\ UNCHANGED <<server, task, socket, handler, mishaps>>

-----------------------------------------------------------------------------
(* The connection.                                                         *)

(* It is lost, with some of what was under way.                            *)
SocketBreaks ==
    /\ socket.open
    /\ Mishap
    /\ \E i \in 0..Len(socket.up), j \in 0..Len(socket.down) :
          socket' = Close(socket, i, j)
    /\ UNCHANGED <<record, server, task, handler>>

(* A message for a handler that could not register its node.               *)
Undeliverable ==
    /\ handler = "gone" /\ Abandoned(socket)
    /\ socket' = Close(socket, 0, Len(socket.down))
    /\ UNCHANGED <<record, server, task, handler, mishaps>>

DnsNext ==
    \/ \E q \in Queries : (\E c \in Clusters : do_lookup(q, c)) \/ TimesOut(q) \/ Responds(q)
    \/ Connect \/ Inbound \/ Closed
    \/ \E c \in Clusters : Outbound(c) \/ PublishTxt(c)
    \/ register_node \/ Serve \/ ServeFails \/ HandlerEnds
    \/ SocketBreaks \/ Undeliverable

DnsSpec == DnsInit /\ [][DnsNext]_dnsVars

(* The tasks of the server and of the controller run.                      *)
DnsFairSpec ==
    /\ DnsSpec
    /\ \A q \in Queries : WF_dnsVars(TimesOut(q)) /\ WF_dnsVars(Responds(q))
    /\ WF_dnsVars(Connect) /\ WF_dnsVars(Inbound) /\ WF_dnsVars(Closed)
    /\ \A c \in Clusters : WF_dnsVars(Outbound(c))
    /\ WF_dnsVars(register_node) /\ WF_dnsVars(Serve) /\ WF_dnsVars(HandlerEnds) /\ WF_dnsVars(Undeliverable)

-----------------------------------------------------------------------------
(* Every variable has the type the code gives it.                          *)
DnsTypeOK ==
    /\ record \in [Clusters -> 0..MaxWrites]
    /\ query \in [Queries -> [pc : {"idle", "waiting", "answered"}, cluster : Clusters \cup {None},
                              floor : 0..MaxWrites, value : 0..MaxWrites]]
    /\ request_map \in [Clusters -> [exists : BOOLEAN, waiting : SUBSET Queries]]
    /\ outbound \in Clusters \cup {None}
    /\ task \in {"connecting", "connected"}
    /\ socket \in Sockets(Clusters, [cluster : Clusters, value : 0..MaxWrites])
    /\ handler \in {"registering", "serving", "gone"}
    /\ mishaps \in 0..MaxMishaps

(* No query waits on a channel that no response will reach: a query that   *)
(* has not been answered is subscribed to its cluster's entry of           *)
(* request_map, however the entry's removal by a response, the timeouts of *)
(* other queries and new queries for the cluster interleave.               *)
NoOrphan ==
    \A q \in Queries : query[q].pc = "waiting" => q \in request_map[query[q].cluster].waiting

(* A query asked when nothing was under way for its cluster is answered    *)
(* with the value published then or a newer one, although a response is    *)
(* not matched with the request it answers.  This is what the 15 seconds   *)
(* between a proxy's publishing and the validation of it are for.          *)
FreshWhenQuiet ==
    \A q \in Queries : query[q].pc = "answered" => query[q].value >= query[q].floor

Some(c, pc) == \E q \in Queries : query[q].cluster = c /\ query[q].pc = pc

(* The queries for a cluster that are made again and again are answered    *)
(* again and again: requests that were overwritten in the broadcast        *)
(* channel, dropped by a full queue, lost with a connection or left        *)
(* unanswered by a controller are made good by the request that every      *)
(* later query sends ("the best way to protect against the request         *)
(* failing", dns/mod.rs 111-112).                                          *)
AnsweredAgain ==
    \A c \in Clusters : []<>Some(c, "waiting") => []<>Some(c, "answered")

=============================================================================
