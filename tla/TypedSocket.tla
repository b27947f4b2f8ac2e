----------------------------- MODULE TypedSocket -----------------------------
(***************************************************************************)
(* A typed socket between a client (a drone, a proxy or a DNS server) and  *)
(* a controller (common/src/typed_socket), as operators on the value s of  *)
(* one connection.  At each end a task moves messages between the          *)
(* websocket and two bounded queues; s.up and s.down hold what is under    *)
(* way to the controller and to the client, from the sender's queue over   *)
(* the wire to the receiver's.  The first messages of each may have        *)
(* reached the receiver's queue, and are read even after the connection    *)
(* has ended.                                                              *)
(***************************************************************************)
EXTENDS Integers, Sequences

CONSTANT Capacity   \* of the queues (1024 each in the code)

ASSUME SocketAssumption == Capacity \in Nat \ {0}

(* A connection after the handshakes of connect and new_server, and none.  *)
NewSocket == [up |-> <<>>, down |-> <<>>, open |-> TRUE]
NoSocket == [up |-> <<>>, down |-> <<>>, open |-> FALSE]

Sockets(To, From) == [up : Seq(To), down : Seq(From), open : BOOLEAN]

HasRoom(q) == Len(q) < Capacity

(* TypedSocket::send.  The error of try_send, Clogged when the queue is    *)
(* full and Closed when the task has ended, is only logged by the callers: *)
(* the message is gone.  So it is when the client's task finds the queue   *)
(* to the receiver full.                                                   *)
send(s, m) == IF s.open /\ HasRoom(s.up) THEN [s EXCEPT !.up = Append(@, m)] ELSE s
Reply(s, m) == IF s.open /\ HasRoom(s.down) THEN [s EXCEPT !.down = Append(@, m)] ELSE s

(* TypedSocket::recv returns the next message; when the task has ended it  *)
(* returns those that had been received, and then None.                    *)
Received(q) == q # <<>>
Finished(q, s) == q = <<>> /\ ~s.open

(* The connection ends, by a reset, or because the handler has dropped its *)
(* end and the task cannot pass a message on.  The messages that had not   *)
(* reached the receiver's queue are lost: i and j are left.                *)
Close(s, i, j) == [up |-> SubSeq(s.up, 1, i), down |-> SubSeq(s.down, 1, j), open |-> FALSE]

(* The controller's handler has returned, and its end of the queue with    *)
(* it: the task ends on the next message it receives.                      *)
Abandoned(s) == s.open /\ s.up # <<>>

=============================================================================
