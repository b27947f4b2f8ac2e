---------------------------- MODULE MCIdleSweep ----------------------------
(* A backend has an idle limit just as long as a visit and a keepalive      *)
(* take, or an expiration time.                                             *)
EXTENDS IdleSweep

MCLimits ==
  {[idle |-> VisitInterval + WireDelay, life |-> NoLimit],
   [idle |-> NoLimit, life |-> 1]}
=============================================================================
