--------------------------- MODULE MCProxyRoutes ---------------------------
(* The tokens of the instance all belong to the one backend. *)
EXTENDS ProxyRoutes

CONSTANTS b1

MCTarget == [t \in Tokens |-> b1]
=============================================================================
