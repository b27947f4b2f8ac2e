------------------------ MODULE MCEventSubscriptions ------------------------
EXTENDS EventSubscriptions

CONSTANTS b1, b2, c1

MCWatched == [c \in Clients |-> b1]
=============================================================================
