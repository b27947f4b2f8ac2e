----------------------------- MODULE MCKeyLease -----------------------------
EXTENDS KeyLease, TLC

CONSTANTS d1, d2

\* The two drones' clocks differ from the database's, in both directions.
MCOffset == [d \in Drones |-> IF d = d1 THEN 3 ELSE -2]

Symmetry == Permutations(Backends)

=============================================================================
