--------------------------- MODULE MCProxyRouting ---------------------------
(* Instances of ProxyRouting for TLC. *)
EXTENDS ProxyRouting, TLC

CONSTANTS t1, t2, p1, q1, q2, s1

OneProvider == [t \in Targets |-> p1]
OneSession == [q \in Requests |-> s1]

Symmetry == Permutations(Requests) \cup Permutations(Targets)
=============================================================================
