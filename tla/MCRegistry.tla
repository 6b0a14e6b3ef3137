----------------------------- MODULE MCRegistry -----------------------------
(* Registry on two nodes, of which one has a client, that may start twice. *)
EXTENDS Registry

CONSTANTS a, b, a1, a2, t1, r1, r2

MCHome == [i \in Ids |-> a]
=============================================================================
