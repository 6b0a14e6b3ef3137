--------------------------- MODULE MCChokePolicy ---------------------------
(* One session with a list of three peers.                                *)
EXTENDS ChokePolicy, TLC

CONSTANTS a, p1, p2, p3

OneSession == [p \in {p1, p2, p3} |-> a]
ThreePlaces == (p1 :> 1) @@ (p2 :> 2) @@ (p3 :> 3)
=============================================================================
