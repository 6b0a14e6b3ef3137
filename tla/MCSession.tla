----------------------------- MODULE MCSession -----------------------------
(* Session on two peers: "near" within iPeersScope and holding everything, *)
(* "far" out of it and holding the first piece, or nothing yet.            *)
EXTENDS Session

CONSTANTS near, far

MCNear == {near}

MCOwns == [p \in Peers |-> IF p = near THEN 0 .. NumberOfPieces - 1 ELSE {0}]

(* Everybody starts with nothing, and announces what it gets.             *)
MCOwnsNothing == [p \in Peers |-> {}]
=============================================================================
