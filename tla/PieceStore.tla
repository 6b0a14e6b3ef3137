----------------------------- MODULE PieceStore -----------------------------
(***************************************************************************)
(* What a downloading session promises about the pieces of a torrent,      *)
(* without slices, requests or peers: while it runs, a piece is taken up   *)
(* only once its bytes are right, and the bytes of a held piece do not     *)
(* change; a restart finds the pieces that were saved, the ones whose      *)
(* bytes are right, and the ones that the state file has as received in    *)
(* full, right or not.                                                     *)
(***************************************************************************)
CONSTANT Pieces

VARIABLES
    good,     \* pieces whose bytes in the data file are right
    held,     \* pieces announced and served to other peers
    durable,  \* pieces that the state file has as complete
    received  \* incomplete pieces of which it has every slice

vars == <<good, held, durable, received>>

Init == good = {} /\ held = {} /\ durable = {} /\ received = {}

(* The data file changes, but not under a held piece.                      *)
Write ==
    /\ good' \in SUBSET Pieces
    /\ held \cap good' = held \cap good
    /\ UNCHANGED <<held, durable, received>>

Hold ==
    /\ held' \in SUBSET (held \cup good)
    /\ held \subseteq held'
    /\ UNCHANGED <<good, durable, received>>

Save ==
    /\ durable' = held /\ received' \in SUBSET Pieces
    /\ UNCHANGED <<good, held>>

(* An orderly end saves first; a crash leaves the state file of before.    *)
Restart ==
    /\ \/ durable' = held /\ received' \in SUBSET Pieces
       \/ UNCHANGED <<durable, received>>
    /\ held' = durable' \cup received' \cup good
    /\ UNCHANGED good

Next == Write \/ Hold \/ Save \/ Restart

Spec == Init /\ [][Next]_vars
=============================================================================
