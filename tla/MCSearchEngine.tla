--------------------------- MODULE MCSearchEngine ---------------------------
(* One file, two threads that may download it, one that publishes it.      *)
EXTENDS SearchEngine, TLC

CONSTANTS d1, d2

MCDownloaders == {d1, d2}
Threads == Permutations(MCDownloaders)
=============================================================================
