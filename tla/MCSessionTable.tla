--------------------------- MODULE MCSessionTable ---------------------------
(* SessionTable with two torrents and no connections, or one torrent and   *)
(* two peers.                                                              *)
EXTENDS SessionTable

CONSTANTS a, b, p1, p2
=============================================================================
