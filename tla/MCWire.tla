------------------------------- MODULE MCWire -------------------------------
(* Wire with pieces of two slices of two bytes.  WholeSlices are the       *)
(* messages of a client that never chokes and sends whole slices only.     *)
EXTENDS Wire

WholeSlices ==
    {<<"unchoke">>, <<"interested">>, <<"have", 1>>, <<"bitfield">>,
     <<"request", 1, 2, 2>>, <<"piece", 1, 2, 2>>, <<"cancel", 0, 0, 2>>}
=============================================================================
