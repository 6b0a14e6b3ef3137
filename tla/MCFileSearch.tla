---------------------------- MODULE MCFileSearch ----------------------------
(* FileSearch with a few trackers.                                         *)
EXTENDS FileSearch

CONSTANTS a, b, s1, f1

MCSameFile == [s \in Searches |-> f1]

MCOneList  == {{}, {a}}

PeersAndOwner == {<<"owner">>, <<"peers", "owner">>}
=============================================================================
