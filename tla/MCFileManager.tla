---------------------------- MODULE MCFileManager ----------------------------
(* FileManager on torrents of seven bytes: two pieces of four and three    *)
(* bytes, slices of two and, at the end, of one, in one file, two files    *)
(* (one of which may be empty), and around a third file in the middle, of  *)
(* one byte or empty.                                                      *)
EXTENDS FileManager

MCLayouts ==
    {FoldLeft(AddFile, <<>>, l) : l \in
        {<<7>>, <<3, 0, 4>>} \cup {<<n, 7 - n>> : n \in 0 .. 7}
                           \cup {<<n, 1, 6 - n>> : n \in 0 .. 6}}
=============================================================================
