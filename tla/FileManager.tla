----------------------------- MODULE FileManager -----------------------------
(***************************************************************************)
(* The data files of one session of the BitHoc client (FileManager.cpp)    *)
(* and what the session does with them (Session.cpp): the slices of a      *)
(* piece are written where the metainfo file has them, in one file or over *)
(* the borders of several, a piece is read back to be verified, once it is *)
(* there and when a process starts, and slices of a complete piece are     *)
(* read and sent.  A byte of the torrent is its position; the hash is      *)
(* right exactly if every byte is.                                         *)
(***************************************************************************)
EXTENDS Integers, SequencesExt

CONSTANTS
    Layouts,      \* the files of each torrent considered
    PieceLength,  \* m_piece_length
    SliceSize,    \* iSliceSize
    ReadStride    \* piecestrcat_length, 16: less than a piece

\* The position behind a file.
End(file) == file.offset + file.length

\* A file goes behind the one before.
AddFile(l, n) ==
    Append(l, [offset |-> IF l = <<>> THEN 0 ELSE End(Last(l)), length |-> n])

\* What AddFile makes of the lengths in a metainfo file.
Laid(l) ==
    /\ l \in Seq([offset : Nat, length : Nat]) /\ l # <<>>
    /\ l[1].offset = 0
    /\ \A f \in 2 .. Len(l) : l[f].offset = End(l[f - 1])
    /\ End(l[Len(l)]) > 0

ASSUME FileAssumption ==
    /\ \A l \in Layouts : Laid(l)
    /\ SliceSize \in Nat \ {0} /\ PieceLength \in Nat /\ PieceLength > SliceSize
    /\ ReadStride \in 1 .. PieceLength - 1

Hole == -1   \* a byte of a file that was never written
Bad  == -2   \* a byte that arrived corrupted
Junk == -3   \* a byte of a buffer that was not read into

VARIABLES
    files,     \* m_files: offset and length of each file
    single,    \* m_length is not 0: one file
    open,      \* the files are open
    data,      \* the bytes of each file
    complete,  \* m_complete of the session
    received,  \* mComplete of each other piece: the slices received
    saved,     \* both of them in the state file
    content    \* history: what was written last at each position

vars == <<files, single, open, data, complete, received, saved, content>>

Files  == DOMAIN files
Total  == End(files[Len(files)])
Pieces == 0 .. (Total - 1) \div PieceLength

\* m_last_length for the last piece.
LengthOf(i) == Min({PieceLength, Total - i * PieceLength})

\* The slices of a piece, as offset and length.
Slices(i) ==
    {<<o, Min({SliceSize, LengthOf(i) - o})>> :
        o \in {k * SliceSize : k \in 0 .. (LengthOf(i) - 1) \div SliceSize}}

Init ==
    /\ files \in Layouts
    /\ single \in BOOLEAN /\ (single => Len(files) = 1)
    /\ open = FALSE
    /\ data = [f \in Files |-> <<>>]
    /\ complete = {} /\ received = [i \in Pieces |-> {}]
    /\ saved = [complete |-> complete, received |-> received]
    /\ content = [k \in 0 .. Total - 1 |-> Hole]

-----------------------------------------------------------------------------
(* The loop over the files, in Write and in ReadPiece, finds the part of a *)
(* buffer that lies in each file.                                          *)
NoPart == [offset |-> 0, from |-> 0, len |-> 0]

(* Mutant of Turn: the files before are not counted once the first bytes   *)
(* are placed.                                                             *)
TurnSkips(a, f) ==
    LET offset == a.start - a.ptr
        len == Min({files[f].length - offset, a.left})
    IN IF a.left > 0 /\ a.start < a.ptr + files[f].length
       THEN [start |-> a.start + len, from |-> a.from + len,
             left |-> a.left - len, ptr |-> a.ptr,
             part |-> [offset |-> offset, from |-> a.from, len |-> len]]
       ELSE [a EXCEPT !.ptr = @ + files[f].length, !.part = NoPart]

Turn(a, f) ==
    LET offset == a.start - a.ptr
        len == Min({files[f].length - offset, a.left})
    IN IF a.left > 0 /\ a.start < a.ptr + files[f].length
       THEN [start |-> a.start + len, from |-> a.from + len,
             left |-> a.left - len, ptr |-> a.ptr + files[f].length,
             part |-> [offset |-> offset, from |-> a.from, len |-> len]]
       ELSE [a EXCEPT !.ptr = @ + files[f].length, !.part = NoPart]

\* What the loop has after each file, for n bytes of which the first is at
\* start.
Loop(start, n) ==
    LET after[f \in 0 .. Len(files)] ==
            IF f = 0
            THEN [start |-> start, from |-> 0, left |-> n, ptr |-> 0,
                  part |-> NoPart]
            ELSE Turn(after[f - 1], f)
    IN after

\* The part in each file; a single file is not looped over.
Parts(start, n) ==
    [f \in Files |->
        IF single THEN [offset |-> start, from |-> 0, len |-> n]
        ELSE Loop(start, n)[f].part]

\* fseek and fwrite: what is passed over is zeros.
Put(file, offset, bytes) ==
    [k \in 1 .. Max({Len(file), offset + Len(bytes)}) |->
        IF k \in offset + 1 .. offset + Len(bytes) THEN bytes[k - offset]
        ELSE IF k <= Len(file) THEN file[k] ELSE Hole]

Write(i, buf, begin) ==
    LET parts == Parts(i * PieceLength + begin, Len(buf))
        Bytes(c) == SubSeq(buf, c.from + 1, c.from + c.len)
    IN data' = [f \in Files |->
                   IF parts[f].len = 0 THEN data[f]
                   ELSE Put(data[f], parts[f].offset, Bytes(parts[f]))]

-----------------------------------------------------------------------------
(* Reading.                                                                *)

\* Where ReadPiece reads n bytes of piece i from.
ReadParts(i, n) ==
    IF single THEN Parts(i * PieceLength, n)
    ELSE Parts(i * ReadStride, PieceLength)

\* What fread returns: the end of the file may come first.
Fread(f, c) == Max({0, Min({c.len, Len(data[f]) - c.offset})})

\* The bytes read, and byte k of the buffer.
ReadLength(i, n) ==
    LET parts == ReadParts(i, n)
        read[f \in 0 .. Len(files)] ==
            IF f = 0 THEN 0 ELSE read[f - 1] + Fread(f, parts[f])
    IN read[Len(files)]

Buffer(i, n, k) ==
    LET parts == ReadParts(i, n)
        hit == {f \in Files :
                   k \in parts[f].from
                         .. parts[f].from + Fread(f, parts[f]) - 1}
    IN IF hit = {} THEN Junk
       ELSE LET f == CHOOSE f \in hit : TRUE
            IN data[f][parts[f].offset + k - parts[f].from + 1]

(* Mutant of Verify: a short read is enough.                               *)
VerifyPart(i) ==
    /\ ReadLength(i, LengthOf(i)) > 0
    /\ \A k \in 0 .. LengthOf(i) - 1 :
          Buffer(i, LengthOf(i), k) \in {i * PieceLength + k, Junk}

Verify(i) ==
    /\ ReadLength(i, LengthOf(i)) = LengthOf(i)
    /\ \A k \in 0 .. LengthOf(i) - 1 :
          Buffer(i, LengthOf(i), k) = i * PieceLength + k

\* The files have their full size, or more.
IsComplete ==
    IF single THEN Len(data[1]) = files[1].length
    ELSE \A f \in Files : Len(data[f]) >= files[f].length

-----------------------------------------------------------------------------
(* A process starts: the session opens its files, in which the process     *)
(* before has left what it wrote, and is loaded and verified.  A piece     *)
(* that the state file does not have as complete is when its hash is right *)
(* or, right or not, when the state file has all its slices.               *)
OpenFiles ==
    LET moved == {i \in Pieces : Verify(i) \/ saved.received[i] = Slices(i)}
    IN /\ ~open /\ open' = TRUE
       /\ complete' = saved.complete \cup moved
       /\ received' = [i \in Pieces |-> IF i \in moved THEN {}
                                         ELSE saved.received[i]]
       /\ UNCHANGED <<files, single, data, saved, content>>

(* When it is paused, and in an orderly end, the session is saved.         *)
Save ==
    /\ open
    /\ saved' = [complete |-> complete, received |-> received]
    /\ UNCHANGED <<files, single, open, data, complete, received, content>>

(* The end of the process closes the files.                                *)
Close ==
    /\ open /\ open' = FALSE
    /\ UNCHANGED <<files, single, data, complete, received, saved, content>>

(* A slice of an incomplete piece has arrived, right or corrupted; one     *)
(* that is counted already is not written.                                 *)
SaveSlice(i, s, right) ==
    LET at(k) == i * PieceLength + s[1] + k
        buf == [k \in 1 .. s[2] |-> IF right THEN at(k - 1) ELSE Bad]
    IN /\ open /\ i \notin complete /\ s \notin received[i]
       /\ Write(i, buf, s[1])
       /\ received' = [received EXCEPT ![i] = @ \cup {s}]
       /\ content' = [k \in DOMAIN content |->
                         IF k \in at(0) .. at(s[2] - 1)
                         THEN buf[k - at(0) + 1] ELSE content[k]]
       /\ UNCHANGED <<files, single, open, complete, saved>>

(* Update verifies the incomplete pieces that have all their slices; one   *)
(* with a wrong hash loses them.                                           *)
CheckComplete ==
    LET done == {i \in Pieces \ complete : received[i] = Slices(i)}
    IN /\ open /\ done # {}
       /\ complete' = complete \cup {i \in done : Verify(i)}
       /\ received' = [i \in Pieces |-> IF i \in done THEN {} ELSE received[i]]
       /\ UNCHANGED <<files, single, open, data, saved, content>>

Next ==
    \/ OpenFiles \/ Save \/ Close \/ CheckComplete
    \/ \E i \in Pieces : \E s \in Slices(i), right \in BOOLEAN :
          SaveSlice(i, s, right)

Spec == Init /\ [][Next]_vars

\* The bytes that SendSlice puts on the stream for a slice of a piece.
SendSlice(i, s) == [k \in 1 .. s[2] |-> Buffer(i, PieceLength, s[1] + k - 1)]

-----------------------------------------------------------------------------
\* The positions of the bytes of a piece.
Span(i) == i * PieceLength .. i * PieceLength + LengthOf(i) - 1

\* Whether all the bytes of a piece were written, right or not; and whether
\* the right ones were last.
Filled(i)  == \A k \in Span(i) : content[k] # Hole
Written(i) == \A k \in Span(i) : content[k] = k

(* InPlace.  The files, one behind the other, are the torrent: every byte  *)
(* that was written last at a position is in the file, and at the place,   *)
(* that the metainfo file gives it, whatever the order of slices, the      *)
(* borders of files inside a slice, empty files and restarts; nothing else *)
(* was written (FileManager.cpp:202-268).                                  *)
InPlace ==
    \A f \in Files :
        /\ Len(data[f]) <= files[f].length
        /\ \A o \in 0 .. files[f].length - 1 :
              content[files[f].offset + o] =
                  IF o < Len(data[f]) THEN data[f][o + 1] ELSE Hole

(* ReadsBack.  A piece whose right bytes were written, and only such a     *)
(* piece, passes its verification; a piece that counts as complete, also   *)
(* one that a restart took from the state file with a wrong hash, has no   *)
(* hole, and what is sent of it, after writes next to it and restarts, is  *)
(* what was written there last; a file with all its pieces written has its *)
(* full size.  The second and the third are so for single files and the    *)
(* first piece only: over several files ReadPiece counts pieces of 16      *)
(* bytes (FileManager.cpp:166-167), so that no other piece ever passes.    *)
ReadsBack ==
    /\ \A i \in Pieces :
          /\ Verify(i) => Written(i)
          /\ Written(i) /\ (single \/ i = 0) => Verify(i)
          /\ i \in complete => Filled(i)
          /\ i \in complete /\ (single \/ i = 0) =>
                \A s \in Slices(i) :
                    SendSlice(i, s) =
                        [k \in 1 .. s[2] |->
                            content[i * PieceLength + s[1] + k - 1]]
    /\ (\A i \in Pieces : Written(i)) => IsComplete
=============================================================================
