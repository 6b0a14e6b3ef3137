------------------------------- MODULE Wire --------------------------------
(***************************************************************************)
(* One direction of a connection between two BitHoc clients, after the     *)
(* handshake: the bytes that the Send... functions of pSocket.cpp put on   *)
(* the stream and the state machine of pSocket::OnRead that takes them     *)
(* off.  The framing is what is modelled, so the stream is a sequence of   *)
(* bytes; numbers are small enough that the upper bytes of an integer are  *)
(* zero.  OnRead waits until a whole field has arrived and keeps its place *)
(* between calls, so where the network cuts the stream makes no difference *)
(* and a field is read in one step.                                        *)
(***************************************************************************)
EXTENDS Integers, Sequences, SequencesExt

CONSTANTS
    NumberOfPieces,   \* GetNumberOfPieces()
    PieceLength,      \* GetPieceLength()
    SliceSize,        \* iSliceSize
    BitmapSize,       \* GetBitmapSize(), in bytes
    Messages,         \* the messages the sending side may send
    MaxMessages       \* bound on how many it sends

ASSUME WireAssumption ==
    /\ NumberOfPieces \in 1 .. 255 /\ PieceLength \in 1 .. 255
    /\ SliceSize \in 1 .. PieceLength /\ SliceSize + 9 <= 255
    /\ BitmapSize \in 1 .. 254
    /\ MaxMessages \in Nat

VARIABLES
    stream,   \* bytes sent and not yet read
    state,    \* m_state
    cmd,      \* m_cmd
    ints,     \* m_int, as far as read
    open,     \* ~CloseAndDelete()
    recover,  \* bRecoverFromError of the reading client
    sent,     \* history: messages sent
    got       \* history: messages handled by the cmd... functions

vars == <<stream, state, cmd, ints, open, recover, sent, got>>

Byte == 0 .. 255

-----------------------------------------------------------------------------
(* The sending side.  A message is a tuple: its name, then its arguments.  *)

Htonl(n) == <<0, 0, 0, n>>

Repeat(byte, n) == [k \in 1 .. n |-> byte]

PayloadByte == 170
BitmapByte  == 128

SendInterest(interested) == Htonl(1) \o <<IF interested THEN 2 ELSE 3>>

(* Send("\00") constructs a string that ends before its first character:   *)
(* for a choke the length is sent and no command byte follows.             *)
SendChoke(choke) == Htonl(1) \o (IF choke THEN <<>> ELSE <<1>>)

SendHave(i) == Htonl(5) \o <<4>> \o Htonl(i)

SendBitmap == Htonl(BitmapSize + 1) \o <<5>> \o Repeat(BitmapByte, BitmapSize)

SendRequest(i, offset, length) ==
    Htonl(13) \o <<6>> \o Htonl(i) \o Htonl(offset) \o Htonl(length)

SendSlice(i, offset, length) ==
    Htonl(length + 9) \o <<7>> \o Htonl(i) \o Htonl(offset)
        \o Repeat(PayloadByte, length)

SendCancel(i, offset, length) ==
    Htonl(13) \o <<8>> \o Htonl(i) \o Htonl(offset) \o Htonl(length)

Encode(m) ==
    CASE m[1] = "choke"         -> SendChoke(TRUE)
      [] m[1] = "unchoke"       -> SendChoke(FALSE)
      [] m[1] = "interested"    -> SendInterest(TRUE)
      [] m[1] = "notinterested" -> SendInterest(FALSE)
      [] m[1] = "have"          -> SendHave(m[2])
      [] m[1] = "bitfield"      -> SendBitmap
      [] m[1] = "request"       -> SendRequest(m[2], m[3], m[4])
      [] m[1] = "piece"         -> SendSlice(m[2], m[3], m[4])
      [] m[1] = "cancel"        -> SendCancel(m[2], m[3], m[4])

-----------------------------------------------------------------------------
Init ==
    /\ stream = <<>> /\ state = "COMMAND" /\ cmd = 0 /\ ints = <<>>
    /\ open = TRUE /\ recover = FALSE
    /\ sent = <<>> /\ got = <<>>

Send(m) ==
    /\ open /\ Len(sent) < MaxMessages
    /\ stream' = stream \o Encode(m)
    /\ sent' = Append(sent, m)
    /\ UNCHANGED <<state, cmd, ints, open, recover, got>>

-----------------------------------------------------------------------------
(* OnRead, one field at a time.                                            *)

Take(n) == SubSeq(stream, 1, n)
Drop(n) == SubSeq(stream, n + 1, Len(stream))
Ntohl(b) == ((b[1] * 256 + b[2]) * 256 + b[3]) * 256 + b[4]

Handle(m) == got' = Append(got, m)
Close == open' = FALSE

ReadLength ==
    /\ open /\ state = "COMMAND" /\ Len(stream) >= 4
    /\ stream' = Drop(4)
    /\ state' = IF Ntohl(Take(4)) > 0 THEN "COMMAND2" ELSE "COMMAND"
    /\ UNCHANGED <<cmd, ints, open, recover, sent, got>>

(* Mutant of Plain: interested and not interested swapped.                 *)
PlainSwapped == <<"choke", "unchoke", "notinterested", "interested">>

Plain == <<"choke", "unchoke", "interested", "notinterested">>

(* Mutant of Integers4: a cancel carries one integer more.                 *)
Integers4More(c) == CASE c = 4 -> 1 [] c = 6 -> 3 [] c = 7 -> 2 [] c = 8 -> 4

(* The number of integers that follow a command.                           *)
Integers4(c) == CASE c = 4 -> 1 [] c = 6 -> 3 [] c = 7 -> 2 [] c = 8 -> 3

ReadCommand ==
    /\ open /\ state = "COMMAND2" /\ Len(stream) >= 1
    /\ stream' = Drop(1)
    /\ cmd' = stream[1]
    /\ ints' = <<>>
    /\ CASE stream[1] \in 0 .. 3 ->
              /\ Handle(<<Plain[stream[1] + 1]>>)
              /\ state' = "COMMAND"
              /\ UNCHANGED <<open, recover>>
         [] stream[1] \in {4, 6, 7, 8} ->
              state' = "GET_INTEGERS" /\ UNCHANGED <<open, recover, got>>
         [] stream[1] = 5 ->
              state' = "GET_BITMAP" /\ UNCHANGED <<open, recover, got>>
         [] OTHER ->
              /\ state' = "GET_COMMAND"
              /\ recover' = TRUE /\ Close
              /\ UNCHANGED got
    /\ UNCHANGED sent

(* Mutant of InRange: the last slice of a piece is out of range.           *)
InRangeStrict(i, offset, length) ==
    /\ i < NumberOfPieces /\ offset < PieceLength
    /\ length < 131072 /\ length > 0
    /\ offset + length < PieceLength

(* The ranges a request and a cancel must keep.                            *)
InRange(i, offset, length) ==
    /\ i < NumberOfPieces /\ offset < PieceLength
    /\ length < 131072 /\ length > 0
    /\ offset + length <= PieceLength

Complete(n) ==
    CASE cmd = 4 ->
           /\ IF n[1] < NumberOfPieces
              THEN Handle(<<"have", n[1]>>) /\ state' = "COMMAND"
                   /\ UNCHANGED open
              ELSE Close /\ UNCHANGED <<state, got>>
           /\ UNCHANGED recover
      [] cmd = 6 ->
           /\ IF InRange(n[1], n[2], n[3])
              THEN Handle(<<"request", n[1], n[2], n[3]>>)
                   /\ state' = "COMMAND" /\ UNCHANGED open
              ELSE Close /\ UNCHANGED <<state, got>>
           /\ UNCHANGED recover
      [] cmd = 7 -> state' = "GET_PIECE" /\ UNCHANGED <<open, recover, got>>
      [] cmd = 8 ->
           IF InRange(n[1], n[2], n[3])
           THEN Handle(<<"cancel", n[1], n[2], n[3]>>)
                /\ state' = "COMMAND" /\ UNCHANGED <<open, recover>>
           ELSE Close /\ recover' = TRUE /\ UNCHANGED <<state, got>>

ReadInteger ==
    LET n == Append(ints, Ntohl(Take(4))) IN
    /\ open /\ state = "GET_INTEGERS" /\ Len(stream) >= 4
    /\ stream' = Drop(4)
    /\ ints' = n
    /\ IF Len(n) < Integers4(cmd)
       THEN UNCHANGED <<state, open, recover, got>>
       ELSE Complete(n)
    /\ UNCHANGED <<cmd, sent>>

ReadBitmap ==
    /\ open /\ state = "GET_BITMAP" /\ Len(stream) >= BitmapSize
    /\ stream' = Drop(BitmapSize)
    /\ Handle(<<"bitfield">>)
    /\ state' = "COMMAND"
    /\ UNCHANGED <<cmd, ints, open, recover, sent>>

(* Whatever length the header announced, SliceSize bytes are taken.        *)
ReadSlice ==
    /\ open /\ state = "GET_PIECE" /\ Len(stream) >= SliceSize
    /\ stream' = Drop(SliceSize)
    /\ IF ints[1] < NumberOfPieces /\ ints[2] < PieceLength
       THEN Handle(<<"piece", ints[1], ints[2], SliceSize>>)
            /\ state' = "COMMAND" /\ UNCHANGED open
       ELSE Close /\ UNCHANGED <<state, got>>
    /\ UNCHANGED <<cmd, ints, recover, sent>>

OnRead == ReadLength \/ ReadCommand \/ ReadInteger \/ ReadBitmap \/ ReadSlice

Next == (\E m \in Messages : Send(m)) \/ OnRead

(* The main loop reads a socket as long as it has bytes.                   *)
Spec == Init /\ [][Next]_vars /\ WF_vars(OnRead)

-----------------------------------------------------------------------------
TypeOK ==
    /\ stream \in Seq(Byte)
    /\ state \in {"COMMAND", "COMMAND2", "GET_INTEGERS", "GET_BITMAP",
                  "GET_PIECE", "GET_COMMAND"}
    /\ cmd \in Byte
    /\ ints \in Seq(Nat) /\ Len(ints) <= 3
    /\ open \in BOOLEAN /\ recover \in BOOLEAN
    /\ sent \in Seq(Messages)
    /\ Len(sent) <= MaxMessages

(* InOrder.  The reader handles exactly the messages that were sent, in    *)
(* the order they were sent, with the arguments they were sent with:       *)
(* pSocket.cpp:425-433 is the table of commands both ends go by.           *)
InOrder == IsPrefix(got, sent)

(* AllArrive.  Nothing that was sent gets stuck in the parser, and the     *)
(* reader never takes a well-formed stream for a broken one.               *)
AllArrive == <>[](got = sent /\ open /\ ~recover)
=============================================================================
