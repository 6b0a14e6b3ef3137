---------------------------- MODULE Wire_proofs ----------------------------
(***************************************************************************)
(* The framing of the connection, for every sequence of messages of a      *)
(* client that never chokes and sends whole slices: the reader is always   *)
(* inside the message that comes next, where its state says, and the bytes *)
(* still to be read are the rest of it and the messages after it.          *)
(***************************************************************************)
EXTENDS Wire, SequenceTheorems, TLAPS

(* What such a client sends: SendRequest, SendCancel and SendSlice are     *)
(* called for slices inside a piece (SendChoke(TRUE) is what is left out). *)
Proper ==
    {<<"unchoke">>, <<"interested">>, <<"notinterested">>, <<"bitfield">>}
    \cup {<<"have", i>> : i \in 0 .. NumberOfPieces - 1}
    \cup {<<"request", r[1], r[2], r[3]>> : r \in
             {x \in Nat \X Nat \X Nat : InRange(x[1], x[2], x[3])}}
    \cup {<<"cancel", r[1], r[2], r[3]>> : r \in
             {x \in Nat \X Nat \X Nat : InRange(x[1], x[2], x[3])}}
    \cup {<<"piece", r[1], r[2], SliceSize>> : r \in
             (0 .. NumberOfPieces - 1) \X (0 .. PieceLength - 1)}

-----------------------------------------------------------------------------
(* The bytes of a message.                                                 *)

\* An integer is three zero bytes and its value.
LEMMA HtonlBytes ==
    ASSUME NEW n \in Byte
    PROVE  /\ Htonl(n) \in Seq(Byte) /\ Len(Htonl(n)) = 4
           /\ Htonl(n)[1] = 0 /\ Htonl(n)[2] = 0 /\ Htonl(n)[3] = 0
           /\ Htonl(n)[4] = n
  BY DEF Htonl, Byte

\* e is s with more behind it, n bytes of it.
Longer(e, s, n) ==
    /\ e \in Seq(Byte) /\ Len(e) = Len(s) + n
    /\ \A x \in 1 .. Len(s) : e[x] = s[x]

\* The integer n stands behind the first k bytes of e.
Stands(n, e, k) ==
    e[k + 1] = 0 /\ e[k + 2] = 0 /\ e[k + 3] = 0 /\ e[k + 4] = n

\* Bytes after what has been written.
LEMMA Joined ==
    ASSUME NEW s \in Seq(Byte), NEW t \in Seq(Byte)
    PROVE  /\ Longer(s \o t, s, Len(t))
           /\ \A x \in 1 .. Len(t) : (s \o t)[Len(s) + x] = t[x]
<1>1. PICK l \in Nat, m \in Nat : l = Len(s) /\ m = Len(t)
  BY LenProperties
<1>2. /\ s \o t \in Seq(Byte) /\ Len(s \o t) = l + m
      /\ \A x \in 1 .. l + m :
            (s \o t)[x] = IF x <= l THEN s[x] ELSE t[x - l]
  BY <1>1, ConcatProperties
<1>3. ASSUME NEW x \in 1 .. l PROVE (s \o t)[x] = s[x]
  <2>1. x \in 1 .. l + m /\ x <= l
    OBVIOUS
  <2> QED BY <2>1, <1>2
<1>4. ASSUME NEW x \in 1 .. m PROVE (s \o t)[l + x] = t[x]
  <2>1. l + x \in 1 .. l + m /\ ~(l + x <= l) /\ (l + x) - l = x
    OBVIOUS
  <2> QED BY <2>1, <1>2
<1> QED BY <1>1, <1>2, <1>3, <1>4 DEF Longer

\* A command byte after the length.
LEMMA Header ==
    ASSUME NEW n \in Byte, NEW c \in Byte
    PROVE  LET e == Htonl(n) \o <<c>> IN
           /\ e \in Seq(Byte) /\ Len(e) = 5 /\ Stands(n, e, 0) /\ e[5] = c
<1>1. PICK s \in Seq(Byte) : s = <<c>> /\ Len(s) = 1 /\ s[1] = c
  <2>1. <<c>> \in Seq(Byte) /\ Len(<<c>>) = 1 /\ <<c>>[1] = c
    OBVIOUS
  <2> QED BY <2>1, Zenon
<1>2. PICK h \in Seq(Byte) : h = Htonl(n) /\ Len(h) = 4 /\ Stands(n, h, 0)
  BY HtonlBytes DEF Stands
<1>3. PICK e : e = h \o s
  OBVIOUS
<1>4. Longer(e, h, Len(s)) /\ \A x \in 1 .. Len(s) : e[Len(h) + x] = s[x]
  BY <1>3, Joined
<1>5. e \in Seq(Byte) /\ Len(e) = 5 /\ e[5] = c
  <2>1. 1 \in 1 .. Len(s) /\ Len(h) + 1 = 5 /\ Len(h) + Len(s) = 5
    BY <1>1, <1>2
  <2> QED BY <2>1, <1>1, <1>4 DEF Longer
<1>6. Stands(n, e, 0)
  BY <1>2, <1>4 DEF Longer, Stands
<1> QED BY <1>1, <1>2, <1>3, <1>5, <1>6

\* An integer after what has been written.
LEMMA Field ==
    ASSUME NEW s \in Seq(Byte), NEW n \in Byte
    PROVE  /\ Longer(s \o Htonl(n), s, 4)
           /\ Stands(n, s \o Htonl(n), Len(s))
<1>1. PICK h \in Seq(Byte) : /\ h = Htonl(n) /\ Len(h) = 4
                             /\ h[1] = 0 /\ h[2] = 0 /\ h[3] = 0 /\ h[4] = n
  BY HtonlBytes
<1>2. Longer(s \o h, s, 4) /\ \A x \in 1 .. 4 : (s \o h)[Len(s) + x] = h[x]
  <2>1. /\ Longer(s \o h, s, Len(h))
        /\ \A x \in 1 .. Len(h) : (s \o h)[Len(s) + x] = h[x]
    BY Joined
  <2> QED BY <2>1, <1>1
<1>3. Stands(n, s \o h, Len(s))
  <2>1. 1 \in 1 .. 4 /\ 2 \in 1 .. 4 /\ 3 \in 1 .. 4 /\ 4 \in 1 .. 4
    OBVIOUS
  <2>2. /\ (s \o h)[Len(s) + 1] = h[1] /\ (s \o h)[Len(s) + 2] = h[2]
        /\ (s \o h)[Len(s) + 3] = h[3] /\ (s \o h)[Len(s) + 4] = h[4]
    BY <1>2, <2>1
  <2> QED BY <2>2, <1>1 DEF Stands
<1> QED BY <1>1, <1>2, <1>3

\* The bytes of a bitmap or of a slice after what has been written.
LEMMA Payload ==
    ASSUME NEW s \in Seq(Byte), NEW b \in Byte, NEW n \in Nat
    PROVE  Longer(s \o Repeat(b, n), s, n)
<1>1. PICK t \in Seq(Byte) : t = Repeat(b, n) /\ Len(t) = n
  <2>1. Repeat(b, n) \in Seq(Byte) /\ Len(Repeat(b, n)) = n
    BY DEF Repeat
  <2> QED BY <2>1
<1>2. Longer(s \o t, s, n)
  BY <1>1, Joined
<1> QED BY <1>1, <1>2

\* A length, a command and one integer.
LEMMA OneField ==
    ASSUME NEW n \in Byte, NEW c \in Byte, NEW i \in Byte
    PROVE  LET e == Htonl(n) \o <<c>> \o Htonl(i) IN
           /\ e \in Seq(Byte) /\ Len(e) = 9
           /\ Stands(n, e, 0) /\ e[5] = c /\ Stands(i, e, 5)
<1> DEFINE h == Htonl(n) \o <<c>>
           e == h \o Htonl(i)
<1>1. h \in Seq(Byte) /\ Len(h) = 5 /\ Stands(n, h, 0) /\ h[5] = c
  BY Header
<1> HIDE DEF h
<1>2. Longer(e, h, 4) /\ e \in Seq(Byte) /\ Stands(i, e, Len(h))
  BY <1>1, Field DEF Longer
<1> HIDE DEF e
<1>3. Stands(n, e, 0)
  BY <1>1, <1>2 DEF Longer, Stands
<1> QED BY <1>1, <1>2, <1>3 DEF Longer, h, e

TwoInts(n, c, i, o) == Htonl(n) \o <<c>> \o Htonl(i) \o Htonl(o)
ThreeInts(n, c, i, o, l) == TwoInts(n, c, i, o) \o Htonl(l)

\* A length, a command and two integers.
LEMMA TwoFields ==
    ASSUME NEW n \in Byte, NEW c \in Byte, NEW i \in Byte, NEW o \in Byte
    PROVE  LET e == TwoInts(n, c, i, o) IN
           /\ e \in Seq(Byte) /\ Len(e) = 13
           /\ Stands(n, e, 0) /\ e[5] = c /\ Stands(i, e, 5) /\ Stands(o, e, 9)
<1> DEFINE h == Htonl(n) \o <<c>> \o Htonl(i)
           e == h \o Htonl(o)
<1>1. /\ h \in Seq(Byte) /\ Len(h) = 9
      /\ Stands(n, h, 0) /\ h[5] = c /\ Stands(i, h, 5)
  BY OneField
<1> HIDE DEF h
<1>2. Longer(e, h, 4) /\ e \in Seq(Byte) /\ Stands(o, e, Len(h))
  BY <1>1, Field DEF Longer
<1> HIDE DEF e
<1>3. Stands(n, e, 0) /\ Stands(i, e, 5)
  BY <1>1, <1>2 DEF Longer, Stands
<1> QED BY <1>1, <1>2, <1>3 DEF Longer, h, e, TwoInts

\* A length, a command and three integers.
LEMMA ThreeFields ==
    ASSUME NEW n \in Byte, NEW c \in Byte, NEW i \in Byte, NEW o \in Byte,
           NEW l \in Byte
    PROVE  LET e == ThreeInts(n, c, i, o, l) IN
           /\ e \in Seq(Byte) /\ Len(e) = 17
           /\ Stands(n, e, 0) /\ e[5] = c
           /\ Stands(i, e, 5) /\ Stands(o, e, 9) /\ Stands(l, e, 13)
<1> DEFINE h == TwoInts(n, c, i, o)
           e == h \o Htonl(l)
<1>1. /\ h \in Seq(Byte) /\ Len(h) = 13
      /\ Stands(n, h, 0) /\ h[5] = c /\ Stands(i, h, 5) /\ Stands(o, h, 9)
  BY TwoFields
<1> HIDE DEF h
<1>2. Longer(e, h, 4) /\ e \in Seq(Byte) /\ Stands(l, e, Len(h))
  BY <1>1, Field DEF Longer
<1> HIDE DEF e
<1>3. Stands(n, e, 0) /\ Stands(i, e, 5) /\ Stands(o, e, 9)
  BY <1>1, <1>2 DEF Longer, Stands
<1> QED BY <1>1, <1>2, <1>3 DEF Longer, h, e, ThreeInts

\* What the reader goes by: a length that is not zero, the command byte, and
\* what belongs to the command.
PlainShape(m, e) ==
    e[5] \in {1, 2, 3} /\ Len(e) = 5 /\ m = <<Plain[e[5] + 1]>>

HaveShape(m, e) ==
    /\ e[5] = 4 /\ Len(e) = 9
    /\ \E i \in Byte :
          m = <<"have", i>> /\ Stands(i, e, 5) /\ i < NumberOfPieces

BitmapShape(m, e) == e[5] = 5 /\ Len(e) = 5 + BitmapSize /\ m = <<"bitfield">>

SliceShape(m, e) ==
    /\ e[5] = 7 /\ Len(e) = 13 + SliceSize
    /\ \E i \in Byte, o \in Byte :
          /\ m = <<"piece", i, o, SliceSize>>
          /\ Stands(i, e, 5) /\ Stands(o, e, 9)
          /\ i < NumberOfPieces /\ o < PieceLength

RangeShape(m, e) ==
    /\ e[5] \in {6, 8} /\ Len(e) = 17
    /\ \E i \in Byte, o \in Byte, l \in Byte :
          /\ m = <<IF e[5] = 6 THEN "request" ELSE "cancel", i, o, l>>
          /\ Stands(i, e, 5) /\ Stands(o, e, 9) /\ Stands(l, e, 13)
          /\ InRange(i, o, l)

Shape(m, e) ==
    /\ e \in Seq(Byte) /\ Len(e) >= 5 /\ e[4] \in 1 .. 255 /\ Stands(e[4], e, 0)
    /\ \/ PlainShape(m, e) \/ HaveShape(m, e) \/ BitmapShape(m, e)
       \/ SliceShape(m, e) \/ RangeShape(m, e)

\* A positive length at the front.
LEMMA LengthFirst ==
    ASSUME NEW e \in Seq(Byte), NEW n \in Byte, n > 0, Stands(n, e, 0)
    PROVE  e[4] \in 1 .. 255 /\ Stands(e[4], e, 0)
<1>1. e[4] = n BY DEF Stands
<1> QED BY <1>1 DEF Byte

\* The numbers a request or a cancel carries are bytes here.
LEMMA SmallRange ==
    ASSUME NEW r \in {x \in Nat \X Nat \X Nat : InRange(x[1], x[2], x[3])}
    PROVE  /\ r[1] \in Byte /\ r[2] \in Byte /\ r[3] \in Byte
           /\ InRange(r[1], r[2], r[3])
<1>1. PICK i \in Nat, o \in Nat, l \in Nat :
         r[1] = i /\ r[2] = o /\ r[3] = l /\ InRange(i, o, l)
  OBVIOUS
<1>2. i < NumberOfPieces /\ o < PieceLength /\ o + l <= PieceLength
  BY <1>1 DEF InRange
<1>3. /\ NumberOfPieces \in Nat /\ NumberOfPieces <= 255
      /\ PieceLength \in Nat /\ PieceLength <= 255
  BY WireAssumption
<1>4. i \in 0 .. 255 /\ o \in 0 .. 255 /\ l \in 0 .. 255
  BY <1>2, <1>3
<1> QED BY <1>1, <1>4 DEF Byte

\* Every proper message has the shape that the reader goes by.
LEMMA ProperShape ==
    ASSUME NEW m \in Proper
    PROVE  Shape(m, Encode(m))
<1> DEFINE e == Encode(m)
<1>0. /\ 1 \in Byte /\ 2 \in Byte /\ 3 \in Byte /\ 4 \in Byte /\ 5 \in Byte
      /\ 6 \in Byte /\ 7 \in Byte /\ 8 \in Byte /\ 13 \in Byte
      /\ SliceSize + 9 \in Byte /\ BitmapSize + 1 \in Byte
      /\ PayloadByte \in Byte /\ BitmapByte \in Byte
      /\ SliceSize \in Nat /\ BitmapSize \in Nat
  BY WireAssumption DEF Byte, PayloadByte, BitmapByte
<1>1. ASSUME NEW c \in {1, 2, 3}, m = <<Plain[c + 1]>> PROVE Shape(m, e)
  <2>1. e = Htonl(1) \o <<c>>
    <3>1. CASE c = 1
      <4>1. m[1] = "unchoke" BY <1>1, <3>1 DEF Plain
      <4> QED BY <3>1, <4>1 DEF Encode, SendChoke
    <3>2. CASE c = 2
      <4>1. m[1] = "interested" BY <1>1, <3>2 DEF Plain
      <4> QED BY <3>2, <4>1 DEF Encode, SendInterest
    <3>3. CASE c = 3
      <4>1. m[1] = "notinterested" BY <1>1, <3>3 DEF Plain
      <4> QED BY <3>3, <4>1 DEF Encode, SendInterest
    <3> QED BY <3>1, <3>2, <3>3
  <2> HIDE DEF e
  <2>5. 1 \in Byte /\ c \in Byte BY <1>0
  <2>6. LET h == Htonl(1) \o <<c>> IN
        h \in Seq(Byte) /\ Len(h) = 5 /\ Stands(1, h, 0) /\ h[5] = c
    BY <2>5, Header
  <2>2. e \in Seq(Byte) /\ Len(e) = 5 /\ Stands(1, e, 0) /\ e[5] = c
    BY <2>1, <2>6
  <2>3. PlainShape(m, e) BY <1>1, <2>2 DEF PlainShape
  <2>4. 1 \in Byte /\ 1 > 0 BY <1>0
  <2> QED BY <2>2, <2>3, <2>4, LengthFirst DEF Shape, e
<1>2. CASE m = <<"bitfield">>
  <2> DEFINE h == Htonl(BitmapSize + 1) \o <<5>>
  <2>1. e = h \o Repeat(BitmapByte, BitmapSize)
    BY <1>2 DEF Encode, SendBitmap
  <2> HIDE DEF e
  <2>2. h \in Seq(Byte) /\ Len(h) = 5 /\ Stands(BitmapSize + 1, h, 0) /\ h[5] = 5
    BY <1>0, Header
  <2> HIDE DEF h
  <2>3. Longer(e, h, BitmapSize)
    BY <2>1, <2>2, <1>0, Payload
  <2>4. Stands(BitmapSize + 1, e, 0)
    BY <2>2, <2>3 DEF Longer, Stands
  <2>5. e \in Seq(Byte) /\ Len(e) = 5 + BitmapSize /\ e[5] = 5
    BY <2>2, <2>3 DEF Longer
  <2>6. BitmapShape(m, e) BY <1>2, <2>5 DEF BitmapShape
  <2>7. BitmapSize + 1 > 0 /\ Len(e) >= 5 BY <1>0, <2>5
  <2> QED BY <1>0, <2>4, <2>5, <2>6, <2>7, LengthFirst DEF Shape, e
<1>3. ASSUME NEW i \in 0 .. NumberOfPieces - 1, m = <<"have", i>>
      PROVE  Shape(m, e)
  <2>1. e = Htonl(5) \o <<4>> \o Htonl(i)
    BY <1>3 DEF Encode, SendHave
  <2> HIDE DEF e
  <2>2. 5 \in Byte /\ 4 \in Byte /\ i \in Byte /\ i < NumberOfPieces
    BY WireAssumption DEF Byte
  <2>3. /\ e \in Seq(Byte) /\ Len(e) = 9
        /\ Stands(5, e, 0) /\ e[5] = 4 /\ Stands(i, e, 5)
    BY <2>1, <2>2, OneField
  <2>4. HaveShape(m, e) BY <1>3, <2>2, <2>3 DEF HaveShape
  <2> QED BY <2>2, <2>3, <2>4, LengthFirst DEF Shape, e
<1>4. ASSUME NEW i \in Byte, NEW o \in Byte, NEW l \in Byte, InRange(i, o, l),
             NEW c \in Byte, c = 6 \/ c = 8,
             m = <<IF c = 6 THEN "request" ELSE "cancel", i, o, l>>
      PROVE  Shape(m, e)
  <2> DEFINE n == 13
  <2>1. e = ThreeInts(n, c, i, o, l)
    BY <1>4 DEF Encode, SendRequest, SendCancel, ThreeInts, TwoInts
  <2> HIDE DEF e
  <2>2. n \in Byte /\ n > 0 BY DEF Byte
  <2> HIDE DEF n
  <2>3. LET t == ThreeInts(n, c, i, o, l) IN
        /\ t \in Seq(Byte) /\ Len(t) = 17 /\ Stands(n, t, 0) /\ t[5] = c
        /\ Stands(i, t, 5) /\ Stands(o, t, 9) /\ Stands(l, t, 13)
    BY <2>2, ThreeFields
  <2>4. RangeShape(m, e) BY <1>4, <2>1, <2>3 DEF RangeShape
  <2> QED BY <2>1, <2>2, <2>3, <2>4, LengthFirst DEF Shape, e
<1>5. ASSUME NEW i \in 0 .. NumberOfPieces - 1, NEW o \in 0 .. PieceLength - 1,
             m = <<"piece", i, o, SliceSize>>
      PROVE  Shape(m, e)
  <2> DEFINE n == SliceSize + 9
             h == TwoInts(n, 7, i, o)
  <2>1. e = h \o Repeat(PayloadByte, SliceSize)
    BY <1>5 DEF Encode, SendSlice, TwoInts
  <2> HIDE DEF e
  <2>2. /\ i \in Byte /\ o \in Byte /\ i < NumberOfPieces /\ o < PieceLength
        /\ 7 \in Byte /\ n \in Byte /\ n > 0
    BY WireAssumption DEF Byte
  <2> HIDE DEF n
  <2>3. /\ h \in Seq(Byte) /\ Len(h) = 13 /\ Stands(n, h, 0)
        /\ h[5] = 7 /\ Stands(i, h, 5) /\ Stands(o, h, 9)
    BY <2>2, TwoFields
  <2> HIDE DEF h
  <2>4. Longer(e, h, SliceSize)
    BY <2>1, <2>3, <1>0, Payload
  <2>5. Stands(n, e, 0) /\ Stands(i, e, 5) /\ Stands(o, e, 9)
    BY <2>3, <2>4 DEF Longer, Stands
  <2>6. e \in Seq(Byte) /\ Len(e) = 13 + SliceSize /\ e[5] = 7
    BY <2>3, <2>4 DEF Longer
  <2>7. SliceShape(m, e) BY <1>5, <2>2, <2>5, <2>6 DEF SliceShape
  <2>8. Len(e) >= 5 BY <2>6, <1>0
  <2> QED BY <2>2, <2>5, <2>6, <2>7, <2>8, LengthFirst DEF Shape, e
<1>6. CASE m \in {<<"unchoke">>, <<"interested">>, <<"notinterested">>}
  <2>1. \E c \in {1, 2, 3} : m = <<Plain[c + 1]>>
    BY <1>6 DEF Plain
  <2> QED BY <2>1, <1>1
<1>7. ASSUME NEW r \in {x \in Nat \X Nat \X Nat : InRange(x[1], x[2], x[3])},
             NEW c \in {6, 8},
             m = <<IF c = 6 THEN "request" ELSE "cancel", r[1], r[2], r[3]>>
      PROVE  Shape(m, e)
  <2> HIDE DEF e
  <2>1. c \in Byte /\ (c = 6 \/ c = 8) BY DEF Byte
  <2> QED BY <2>1, <1>4, <1>7, SmallRange
<1> QED
  BY <1>2, <1>3, <1>5, <1>6, <1>7 DEF Proper

-----------------------------------------------------------------------------
(* The invariant.  The next message to be handled is the one that is being *)
(* read; Consumed is how many of its bytes are off the stream.             *)

Next1 == Len(got) + 1
Current == sent[Next1]

Consumed ==
    IF state = "COMMAND" THEN 0
    ELSE IF state = "COMMAND2" THEN 4
    ELSE IF state = "GET_INTEGERS" THEN 5 + 4 * Len(ints)
    ELSE IF state = "GET_BITMAP" THEN 5
    ELSE 13

\* at[j] is how far into the stream message j ends, less than nothing where
\* the end, or the start of the next message, has been read.
Frames(at) ==
    /\ at[Len(got)] = 0 - Consumed
    /\ at[Len(sent)] = Len(stream)
    /\ \A j \in Len(got) .. Len(sent) : at[j] <= Len(stream)
    /\ \A j \in Next1 .. Len(sent) :
          /\ at[j] = at[j - 1] + Len(Encode(sent[j]))
          /\ \A x \in 1 .. Len(Encode(sent[j])) :
                at[j - 1] + x >= 1
                   => stream[at[j - 1] + x] = Encode(sent[j])[x]

Framed == \E at \in [Nat -> Int] : Frames(at)

\* What the reader has read of the message is what was written into it.
IntsRead(m) == \A x \in 1 .. Len(ints) : ints[x] = m[x + 1]

Inside(m) ==
    /\ state = "GET_INTEGERS" =>
          /\ cmd = Encode(m)[5] /\ cmd \in {4, 6, 7, 8}
          /\ Len(ints) < Integers4(cmd) /\ IntsRead(m)
    /\ state = "GET_BITMAP" => Encode(m)[5] = 5
    /\ state = "GET_PIECE" =>
          Encode(m)[5] = 7 /\ Len(ints) = 2 /\ IntsRead(m)

States == {"COMMAND", "COMMAND2", "GET_INTEGERS", "GET_BITMAP", "GET_PIECE"}

Answered == 
    /\ got \in Seq(Messages) /\ Len(got) <= Len(sent)
    /\ \A j \in 1 .. Len(got) : got[j] = sent[j]

WInv ==
    /\ TypeOK /\ Answered /\ Framed
    /\ open /\ ~recover /\ state \in States
    /\ state # "COMMAND" => Len(got) < Len(sent) /\ Inside(Current)

-----------------------------------------------------------------------------
\* The message that is being read is a proper one.
LEMMA CurrentShape ==
    ASSUME Messages \subseteq Proper, WInv, Len(got) < Len(sent)
    PROVE  /\ Current \in Proper /\ Current \in Messages
           /\ Shape(Current, Encode(Current))
<1>1. Next1 \in 1 .. Len(sent)
  BY LenProperties DEF WInv, TypeOK, Answered, Next1
<1>2. Current \in Messages
  BY <1>1, ElementOfSeq DEF WInv, TypeOK, Current
<1> QED BY <1>2, ProperShape

\* Lengths are numbers.
LEMMA Lengths ==
    ASSUME WInv
    PROVE  /\ Len(got) \in Nat /\ Len(sent) \in Nat /\ Len(stream) \in Nat
           /\ Len(ints) \in Nat /\ Consumed \in Nat /\ Next1 \in Nat
<1>1. /\ Len(got) \in Nat /\ Len(sent) \in Nat /\ Len(stream) \in Nat
      /\ Len(ints) \in Nat
  BY LenProperties DEF WInv, TypeOK, Answered
<1> QED BY <1>1 DEF Consumed, Next1

\* Bytes on the stream belong to a message that is still to be handled.
LEMMA Started ==
    ASSUME WInv, Len(stream) > 0
    PROVE  Len(got) < Len(sent)
<1>1. CASE state = "COMMAND"
  <2>1. PICK at \in [Nat -> Int] : Frames(at) BY DEF WInv, Framed
  <2>2. at[Len(got)] = 0
    <3>1. Consumed = 0 BY <1>1 DEF Consumed
    <3> QED BY <2>1, <3>1 DEF Frames
  <2>3. at[Len(sent)] = Len(stream) BY <2>1 DEF Frames
  <2>4. Len(got) # Len(sent) BY <2>2, <2>3
  <2> QED BY <2>4, Lengths DEF WInv, Answered
<1> QED BY <1>1 DEF WInv

\* The first bytes of the stream are those of the message that come next.
LEMMA Rest ==
    ASSUME WInv, Len(got) < Len(sent), NEW n \in Nat,
           Encode(Current) \in Seq(Byte), Consumed + n <= Len(Encode(Current))
    PROVE  \A x \in 1 .. n : stream[x] = Encode(Current)[Consumed + x]
<1> DEFINE e == Encode(sent[Next1])
<1>1. PICK at \in [Nat -> Int] : Frames(at) BY DEF WInv, Framed
<1>2. Next1 \in Next1 .. Len(sent) /\ Next1 - 1 = Len(got)
  BY Lengths DEF Next1
<1>3. at[Len(got)] = 0 - Consumed BY <1>1 DEF Frames
<1>4. \A x \in 1 .. Len(e) :
         at[Len(got)] + x >= 1 => stream[at[Len(got)] + x] = e[x]
  BY <1>1, <1>2 DEF Frames
<1>5. Len(e) \in Nat /\ Consumed + n <= Len(e)
  BY LenProperties DEF Current
<1> HIDE DEF e
<1>6. Consumed \in Nat BY Lengths
<1>7. ASSUME NEW x \in 1 .. n PROVE stream[x] = e[Consumed + x]
  <2>1. Consumed + x \in 1 .. Len(e) BY <1>5, <1>6
  <2>2. at[Len(got)] + (Consumed + x) = x BY <1>3, <1>6
  <2>3. at[Len(got)] + (Consumed + x) >= 1 BY <2>2
  <2>4. stream[at[Len(got)] + (Consumed + x)] = e[Consumed + x]
    BY <2>1, <2>3, <1>4
  <2> QED BY <2>2, <2>4
<1> QED BY <1>7 DEF e, Current

\* The integer that stands at the front of the stream is read as it is.
LEMMA TakeInteger ==
    ASSUME NEW v \in Byte, stream \in Seq(Byte), Len(stream) >= 4,
           stream[1] = 0, stream[2] = 0, stream[3] = 0, stream[4] = v
    PROVE  Ntohl(Take(4)) = v
<1>1. Len(stream) \in Nat BY LenProperties
<1>2. 4 \in 0 .. Len(stream) BY <1>1
<1>3. \A x \in 1 .. 4 : Take(4)[x] = stream[x]
  <2>1. \A x \in 1 .. 4 - 1 + 1 : SubSeq(stream, 1, 4)[x] = stream[1 + x - 1]
    BY <1>1, <1>2, SubSeqProperties
  <2> QED BY <2>1 DEF Take
<1>4. Take(4)[1] = 0 /\ Take(4)[2] = 0 /\ Take(4)[3] = 0 /\ Take(4)[4] = v
  BY <1>3
<1> QED BY <1>4 DEF Ntohl, Byte

\* Dropping bytes from the front of the stream.
LEMMA DropBytes ==
    ASSUME stream \in Seq(Byte), NEW n \in Nat, n <= Len(stream)
    PROVE  /\ Drop(n) \in Seq(Byte) /\ Len(Drop(n)) = Len(stream) - n
           /\ \A y \in 1 .. Len(stream) - n : Drop(n)[y] = stream[y + n]
<1>1. Len(stream) \in Nat BY LenProperties
<1>2. n + 1 \in 1 .. Len(stream) + 1 /\ Len(stream) \in n .. Len(stream)
  BY <1>1
<1> DEFINE d == SubSeq(stream, n + 1, Len(stream))
<1>3. /\ d \in Seq(Byte)
      /\ Len(d) = IF n + 1 <= Len(stream) THEN Len(stream) - (n + 1) + 1 ELSE 0
      /\ \A y \in 1 .. Len(stream) - (n + 1) + 1 : d[y] = stream[n + 1 + y - 1]
  BY <1>1, <1>2, SubSeqProperties
<1> HIDE DEF d
<1>4. Len(d) = Len(stream) - n BY <1>1, <1>3
<1>5. \A y \in 1 .. Len(stream) - n : d[y] = stream[y + n]
  BY <1>1, <1>3
<1> QED BY <1>3, <1>4, <1>5 DEF d, Drop

\* The messages sent are encoded by sequences of bytes.
LEMMA EncodeBytes ==
    ASSUME Messages \subseteq Proper, WInv, NEW j \in 1 .. Len(sent)
    PROVE  Encode(sent[j]) \in Seq(Byte) /\ Len(Encode(sent[j])) \in Nat
<1>1. sent[j] \in Proper
  BY ElementOfSeq DEF WInv, TypeOK
<1>2. Encode(sent[j]) \in Seq(Byte) BY <1>1, ProperShape DEF Shape
<1> QED BY <1>2, LenProperties

\* A step that reads n bytes, in the message or to its end.
Reads(n) ==
    /\ n <= Len(stream) /\ Len(got) < Len(sent)
    /\ stream' = Drop(n) /\ sent' = sent
    /\ Consumed' \in Nat /\ Len(got') \in Nat
    /\ \/ Len(got') = Len(got) /\ Consumed' = Consumed + n
       \/ /\ Len(got') = Next1 /\ Consumed' = 0
          /\ Consumed + n = Len(Encode(Current))

\* A message that is still to come, as a number.
LEMMA Behind ==
    ASSUME NEW g \in Nat, NEW s \in Nat, NEW a \in Nat, a >= g + 1,
           NEW j \in a .. s
    PROVE  /\ j \in g + 1 .. s /\ j \in Nat /\ j - 1 \in Nat
           /\ j \in g .. s /\ j \in 1 .. s
  OBVIOUS

\* Reading leaves the frames right.
LEMMA Advance ==
    ASSUME Messages \subseteq Proper, WInv, NEW n \in Nat, Reads(n)
    PROVE  Framed'
<1>1. PICK at \in [Nat -> Int] : Frames(at) BY DEF WInv, Framed
<1> DEFINE new == [k \in Nat |-> at[k] - n]
<1>2. new \in [Nat -> Int] OBVIOUS
<1>3. /\ Len(got) \in Nat /\ Len(sent) \in Nat /\ Len(stream) \in Nat
      /\ Consumed \in Nat /\ Next1 = Len(got) + 1
  BY Lengths DEF Next1
<1>d. Len(got) < Len(sent) /\ n <= Len(stream) BY DEF Reads
<1>4. Len(stream') = Len(stream) - n
  BY DropBytes DEF WInv, TypeOK, Reads
<1>b. \A y \in 1 .. Len(stream) - n : stream'[y] = stream[y + n]
  BY DropBytes DEF WInv, TypeOK, Reads
<1>7. /\ Len(got') \in Nat /\ Len(got') >= Len(got)
      /\ Next1' \in Nat /\ Next1' >= Next1
  BY <1>3 DEF Next1, Reads
<1>0. sent' = sent BY DEF Reads
<1>5. new[Len(got')] = 0 - Consumed'
  <2>1. at[Len(got)] = 0 - Consumed BY <1>1 DEF Frames
  <2>2. CASE Len(got') = Len(got) /\ Consumed' = Consumed + n
    BY <2>1, <2>2, <1>3
  <2>3. CASE Len(got') = Next1 /\ Consumed' = 0
             /\ Consumed + n = Len(Encode(Current))
    <3>1. Next1 \in Next1 .. Len(sent) /\ Next1 - 1 = Len(got) BY <1>3, <1>d
    <3>2. at[Next1] = at[Len(got)] + Len(Encode(Current))
      BY <3>1, <1>1 DEF Frames, Current
    <3>3. Next1 \in 1 .. Len(sent) BY <1>3, <1>d
    <3>4. Len(Encode(Current)) \in Nat BY <3>3, EncodeBytes DEF Current
    <3>5. new[Next1] = at[Next1] - n BY <1>3
    <3>6. Consumed + n = Len(Encode(Current)) BY <2>3
    <3>7. new[Next1] = 0
      <4> HIDE DEF new
      <4> QED BY <2>1, <3>2, <3>4, <3>5, <3>6, <1>3, SMTT(60)
    <3> QED BY <3>7, <2>3
  <2> QED BY <2>2, <2>3 DEF Reads
<1>6. new[Len(sent)] = Len(stream') BY <1>1, <1>3, <1>4, <1>d DEF Frames
<1>8. ASSUME NEW j \in Len(got') .. Len(sent)
      PROVE  new[j] <= Len(stream')
  <2>1. j \in Len(got) .. Len(sent) /\ j \in Nat BY <1>3, <1>7
  <2>2. at[j] <= Len(stream) BY <2>1, <1>1 DEF Frames
  <2>3. new[j] = at[j] - n /\ at[j] \in Int BY <2>1
  <2> HIDE DEF new
  <2>4. PICK x \in Int, s \in Nat : x = at[j] /\ s = Len(stream)
    BY <2>3, <1>3
  <2>5. new[j] = x - n /\ x <= s BY <2>2, <2>3, <2>4
  <2>6. Len(stream') = s - n BY <2>4, <1>4
  <2>7. x - n <= s - n BY <2>5
  <2> QED BY <2>5, <2>6, <2>7
<1>9. ASSUME NEW j \in Next1' .. Len(sent)
      PROVE  /\ new[j] = new[j - 1] + Len(Encode(sent[j]))
             /\ \A x \in 1 .. Len(Encode(sent[j])) :
                   new[j - 1] + x >= 1
                      => stream'[new[j - 1] + x] = Encode(sent[j])[x]
  <2> DEFINE e == Encode(sent[j])
  <2>1. /\ j \in Next1 .. Len(sent) /\ j \in Nat /\ j - 1 \in Nat
        /\ j \in Len(got) .. Len(sent) /\ j \in 1 .. Len(sent)
    <3>1. Next1' \in Nat /\ Next1' >= Len(got) + 1 BY <1>3, <1>7
    <3> QED BY <3>1, <1>3, Behind
  <2>2. at[j] = at[j - 1] + Len(e) /\ at[j] <= Len(stream)
    BY <2>1, <1>1 DEF Frames
  <2>b. \A x \in 1 .. Len(e) :
           at[j - 1] + x >= 1 => stream[at[j - 1] + x] = e[x]
    BY <2>1, <1>1 DEF Frames
  <2>0. Len(e) \in Nat BY <2>1, EncodeBytes
  <2> HIDE DEF e
  <2>3. at[j] \in Int /\ at[j - 1] \in Int /\ new[j] = at[j] - n
        /\ new[j - 1] = at[j - 1] - n
    BY <2>1
  <2> HIDE DEF new
  <2>4. new[j] = new[j - 1] + Len(e)
    BY <2>0, <2>2, <2>3
  <2>5. ASSUME NEW x \in 1 .. Len(e), new[j - 1] + x >= 1
        PROVE  stream'[new[j - 1] + x] = e[x]
    <3>1. PICK a \in Int, l \in Nat, s \in Nat :
             a = at[j - 1] /\ l = Len(e) /\ s = Len(stream)
      BY <2>0, <2>3, <1>3
    <3>2. new[j - 1] = a - n /\ a + l <= s /\ x \in 1 .. l
      BY <2>2, <2>3, <3>1
    <3>3. a - n + x >= 1 BY <2>5, <3>2
    <3>4. (a - n + x) + n = a + x /\ a + x >= 1 /\ a - n + x \in 1 .. s - n
      BY <3>2, <3>3
    <3>5. stream[a + x] = e[x] BY <2>b, <3>1, <3>2, <3>4
    <3>6. stream'[a - n + x] = stream[(a - n + x) + n] BY <1>b, <3>1, <3>4
    <3> QED BY <3>2, <3>4, <3>5, <3>6
  <2> QED BY <2>4, <2>5 DEF e
<1> HIDE DEF new
<1>10. Frames(new)' BY <1>5, <1>6, <1>8, <1>9, <1>0 DEF Frames
<1> QED BY <1>2, <1>10 DEF Framed

-----------------------------------------------------------------------------
(* The steps.                                                              *)

\* A message that is sent stands behind what is on the stream.
LEMMA SendFramed ==
    ASSUME Messages \subseteq Proper, WInv, NEW m \in Messages, Send(m)
    PROVE  Framed'
<1> DEFINE e == Encode(m)
           L == Len(sent)
<1>1. PICK at \in [Nat -> Int] : Frames(at) BY DEF WInv, Framed
<1>17. e \in Seq(Byte) BY ProperShape DEF Shape
<1>2. PICK E \in Nat : E = Len(e) BY <1>17, LenProperties
<1>3. stream' = stream \o e /\ sent' = Append(sent, m) BY DEF Send
<1> HIDE DEF e
<1>4. /\ L \in Nat /\ Len(got) \in Nat /\ Len(got) <= L
  BY Lengths DEF WInv, Answered
<1>19. PICK S \in Nat : S = Len(stream) BY Lengths
<1>18. stream \in Seq(Byte) /\ sent \in Seq(Messages) BY DEF WInv, TypeOK
<1>5. Len(stream') = S + E
  BY <1>2, <1>19, <1>3, <1>17, <1>18, ConcatProperties
<1>16. \A x \in 1 .. S + E :
          stream'[x] = IF x <= S THEN stream[x]
                       ELSE e[x - S]
  BY <1>2, <1>19, <1>3, <1>17, <1>18, ConcatProperties
<1>6. /\ Len(sent') = L + 1 /\ sent'[L + 1] = m
      /\ \A j \in 1 .. L : sent'[j] = sent[j]
  BY <1>3, <1>18, AppendProperties
<1>7. UNCHANGED <<got, state, ints>> BY DEF Send
<1>8. Consumed' = Consumed /\ Next1' = Next1 /\ Len(got') = Len(got)
  BY <1>7 DEF Consumed, Next1
<1> HIDE DEF L
<1>9. PICK new \in [Nat -> Int] :
         /\ new[L + 1] = S + E
         /\ \A k \in 0 .. L : new[k] = at[k]
  <2> DEFINE f == [at EXCEPT ![L + 1] = S + E]
  <2>1. /\ f \in [Nat -> Int] /\ f[L + 1] = S + E
        /\ \A k \in 0 .. L : f[k] = at[k]
    BY <1>2, <1>4
  <2> QED BY <2>1
<1>10. new[Len(got')] = 0 - Consumed'
  <2>1. Len(got) \in 0 .. L BY <1>4
  <2> QED BY <2>1, <1>1, <1>8, <1>9 DEF Frames
<1>11. new[Len(sent')] = Len(stream') BY <1>5, <1>6, <1>9
<1>12. ASSUME NEW j \in Len(got) .. L + 1 PROVE new[j] <= Len(stream')
  <2>1. CASE j = L + 1 BY <2>1, <1>2, <1>4, <1>5, <1>9
  <2>2. CASE j \in Len(got) .. L
    <3>1. at[j] <= S BY <2>2, <1>1, <1>19 DEF Frames, L
    <3>2. new[j] = at[j] /\ at[j] \in Int BY <2>2, <1>4, <1>9
    <3> QED BY <3>1, <3>2, <1>2, <1>4, <1>5, SMTT(60)
  <2> QED BY <2>1, <2>2, <1>4
<1>13. at[L] = S BY <1>1, <1>19 DEF Frames, L
<1>14. ASSUME NEW j \in Next1 .. L + 1
       PROVE  /\ new[j] = new[j - 1] + Len(Encode(sent'[j]))
              /\ \A x \in 1 .. Len(Encode(sent'[j])) :
                    new[j - 1] + x >= 1
                       => stream'[new[j - 1] + x] = Encode(sent'[j])[x]
  <2>1. CASE j = L + 1
    <3>1. Encode(sent'[j]) = e /\ Len(Encode(sent'[j])) = E
      BY <2>1, <1>2, <1>6 DEF e
    <3>2. new[j - 1] = S
      <4>1. j - 1 = L /\ L \in 0 .. L BY <2>1, <1>4
      <4> QED BY <4>1, <1>9, <1>13
    <3>3. ASSUME NEW x \in 1 .. E PROVE stream'[S + x] = e[x]
      <4>1. /\ S + x \in 1 .. S + E
            /\ ~(S + x <= S)
            /\ S + x - S = x
        BY <1>2, <1>4
      <4> QED BY <4>1, <1>16
    <3>4. new[j] = new[j - 1] + E BY <2>1, <3>2, <1>9
    <3> QED BY <3>1, <3>2, <3>3, <3>4
  <2>2. CASE j \in Next1 .. L
    <3> DEFINE f == Encode(sent[j])
    <3>1. j \in Nat /\ j - 1 \in Nat /\ j \in 1 .. L /\ j \in 0 .. L /\ j - 1 \in 0 .. L
      BY <2>2, <1>4 DEF Next1
    <3>2. Encode(sent'[j]) = f BY <3>1, <1>6
    <3>3. new[j] = at[j] /\ new[j - 1] = at[j - 1] BY <3>1, <1>9
    <3>7. PICK F \in Nat : F = Len(f) BY <3>1, EncodeBytes DEF L
    <3>4. at[j] = at[j - 1] + F BY <2>2, <3>7, <1>1 DEF Frames, L
    <3>9. \A x \in 1 .. F :
             at[j - 1] + x >= 1 => stream[at[j - 1] + x] = f[x]
      BY <2>2, <3>7, <1>1 DEF Frames, L
    <3>5. j \in Len(got) .. L BY <2>2, <1>4 DEF Next1
    <3>6. at[j] <= S BY <3>5, <1>1, <1>19 DEF Frames, L
    <3> HIDE DEF f
    <3>8. ASSUME NEW x \in 1 .. F, at[j - 1] + x >= 1
          PROVE  stream'[at[j - 1] + x] = f[x]
      <4>1. at[j - 1] \in Int /\ at[j] \in Int BY <3>1
      <4>2. at[j - 1] + x \in 1 .. S + E
            /\ at[j - 1] + x <= S
        BY <3>4, <3>6, <3>8, <4>1, SMTT(60)
      <4>3. stream'[at[j - 1] + x] = stream[at[j - 1] + x] BY <4>2, <1>16
      <4>4. stream[at[j - 1] + x] = f[x] BY <3>9, <3>8
      <4> QED BY <4>3, <4>4
    <3> QED BY <3>2, <3>3, <3>4, <3>7, <3>8
  <2> QED BY <2>1, <2>2, <1>4 DEF Next1
<1>15. Frames(new)'
  BY <1>6, <1>8, <1>10, <1>11, <1>12, <1>14 DEF Frames
<1> QED BY <1>15 DEF Framed

\* A message is sent.
LEMMA SendStep ==
    ASSUME Messages \subseteq Proper, WInv, NEW m \in Messages, Send(m)
    PROVE  WInv'
<1>1. /\ sent \in Seq(Messages) /\ stream \in Seq(Byte) /\ Len(sent) < MaxMessages
      /\ sent' = Append(sent, m) /\ stream' = stream \o Encode(m)
      /\ UNCHANGED <<got, state, cmd, ints, open, recover>>
  BY DEF Send, WInv, TypeOK
<1>2. /\ sent' \in Seq(Messages) /\ Len(sent') = Len(sent) + 1
      /\ \A j \in 1 .. Len(sent) : sent'[j] = sent[j]
  BY <1>1, AppendProperties
<1>3. Encode(m) \in Seq(Byte) BY ProperShape DEF Shape
<1>4. stream' \in Seq(Byte) BY <1>1, <1>3, ConcatProperties
<1>5. /\ Len(sent) \in Nat /\ Len(got) \in Nat /\ Len(got) <= Len(sent)
      /\ MaxMessages \in Nat
  BY Lengths, WireAssumption DEF WInv, Answered
<1>6. Len(sent') <= MaxMessages BY <1>1, <1>2, <1>5
<1>7. TypeOK' BY <1>1, <1>2, <1>4, <1>6 DEF WInv, TypeOK
<1>8. Answered'
  <2>1. \A j \in 1 .. Len(got) : got[j] = sent[j] /\ j \in 1 .. Len(sent)
    BY <1>5 DEF WInv, Answered
  <2>2. \A j \in 1 .. Len(got) : got[j] = sent'[j] BY <2>1, <1>2
  <2>3. got \in Seq(Messages) BY DEF WInv, Answered
  <2>4. Len(got) <= Len(sent') BY <1>2, <1>5
  <2> QED BY <2>2, <2>3, <2>4, <1>1 DEF Answered
<1>9. ASSUME state' # "COMMAND"
      PROVE  Len(got') < Len(sent') /\ Inside(Current)'
  <2>1. Len(got) < Len(sent) /\ Inside(Current) BY <1>1, <1>9 DEF WInv
  <2>2. Next1 \in 1 .. Len(sent) /\ Next1' = Next1 BY <2>1, <1>1, <1>5 DEF Next1
  <2>3. Current' = Current BY <2>2, <1>2 DEF Current
  <2>4. Len(got') < Len(sent') BY <2>1, <1>1, <1>2, <1>5
  <2>5. Inside(Current)' BY <2>1, <2>3, <1>1 DEF Inside, IntsRead
  <2> QED BY <2>4, <2>5
<1>10. Framed' BY SendFramed
<1> QED BY <1>1, <1>7, <1>8, <1>9, <1>10 DEF WInv

\* The types after a step of the reader.
LEMMA ReadTypes ==
    ASSUME WInv, NEW n \in Nat, n <= Len(stream), stream' = Drop(n), sent' = sent,
           state' \in States, cmd' \in Byte, ints' \in Seq(Nat), Len(ints') <= 3,
           UNCHANGED <<open, recover>>
    PROVE  TypeOK'
<1>1. stream' \in Seq(Byte) BY DropBytes DEF WInv, TypeOK
<1> QED BY <1>1 DEF WInv, TypeOK, States

\* A step of the reader inside a message.
LEMMA Continue ==
    ASSUME Messages \subseteq Proper, WInv, NEW n \in Nat, n <= Len(stream),
           Len(got) < Len(sent), stream' = Drop(n),
           UNCHANGED <<sent, got, open, recover>>,
           Consumed' = Consumed + n,
           state' \in States, cmd' \in Byte, ints' \in Seq(Nat), Len(ints') <= 3,
           Inside(Current)'
    PROVE  WInv'
<1>1. TypeOK' BY ReadTypes
<1>2. Answered' BY DEF WInv, Answered
<1>3. Reads(n)
  <2>1. Consumed \in Nat /\ Len(got) \in Nat BY Lengths
  <2>2. Consumed' \in Nat BY <2>1
  <2> QED BY <2>1, <2>2 DEF Reads
<1>4. Framed' BY <1>3, Advance
<1>5. Len(got') < Len(sent') /\ open' /\ ~recover' BY DEF WInv
<1> QED BY <1>1, <1>2, <1>4, <1>5 DEF WInv

\* A step of the reader that handles a message.
LEMMA Finish ==
    ASSUME Messages \subseteq Proper, WInv, NEW n \in Nat, n <= Len(stream),
           Len(got) < Len(sent), stream' = Drop(n), got' = Append(got, Current),
           UNCHANGED <<sent, open, recover>>, state' = "COMMAND",
           Consumed + n = Len(Encode(Current)),
           cmd' \in Byte, ints' \in Seq(Nat), Len(ints') <= 3
    PROVE  WInv'
<1>1. state' \in States BY DEF States
<1>2. TypeOK' BY <1>1, ReadTypes
<1>3. got \in Seq(Messages) /\ Current \in Messages
  BY CurrentShape DEF WInv, Answered
<1>4. /\ got' \in Seq(Messages) /\ Len(got') = Len(got) + 1
      /\ \A j \in 1 .. Len(got) : got'[j] = got[j]
      /\ got'[Len(got) + 1] = Current
  BY <1>3, AppendProperties
<1>5. Len(got) \in Nat /\ Len(sent) \in Nat BY Lengths
<1>6. Answered'
  <2>1. Len(got') <= Len(sent') BY <1>4, <1>5
  <2>2. ASSUME NEW j \in 1 .. Len(got) + 1 PROVE got'[j] = sent[j]
    <3>1. CASE j = Len(got) + 1 BY <3>1, <1>4 DEF Current, Next1
    <3>2. CASE j \in 1 .. Len(got) BY <3>2, <1>4 DEF WInv, Answered
    <3> QED BY <3>1, <3>2, <1>5
  <2> QED BY <2>1, <2>2, <1>4 DEF Answered
<1>7. Reads(n)
  <2>1. Consumed' = 0 BY DEF Consumed
  <2>2. Len(got') = Next1 /\ Len(got') \in Nat BY <1>4, <1>5 DEF Next1
  <2> QED BY <2>1, <2>2 DEF Reads
<1>8. Framed' BY <1>7, Advance
<1>9. open' /\ ~recover' BY DEF WInv
<1> QED BY <1>1, <1>2, <1>6, <1>8, <1>9 DEF WInv

\* The length of a message is read.
LEMMA LengthStep ==
    ASSUME Messages \subseteq Proper, WInv, ReadLength
    PROVE  WInv'
<1> DEFINE e == Encode(Current)
<1>1. /\ state = "COMMAND" /\ Len(stream) >= 4 /\ stream' = Drop(4)
      /\ state' = IF Ntohl(Take(4)) > 0 THEN "COMMAND2" ELSE "COMMAND"
      /\ UNCHANGED <<cmd, ints, open, recover, sent, got>>
  BY DEF ReadLength
<1>2. Len(stream) \in Nat /\ stream \in Seq(Byte)
  BY Lengths DEF WInv, TypeOK
<1>3. Len(got) < Len(sent) BY <1>1, <1>2, Started
<1>4. Shape(Current, e) BY <1>3, CurrentShape
<1>5. e \in Seq(Byte) /\ Len(e) >= 5 /\ e[4] \in 1 .. 255 /\ Stands(e[4], e, 0)
  BY <1>4 DEF Shape
<1> HIDE DEF e
<1>6. Consumed = 0 BY <1>1 DEF Consumed
<1>7. Len(e) \in Nat /\ 0 + 4 <= Len(e) BY <1>5, LenProperties
<1>8. \A x \in 1 .. 4 : stream[x] = e[0 + x]
  BY <1>3, <1>5, <1>6, <1>7, Rest DEF e
<1>9. stream[1] = 0 /\ stream[2] = 0 /\ stream[3] = 0 /\ stream[4] = e[4]
  BY <1>5, <1>8 DEF Stands
<1>10. e[4] \in Byte BY <1>5 DEF Byte
<1>11. Ntohl(Take(4)) = e[4] BY <1>1, <1>2, <1>9, <1>10, TakeInteger
<1>17. e[4] > 0
  <2>1. e[4] \in 1 .. 255 BY <1>5
  <2> QED BY <2>1
<1>12. state' = "COMMAND2" BY <1>1, <1>17, <1>11
<1>13. Consumed' = Consumed + 4 BY <1>6, <1>12 DEF Consumed
<1>14. Inside(Current)' BY <1>12 DEF Inside
<1>15. state' \in States BY <1>12 DEF States
<1>16. cmd' \in Byte /\ ints' \in Seq(Nat) /\ Len(ints') <= 3
  BY <1>1 DEF WInv, TypeOK
<1> QED BY <1>1, <1>3, <1>13, <1>14, <1>15, <1>16, Continue

\* What the command byte of a message says about the rest of it.
LEMMA ShapeByCommand ==
    ASSUME NEW m, NEW e, Shape(m, e)
    PROVE  /\ e[5] \in {1, 2, 3} => PlainShape(m, e)
           /\ e[5] = 4 => HaveShape(m, e)
           /\ e[5] = 5 => BitmapShape(m, e)
           /\ e[5] = 7 => SliceShape(m, e)
           /\ e[5] \in {6, 8} => RangeShape(m, e)
           /\ e[5] \in 1 .. 8
  BY DEF Shape, PlainShape, HaveShape, BitmapShape, SliceShape, RangeShape

\* What the reader does with a command byte of the protocol.
LEMMA CommandArms ==
    ASSUME ReadCommand, NEW c, stream[1] = c
    PROVE  /\ c \in {1, 2, 3} =>
                 /\ got' = Append(got, <<Plain[c + 1]>>) /\ state' = "COMMAND"
                 /\ UNCHANGED <<open, recover>>
           /\ c \in {4, 6, 7, 8} =>
                 state' = "GET_INTEGERS" /\ UNCHANGED <<open, recover, got>>
           /\ c = 5 =>
                 state' = "GET_BITMAP" /\ UNCHANGED <<open, recover, got>>
<1>1. CASE c \in {1, 2, 3}
  <2>1. c \in 0 .. 3 /\ ~(c \in {4, 6, 7, 8}) /\ c # 5 BY <1>1
  <2> QED BY <1>1, <2>1 DEF ReadCommand, Handle
<1>2. CASE c \in {4, 6, 7, 8}
  <2>1. ~(c \in 0 .. 3) /\ ~(c \in {1, 2, 3}) /\ c # 5 BY <1>2
  <2> QED BY <1>2, <2>1 DEF ReadCommand
<1>3. CASE c = 5
  <2>1. ~(c \in 0 .. 3) /\ ~(c \in {1, 2, 3}) /\ ~(c \in {4, 6, 7, 8}) BY <1>3
  <2> QED BY <1>3, <2>1 DEF ReadCommand
<1> QED BY <1>1, <1>2, <1>3

\* The command byte is read.
LEMMA CommandStep ==
    ASSUME Messages \subseteq Proper, WInv, ReadCommand
    PROVE  WInv'
<1> DEFINE e == Encode(Current)
<1>1. /\ state = "COMMAND2" /\ Len(stream) >= 1 /\ stream' = Drop(1)
      /\ cmd' = stream[1] /\ ints' = <<>> /\ sent' = sent
  BY DEF ReadCommand
<1>2. Len(stream) \in Nat BY Lengths
<1>3. Len(got) < Len(sent) BY <1>1, <1>2, Started
<1>4. Shape(Current, e) BY <1>3, CurrentShape
<1>5. e \in Seq(Byte) /\ Len(e) >= 5 BY <1>4 DEF Shape
<1>6. Consumed = 4 BY <1>1 DEF Consumed
<1> HIDE DEF e
<1>7. Len(e) \in Nat /\ 4 + 1 <= Len(e) BY <1>5, LenProperties
<1>8. \A x \in 1 .. 1 : stream[x] = e[4 + x]
  BY <1>3, <1>5, <1>6, <1>7, Rest DEF e
<1>9. stream[1] = e[5] BY <1>8
<1>10. cmd' \in Byte /\ ints' \in Seq(Nat) /\ Len(ints') <= 3 /\ Len(ints') = 0
  <2>1. 5 \in 1 .. Len(e) BY <1>7
  <2>2. e[5] \in Byte BY <2>1, <1>5, ElementOfSeq
  <2> QED BY <2>2, <1>1, <1>9
<1>11. Current' = Current \/ got' # got BY <1>1 DEF Current, Next1
<1>12. CASE e[5] \in {1, 2, 3}
  <2>1. PlainShape(Current, e) BY <1>4, <1>12, ShapeByCommand
  <2>2. Len(e) = 5 /\ Current = <<Plain[e[5] + 1]>> BY <2>1 DEF PlainShape
  <2>4. /\ got' = Append(got, <<Plain[e[5] + 1]>>) /\ state' = "COMMAND"
        /\ UNCHANGED <<open, recover>>
    BY <1>9, <1>12, CommandArms
  <2>5. Consumed + 1 = Len(e) BY <2>2, <1>6
  <2> QED BY <2>2, <2>4, <2>5, <1>1, <1>2, <1>3, <1>10, Finish DEF e
<1>13. CASE e[5] \in {4, 6, 7, 8}
  <2>1. state' = "GET_INTEGERS" /\ UNCHANGED <<open, recover, got>>
    BY <1>9, <1>13, CommandArms
  <2>2. Current' = Current BY <2>1, <1>11
  <2>3. Consumed' = Consumed + 1 BY <2>1, <1>6, <1>10 DEF Consumed
  <2>4. Integers4(e[5]) > 0 BY <1>13 DEF Integers4
  <2>5. Inside(Current)'
    BY <2>1, <2>2, <2>4, <1>1, <1>9, <1>10, <1>13 DEF Inside, IntsRead, e
  <2>6. state' \in States BY <2>1 DEF States
  <2> QED BY <2>1, <2>3, <2>5, <2>6, <1>1, <1>2, <1>3, <1>10, Continue
<1>14. CASE e[5] = 5
  <2>1. state' = "GET_BITMAP" /\ UNCHANGED <<open, recover, got>>
    BY <1>9, <1>14, CommandArms
  <2>2. Current' = Current BY <2>1, <1>11
  <2>3. Consumed' = Consumed + 1 BY <2>1, <1>6 DEF Consumed
  <2>4. Inside(Current)' BY <2>1, <2>2, <1>14 DEF Inside, e
  <2>5. state' \in States BY <2>1 DEF States
  <2> QED BY <2>1, <2>3, <2>4, <2>5, <1>1, <1>2, <1>3, <1>10, Continue
<1>15. e[5] \in 1 .. 8 BY <1>4, ShapeByCommand
<1> QED BY <1>12, <1>13, <1>14, <1>15

\* The bitmap is read.
LEMMA BitmapStep ==
    ASSUME Messages \subseteq Proper, WInv, ReadBitmap
    PROVE  WInv'
<1>1. /\ state = "GET_BITMAP" /\ Len(stream) >= BitmapSize
      /\ stream' = Drop(BitmapSize) /\ got' = Append(got, <<"bitfield">>)
      /\ state' = "COMMAND" /\ UNCHANGED <<cmd, ints, open, recover, sent>>
  BY DEF ReadBitmap, Handle
<1>2. Len(stream) \in Nat /\ BitmapSize \in Nat BY Lengths, WireAssumption
<1>3. Len(got) < Len(sent) /\ Encode(Current)[5] = 5
  BY <1>1 DEF WInv, Inside
<1>4. BitmapShape(Current, Encode(Current))
  BY <1>3, CurrentShape, ShapeByCommand
<1>5. /\ Len(Encode(Current)) = 5 + BitmapSize /\ Current = <<"bitfield">>
      /\ Consumed = 5
  BY <1>1, <1>4 DEF BitmapShape, Consumed
<1>6. cmd' \in Byte /\ ints' \in Seq(Nat) /\ Len(ints') <= 3
  BY <1>1 DEF WInv, TypeOK
<1> QED BY <1>1, <1>2, <1>3, <1>5, <1>6, Finish

\* The bytes of a slice are read.
LEMMA SliceStep ==
    ASSUME Messages \subseteq Proper, WInv, ReadSlice
    PROVE  WInv'
<1> DEFINE e == Encode(Current)
<1>1. /\ state = "GET_PIECE" /\ Len(stream) >= SliceSize
      /\ stream' = Drop(SliceSize) /\ UNCHANGED <<cmd, ints, recover, sent>>
  BY DEF ReadSlice
<1>2. Len(stream) \in Nat /\ SliceSize \in Nat BY Lengths, WireAssumption
<1>3. Len(got) < Len(sent) /\ e[5] = 7 /\ Len(ints) = 2 /\ IntsRead(Current)
  BY <1>1 DEF WInv, Inside
<1>4. SliceShape(Current, e) BY <1>3, CurrentShape, ShapeByCommand
<1> HIDE DEF e
<1>5. PICK i \in Byte, o \in Byte :
         /\ Current = <<"piece", i, o, SliceSize>>
         /\ i < NumberOfPieces /\ o < PieceLength
  BY <1>4 DEF SliceShape
<1>6. Len(e) = 13 + SliceSize /\ Consumed = 13
  BY <1>1, <1>4 DEF SliceShape, Consumed
<1>7. ints[1] = i /\ ints[2] = o BY <1>3, <1>5 DEF IntsRead
<1>8. got' = Append(got, Current) /\ state' = "COMMAND" /\ open' = open
  BY <1>5, <1>7 DEF ReadSlice, Handle
<1>9. cmd' \in Byte /\ ints' \in Seq(Nat) /\ Len(ints') <= 3
  BY <1>1 DEF WInv, TypeOK
<1> QED BY <1>1, <1>2, <1>3, <1>6, <1>8, <1>9, Finish DEF e

\* The integers of a message stand where the reader looks for them.
LEMMA IntegerPlace ==
    ASSUME NEW m, NEW e, Shape(m, e), NEW c, c = e[5], c \in {4, 6, 7, 8},
           NEW k \in Nat, k < Integers4(c)
    PROVE  /\ m[k + 2] \in Byte /\ Stands(m[k + 2], e, 5 + 4 * k)
           /\ 5 + 4 * k + 4 <= Len(e)
<1>1. CASE c = 4
  <2>1. HaveShape(m, e) BY <1>1, ShapeByCommand
  <2>2. k = 0 BY <1>1 DEF Integers4
  <2>3. PICK i \in Byte : m = <<"have", i>> /\ Stands(i, e, 5)
    BY <2>1 DEF HaveShape
  <2>4. m[k + 2] = i /\ 5 + 4 * k = 5 BY <2>2, <2>3
  <2>5. 5 + 4 * k + 4 <= Len(e) BY <2>1, <2>2 DEF HaveShape
  <2> QED BY <2>3, <2>4, <2>5
<1>2. CASE c = 7
  <2>1. SliceShape(m, e) BY <1>2, ShapeByCommand
  <2>2. k = 0 \/ k = 1 BY <1>2 DEF Integers4
  <2>3. PICK i \in Byte, o \in Byte :
           m = <<"piece", i, o, SliceSize>> /\ Stands(i, e, 5) /\ Stands(o, e, 9)
    BY <2>1 DEF SliceShape
  <2>4. Len(e) >= 13
    <3>1. Len(e) = 13 + SliceSize BY <2>1 DEF SliceShape
    <3> QED BY <3>1, WireAssumption
  <2>5. CASE k = 0
    <3>1. m[k + 2] = i /\ 5 + 4 * k = 5 BY <2>3, <2>5
    <3>2. 5 + 4 * k + 4 <= Len(e) BY <2>4, <2>5
    <3> QED BY <2>3, <3>1, <3>2
  <2>6. CASE k = 1
    <3>1. m[k + 2] = o /\ 5 + 4 * k = 9 BY <2>3, <2>6
    <3>2. 5 + 4 * k + 4 <= Len(e) BY <2>4, <2>6
    <3> QED BY <2>3, <3>1, <3>2
  <2> QED BY <2>2, <2>5, <2>6
<1>3. CASE c \in {6, 8}
  <2>1. RangeShape(m, e) BY <1>3, ShapeByCommand
  <2>2. k = 0 \/ k = 1 \/ k = 2 BY <1>3 DEF Integers4
  <2>3. PICK i \in Byte, o \in Byte, l \in Byte :
           /\ m = <<IF e[5] = 6 THEN "request" ELSE "cancel", i, o, l>>
           /\ Stands(i, e, 5) /\ Stands(o, e, 9) /\ Stands(l, e, 13)
    BY <2>1 DEF RangeShape
  <2>4. Len(e) = 17 BY <2>1 DEF RangeShape
  <2>5. CASE k = 0
    <3>1. m[k + 2] = i /\ 5 + 4 * k = 5 BY <2>3, <2>5
    <3>2. 5 + 4 * k + 4 <= Len(e) BY <2>4, <2>5
    <3> QED BY <2>3, <3>1, <3>2
  <2>6. CASE k = 1
    <3>1. m[k + 2] = o /\ 5 + 4 * k = 9 BY <2>3, <2>6
    <3>2. 5 + 4 * k + 4 <= Len(e) BY <2>4, <2>6
    <3> QED BY <2>3, <3>1, <3>2
  <2>7. CASE k = 2
    <3>1. m[k + 2] = l /\ 5 + 4 * k = 13 BY <2>3, <2>7
    <3>2. 5 + 4 * k + 4 <= Len(e) BY <2>4, <2>7
    <3> QED BY <2>3, <3>1, <3>2
  <2> QED BY <2>2, <2>5, <2>6, <2>7
<1> QED BY <1>1, <1>2, <1>3

\* What the reader has once it has read an integer: n, all of them right.
Gathered(n) ==
    /\ n \in Seq(Nat) /\ Len(n) = Len(ints) + 1 /\ Len(n) <= Integers4(cmd)
    /\ \A x \in 1 .. Len(n) : n[x] = Current[x + 1]

\* An integer is read, and it is the one that was written there.
LEMMA IntegerRead ==
    ASSUME Messages \subseteq Proper, WInv, ReadInteger
    PROVE  /\ Gathered(Append(ints, Ntohl(Take(4))))
           /\ Consumed = 5 + 4 * Len(ints) /\ Len(got) < Len(sent)
           /\ cmd = Encode(Current)[5] /\ cmd \in {4, 6, 7, 8}
<1> DEFINE e == Encode(Current)
           k == Len(ints)
<1>1. state = "GET_INTEGERS" /\ Len(stream) >= 4 BY DEF ReadInteger
<1>2. /\ Len(got) < Len(sent) /\ cmd = e[5] /\ cmd \in {4, 6, 7, 8}
      /\ k < Integers4(cmd) /\ IntsRead(Current)
  BY <1>1 DEF WInv, Inside
<1>3. k \in Nat /\ ints \in Seq(Nat) /\ stream \in Seq(Byte)
  BY Lengths DEF WInv, TypeOK
<1>4. Shape(Current, e) BY <1>2, CurrentShape
<1>5. Consumed = 5 + 4 * k BY <1>1 DEF Consumed
<1>6. e \in Seq(Byte) BY <1>4 DEF Shape
<1> HIDE DEF e, k
<1>7. PICK v \in Byte : v = Current[k + 2] /\ Stands(v, e, 5 + 4 * k)
                        /\ 5 + 4 * k + 4 <= Len(e)
  BY <1>2, <1>3, <1>4, IntegerPlace
<1>8. \A x \in 1 .. 4 : stream[x] = e[5 + 4 * k + x]
  <2>1. Consumed + 4 <= Len(Encode(Current)) /\ 4 \in Nat
    BY <1>5, <1>7 DEF e
  <2>2. \A x \in 1 .. 4 : stream[x] = Encode(Current)[Consumed + x]
    BY <2>1, <1>2, <1>6, Rest DEF e
  <2> QED BY <2>2, <1>5 DEF e
<1>9. stream[1] = 0 /\ stream[2] = 0 /\ stream[3] = 0 /\ stream[4] = v
  BY <1>7, <1>8 DEF Stands
<1>10. Ntohl(Take(4)) = v BY <1>1, <1>3, <1>9, TakeInteger
<1>11. v \in Nat BY DEF Byte
<1> DEFINE n == Append(ints, v)
<1>12. /\ n \in Seq(Nat) /\ Len(n) = k + 1 /\ n[k + 1] = v
       /\ \A x \in 1 .. k : n[x] = ints[x]
  BY <1>3, <1>11, AppendProperties DEF k
<1> HIDE DEF n
<1>13. ASSUME NEW x \in 1 .. k + 1 PROVE n[x] = Current[x + 1]
  <2>1. CASE x = k + 1
    <3>1. x + 1 = k + 2 BY <2>1, <1>3
    <3> QED BY <3>1, <2>1, <1>7, <1>12
  <2>2. CASE x \in 1 .. k BY <2>2, <1>2, <1>12 DEF IntsRead, k
  <2> QED BY <2>1, <2>2, <1>3
<1>14. k + 1 <= Integers4(cmd) BY <1>2, <1>3 DEF Integers4
<1>15. Gathered(n) BY <1>12, <1>13, <1>14 DEF Gathered, k
<1> QED BY <1>2, <1>5, <1>10, <1>15 DEF n, e, k

\* All the integers of a message but a slice: the message is handled.
LEMMA Handled ==
    ASSUME Messages \subseteq Proper, WInv, Len(got) < Len(sent), NEW n,
           cmd = Encode(Current)[5], cmd \in {4, 6, 8}, Gathered(n),
           Len(n) = Integers4(cmd), Complete(n)
    PROVE  /\ got' = Append(got, Current) /\ state' = "COMMAND"
           /\ UNCHANGED <<open, recover>>
           /\ Len(Encode(Current)) = 5 + 4 * Len(n)
<1> DEFINE e == Encode(Current)
<1>1. Shape(Current, e) BY CurrentShape
<1>2. \A x \in 1 .. Len(n) : n[x] = Current[x + 1] BY DEF Gathered
<1> HIDE DEF e
<1>3. CASE cmd = 4
  <2>1. HaveShape(Current, e) BY <1>1, <1>3, ShapeByCommand DEF e
  <2>2. PICK i \in Byte : Current = <<"have", i>> /\ i < NumberOfPieces
    BY <2>1 DEF HaveShape
  <2>3. Len(n) = 1 /\ Len(e) = 9 BY <1>3, <2>1 DEF Integers4, HaveShape
  <2>4. n[1] = i
    <3>1. 1 \in 1 .. Len(n) BY <2>3
    <3>2. n[1] = Current[1 + 1] BY <3>1, <1>2
    <3> QED BY <3>2, <2>2
  <2>5. /\ got' = Append(got, <<"have", i>>) /\ state' = "COMMAND"
        /\ UNCHANGED <<open, recover>>
    BY <1>3, <2>2, <2>4 DEF Complete, Handle
  <2>6. Len(e) = 5 + 4 * Len(n) BY <2>3
  <2> QED BY <2>2, <2>5, <2>6 DEF e
<1>4. CASE cmd \in {6, 8}
  <2>1. RangeShape(Current, e) BY <1>1, <1>4, ShapeByCommand DEF e
  <2>2. PICK i \in Byte, o \in Byte, l \in Byte :
           /\ Current = <<IF cmd = 6 THEN "request" ELSE "cancel", i, o, l>>
           /\ InRange(i, o, l)
    BY <2>1 DEF RangeShape, e
  <2>3. Len(n) = 3 /\ Len(e) = 17 BY <1>4, <2>1 DEF Integers4, RangeShape
  <2>4. n[1] = i /\ n[2] = o /\ n[3] = l
    <3>1. 1 \in 1 .. Len(n) /\ 2 \in 1 .. Len(n) /\ 3 \in 1 .. Len(n) BY <2>3
    <3>2. /\ n[1] = Current[1 + 1] /\ n[2] = Current[2 + 1]
          /\ n[3] = Current[3 + 1]
      BY <3>1, <1>2
    <3> QED BY <3>2, <2>2
  <2>7. Len(e) = 5 + 4 * Len(n) BY <2>3
  <2>5. CASE cmd = 6
    <3>1. /\ got' = Append(got, <<"request", i, o, l>>) /\ state' = "COMMAND"
          /\ UNCHANGED <<open, recover>>
      BY <2>5, <2>2, <2>4 DEF Complete, Handle
    <3> QED BY <3>1, <2>5, <2>2, <2>7 DEF e
  <2>6. CASE cmd = 8
    <3>1. /\ got' = Append(got, <<"cancel", i, o, l>>) /\ state' = "COMMAND"
          /\ UNCHANGED <<open, recover>>
      BY <2>6, <2>2, <2>4 DEF Complete, Handle
    <3> QED BY <3>1, <2>6, <2>2, <2>7 DEF e
  <2> QED BY <1>4, <2>5, <2>6
<1> QED BY <1>3, <1>4

\* An integer is read.
LEMMA IntegerStep ==
    ASSUME Messages \subseteq Proper, WInv, ReadInteger
    PROVE  WInv'
<1> DEFINE n == Append(ints, Ntohl(Take(4)))
<1>1. /\ Len(stream) >= 4 /\ stream' = Drop(4) /\ ints' = n
      /\ state = "GET_INTEGERS" /\ UNCHANGED <<cmd, sent>>
      /\ IF Len(n) < Integers4(cmd)
         THEN UNCHANGED <<state, open, recover, got>>
         ELSE Complete(n)
  BY DEF ReadInteger
<1>2. /\ Gathered(n) /\ Consumed = 5 + 4 * Len(ints) /\ Len(got) < Len(sent)
      /\ cmd = Encode(Current)[5] /\ cmd \in {4, 6, 7, 8}
  BY IntegerRead
<1> HIDE DEF n
<1>3. Len(stream) \in Nat /\ Len(ints) \in Nat BY Lengths
<1>4. Len(n) = Len(ints) + 1 /\ Len(n) <= Integers4(cmd) /\ ints' \in Seq(Nat)
  BY <1>1, <1>2 DEF Gathered
<1>5. Len(ints') <= 3
  <2>1. Integers4(cmd) \in 1 .. 3 BY <1>2 DEF Integers4
  <2> QED BY <2>1, <1>1, <1>3, <1>4
<1>6. cmd' \in Byte BY <1>1 DEF WInv, TypeOK
<1>7. IntsRead(Current)' \/ Current' # Current
  BY <1>1, <1>2 DEF Gathered, IntsRead
<1>8. got' = got => Current' = Current BY <1>1 DEF Current, Next1
<1>9. CASE Len(n) < Integers4(cmd)
  <2>1. UNCHANGED <<state, open, recover, got>> BY <1>1, <1>9
  <2>2. Consumed' = Consumed + 4
    <3>1. Consumed' = 5 + 4 * Len(n) BY <1>1, <2>1 DEF Consumed
    <3> QED BY <3>1, <1>2, <1>3, <1>4
  <2>3. Inside(Current)'
    BY <2>1, <1>1, <1>2, <1>7, <1>8, <1>9 DEF Inside
  <2>4. state' \in States BY <2>1 DEF WInv
  <2> QED BY <2>1, <2>2, <2>3, <2>4, <1>1, <1>2, <1>3, <1>4, <1>5, <1>6, Continue
<1>10. CASE Len(n) = Integers4(cmd) /\ cmd = 7
  <2>1. Complete(n) BY <1>1, <1>10
  <2>2. state' = "GET_PIECE" /\ UNCHANGED <<open, recover, got>>
    BY <2>1, <1>10 DEF Complete
  <2>3. Len(n) = 2 BY <1>10 DEF Integers4
  <2>4. Consumed' = Consumed + 4
    <3>1. Consumed' = 13 BY <2>2 DEF Consumed
    <3>2. PICK k \in Nat : k = Len(ints) BY <1>3
    <3>3. k + 1 = 2 BY <2>3, <3>2, <1>4
    <3>4. Consumed = 9 BY <3>2, <3>3, <1>2
    <3> QED BY <3>1, <3>4
  <2>5. Inside(Current)'
    BY <2>2, <2>3, <1>1, <1>2, <1>7, <1>8, <1>10 DEF Inside
  <2>6. state' \in States BY <2>2 DEF States
  <2> QED BY <2>2, <2>4, <2>5, <2>6, <1>1, <1>2, <1>3, <1>4, <1>5, <1>6, Continue
<1>11. CASE Len(n) = Integers4(cmd) /\ cmd \in {4, 6, 8}
  <2>1. Complete(n) BY <1>1, <1>11
  <2>2. /\ got' = Append(got, Current) /\ state' = "COMMAND"
        /\ UNCHANGED <<open, recover>>
        /\ Len(Encode(Current)) = 5 + 4 * Len(n)
    BY <2>1, <1>2, <1>11, Handled
  <2>3. Consumed + 4 = Len(Encode(Current)) BY <2>2, <1>2, <1>3, <1>4
  <2> QED BY <2>2, <2>3, <1>1, <1>2, <1>3, <1>4, <1>5, <1>6, Finish
<1>12. Integers4(cmd) \in Nat BY <1>2 DEF Integers4
<1> QED BY <1>2, <1>3, <1>4, <1>9, <1>10, <1>11, <1>12

-----------------------------------------------------------------------------
(* The theorems.                                                           *)

\* Nothing has been sent at the beginning.
LEMMA InitWInv ==
    ASSUME Init PROVE WInv
<1>1. /\ stream = <<>> /\ state = "COMMAND" /\ cmd = 0 /\ ints = <<>>
      /\ open = TRUE /\ recover = FALSE /\ sent = <<>> /\ got = <<>>
  BY DEF Init
<1>2. TypeOK
  <2>1. stream \in Seq(Byte) /\ ints \in Seq(Nat) /\ sent \in Seq(Messages)
    BY <1>1
  <2>2. Len(ints) = 0 /\ Len(sent) = 0 BY <1>1
  <2>3. cmd \in Byte BY <1>1 DEF Byte
  <2>4. Len(ints) <= 3 BY <2>2
  <2>5. Len(sent) <= MaxMessages BY <2>2, WireAssumption
  <2>6. /\ state \in {"COMMAND", "COMMAND2", "GET_INTEGERS", "GET_BITMAP",
                      "GET_PIECE", "GET_COMMAND"}
        /\ open \in BOOLEAN /\ recover \in BOOLEAN
    BY <1>1
  <2> QED BY <2>1, <2>3, <2>4, <2>5, <2>6 DEF TypeOK
<1>3. Answered BY <1>1 DEF Answered
<1>4. Framed
  <2> DEFINE at == [k \in Nat |-> 0]
  <2>1. at \in [Nat -> Int] OBVIOUS
  <2>2. /\ Len(got) = 0 /\ Len(sent) = 0 /\ Len(stream) = 0 /\ Next1 = 1
        /\ Consumed = 0
    BY <1>1 DEF Next1, Consumed
  <2>3. at[0] = 0 OBVIOUS
  <2> HIDE DEF at
  <2>4. Frames(at) BY <2>2, <2>3 DEF Frames
  <2> QED BY <2>1, <2>4 DEF Framed
<1> QED BY <1>1, <1>2, <1>3, <1>4 DEF WInv, States

\* A step that changes nothing.
LEMMA StutterWInv ==
    ASSUME WInv, UNCHANGED vars PROVE WInv'
  BY DEF WInv, TypeOK, Answered, Framed, Frames, Inside, IntsRead, Current,
         Next1, Consumed, vars

\* Every step keeps the invariant.
LEMMA NextWInv ==
    ASSUME Messages \subseteq Proper, WInv, [Next]_vars
    PROVE  WInv'
<1>1. ASSUME NEW m \in Messages, Send(m) PROVE WInv' BY <1>1, SendStep
<1>2. CASE ReadLength BY <1>2, LengthStep
<1>3. CASE ReadCommand BY <1>3, CommandStep
<1>4. CASE ReadInteger BY <1>4, IntegerStep
<1>5. CASE ReadBitmap BY <1>5, BitmapStep
<1>6. CASE ReadSlice BY <1>6, SliceStep
<1>7. CASE UNCHANGED vars BY <1>7, StutterWInv
<1> QED BY <1>1, <1>2, <1>3, <1>4, <1>5, <1>6, <1>7 DEF Next, OnRead

\* The invariant holds at all times, for any set of proper messages.
THEOREM InductiveInvariant ==
    ASSUME Messages \subseteq Proper PROVE Spec => []WInv
<1>1. Init => WInv BY InitWInv
<1>2. WInv /\ [Next]_vars => WInv' BY NextWInv
<1> QED BY <1>1, <1>2, PTL DEF Spec

\* WireTyped.  The stream holds bytes only, the reader never holds more than
\* three integers, and its state and command are ones it knows.
THEOREM WireTyped ==
    ASSUME Messages \subseteq Proper PROVE Spec => []TypeOK
<1>1. WInv => TypeOK BY DEF WInv
<1> QED BY <1>1, InductiveInvariant, PTL

\* SentInOrder.  OnRead hands the cmd... functions exactly what was sent, in
\* the order it was sent, whatever the messages and however many are still
\* on the stream (pSocket.cpp:425-625).
THEOREM SentInOrder ==
    ASSUME Messages \subseteq Proper PROVE Spec => []InOrder
<1>1. ASSUME WInv PROVE InOrder
  <2>1. /\ got \in Seq(Messages) /\ sent \in Seq(Messages)
        /\ Len(got) <= Len(sent) /\ Len(got) \in Nat /\ Len(sent) \in Nat
        /\ \A j \in 1 .. Len(got) : got[j] = sent[j]
    BY <1>1, Lengths DEF WInv, TypeOK, Answered
  <2>2. 1 \in 1 .. Len(sent) + 1 /\ Len(got) \in 0 .. Len(sent) BY <2>1
  <2> DEFINE s == SubSeq(sent, 1, Len(got))
  <2>3. s \in Seq(Messages) /\ Len(s) = Len(got)
        /\ \A j \in 1 .. Len(got) : s[j] = sent[j]
    <3>1. /\ s \in Seq(Messages)
          /\ Len(s) = IF 1 <= Len(got) THEN Len(got) - 1 + 1 ELSE 0
          /\ \A j \in 1 .. Len(got) - 1 + 1 : s[j] = sent[1 + j - 1]
      BY <2>1, <2>2, SubSeqProperties
    <3> HIDE DEF s
    <3>2. Len(s) = Len(got) BY <3>1, <2>1
    <3>3. \A j \in 1 .. Len(got) : s[j] = sent[j] BY <3>1, <2>1
    <3> QED BY <3>1, <3>2, <3>3
  <2> HIDE DEF s
  <2>4. got = s
    BY <2>1, <2>3, SeqEqual
  <2> QED BY <2>1, <2>4 DEF InOrder, IsPrefix, s
<1> QED BY <1>1, InductiveInvariant, PTL

\* ReaderNeverBreaks.  A reader that is sent proper messages never closes the
\* connection and never takes the stream for a broken one.
THEOREM ReaderNeverBreaks ==
    ASSUME Messages \subseteq Proper PROVE Spec => [](open /\ ~recover)
<1>1. WInv => open /\ ~recover BY DEF WInv
<1> QED BY <1>1, InductiveInvariant, PTL

-----------------------------------------------------------------------------
(* A reader that has something to read.                                    *)

\* The bytes of the field the reader waits for.
FieldSize ==
    CASE state = "COMMAND2"   -> 1
      [] state = "GET_BITMAP" -> BitmapSize
      [] state = "GET_PIECE"  -> SliceSize
      [] OTHER                -> 4

\* The message that comes next is on the stream as far as it is unread.
LEMMA Unread ==
    ASSUME Messages \subseteq Proper, WInv, Len(got) < Len(sent)
    PROVE  Len(stream) >= Len(Encode(Current)) - Consumed
<1>1. PICK at \in [Nat -> Int] : Frames(at) BY DEF WInv, Framed
<1>2. Next1 \in 1 .. Len(sent) /\ Next1 \in Next1 .. Len(sent)
      /\ Next1 \in Len(got) .. Len(sent) /\ Next1 - 1 = Len(got)
  BY Lengths DEF Next1
<1>3. at[Next1] = at[Len(got)] + Len(Encode(sent[Next1]))
  BY <1>1, <1>2 DEF Frames
<1>4. at[Next1] <= Len(stream) /\ at[Len(got)] = 0 - Consumed
  BY <1>1, <1>2 DEF Frames
<1>5. Len(Encode(sent[Next1])) \in Nat BY <1>2, EncodeBytes
<1> QED BY <1>3, <1>4, <1>5, Lengths DEF Current

\* The field that is waited for lies in what is unread of the message.
LEMMA FieldUnread ==
    ASSUME Messages \subseteq Proper, WInv, Len(got) < Len(sent)
    PROVE  Len(Encode(Current)) - Consumed >= FieldSize
<1> DEFINE e == Encode(Current)
<1>1. Shape(Current, e) /\ Len(e) \in Nat
  BY CurrentShape, LenProperties DEF Shape
<1>2. Inside(Current) \/ state = "COMMAND" BY DEF WInv
<1> HIDE DEF e
<1>3. CASE state \in {"COMMAND", "COMMAND2"}
  <2>1. Consumed + FieldSize <= 5 BY <1>3 DEF Consumed, FieldSize
  <2>2. Len(e) >= 5 BY <1>1 DEF Shape
  <2>3. Consumed \in Nat /\ FieldSize \in Nat
    BY <1>3 DEF Consumed, FieldSize
  <2> QED BY <2>1, <2>2, <2>3, <1>1 DEF e
<1>4. CASE state = "GET_INTEGERS"
  <2>1. cmd = e[5] /\ cmd \in {4, 6, 7, 8} /\ Len(ints) < Integers4(cmd)
    BY <1>2, <1>4 DEF Inside, e
  <2>2. Len(ints) \in Nat BY Lengths
  <2>3. 5 + 4 * Len(ints) + 4 <= Len(e) BY <1>1, <2>1, <2>2, IntegerPlace
  <2>4. Consumed = 5 + 4 * Len(ints) /\ FieldSize = 4
    BY <1>4 DEF Consumed, FieldSize
  <2> QED BY <2>2, <2>3, <2>4, <1>1 DEF e
<1>5. CASE state = "GET_BITMAP"
  <2>1. e[5] = 5 BY <1>2, <1>5 DEF Inside, e
  <2>2. Len(e) = 5 + BitmapSize BY <1>1, <2>1, ShapeByCommand DEF BitmapShape
  <2>3. Consumed = 5 /\ FieldSize = BitmapSize
    BY <1>5 DEF Consumed, FieldSize
  <2> QED BY <2>2, <2>3, WireAssumption DEF e
<1>6. CASE state = "GET_PIECE"
  <2>1. e[5] = 7 BY <1>2, <1>6 DEF Inside, e
  <2>2. Len(e) = 13 + SliceSize BY <1>1, <2>1, ShapeByCommand DEF SliceShape
  <2>3. Consumed = 13 /\ FieldSize = SliceSize
    BY <1>6 DEF Consumed, FieldSize
  <2> QED BY <2>2, <2>3, WireAssumption DEF e
<1> QED BY <1>3, <1>4, <1>5, <1>6 DEF WInv, States

\* When everything is handled the stream is empty and the reader at the start
\* of a message; before that the field it waits for is all there.
Fed ==
    IF Len(got) = Len(sent) THEN stream = <<>> /\ state = "COMMAND"
    ELSE Len(stream) >= FieldSize

\* ReaderNeverStarves.  OnRead never waits for bytes that nobody will send,
\* and never has bytes left that belong to no message, which is what the
\* arrival of everything that was sent rests on (pSocket.cpp:425-625).
THEOREM ReaderNeverStarves ==
    ASSUME Messages \subseteq Proper PROVE Spec => []Fed
<1>1. ASSUME WInv PROVE Fed
  <2>1. CASE Len(got) = Len(sent)
    <3>1. ~(Len(got) < Len(sent)) BY <2>1, <1>1, Lengths
    <3>2. state = "COMMAND" BY <3>1, <1>1 DEF WInv
    <3>3. Len(stream) = 0 BY <3>1, <1>1, Started, Lengths
    <3>4. stream = <<>> BY <3>3, <1>1, EmptySeq DEF WInv, TypeOK
    <3> QED BY <2>1, <3>2, <3>4 DEF Fed
  <2>2. CASE Len(got) # Len(sent)
    <3>1. Len(got) < Len(sent) BY <2>2, <1>1, Lengths DEF WInv, Answered
    <3>2. /\ Len(stream) >= Len(Encode(Current)) - Consumed
          /\ Len(Encode(Current)) - Consumed >= FieldSize
      BY <3>1, <1>1, Unread, FieldUnread
    <3>3. Len(Encode(Current)) \in Nat
      BY <3>1, <1>1, CurrentShape, LenProperties DEF Shape
    <3>4. FieldSize \in Nat BY WireAssumption DEF FieldSize
    <3>5. Len(stream) >= FieldSize BY <3>2, <3>3, <3>4, <1>1, Lengths
    <3> QED BY <2>2, <3>5 DEF Fed
  <2> QED BY <2>1, <2>2
<1> QED BY <1>1, InductiveInvariant, PTL
=============================================================================
