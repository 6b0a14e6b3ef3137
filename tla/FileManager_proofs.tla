------------------------- MODULE FileManager_proofs -------------------------
(***************************************************************************)
(* The data files of a torrent, for every division into files, every       *)
(* length of pieces and slices and every order of writing.  The loop over  *)
(* the files is a recursive function; what it computes is proved by        *)
(* induction over the number of the file, from the fact that a set of      *)
(* naturals that is not empty has a least element.                         *)
(***************************************************************************)
EXTENDS FileManager, WellFoundedInduction, SequenceTheorems, TLAPS

-----------------------------------------------------------------------------
(* Induction.                                                              *)

Below == {p \in Nat \X Nat : p[1] < p[2]}

\* The order of the naturals is well founded.
LEMMA BelowWellFounded == IsWellFoundedOn(Below, Nat)
  BY NatLessThanWellFounded DEF OpToRel, Below

\* A set of naturals has a least element.
LEMMA Least ==
    ASSUME NEW T, T \subseteq Nat, T # {}
    PROVE  \E x \in T : \A y \in T : x <= y
<1>1. PICK x \in T : \A y \in T : <<y, x>> \notin Below
  BY BelowWellFounded, WFMin
<1>2. ASSUME NEW y \in T PROVE x <= y
  <2>1. <<y, x>> \in Nat \X Nat /\ <<y, x>>[1] = y /\ <<y, x>>[2] = x
    OBVIOUS
  <2>2. ~(y < x)
    BY <1>1, <2>1 DEF Below
  <2> QED BY <2>2
<1> QED BY <1>1, <1>2

\* A set that has 0 and with every number of an interval the next one.
LEMMA Induct ==
    ASSUME NEW m \in Nat, NEW P, P \subseteq 0 .. m, 0 \in P,
           \A k \in 1 .. m : k - 1 \in P => k \in P
    PROVE  P = 0 .. m
<1> DEFINE T == (0 .. m) \ P
<1>1. SUFFICES ASSUME T # {} PROVE FALSE
  OBVIOUS
<1>2. PICK x \in T : \A y \in T : x <= y
  <2>1. T \subseteq Nat OBVIOUS
  <2> QED BY <1>1, <2>1, Least
<1>3. x \in 1 .. m
  BY <1>2
<1>4. x - 1 \in P
  BY <1>2, <1>3
<1> QED BY <1>2, <1>3, <1>4

\* g begins with c and goes on with F, m times.
Recurs(g, m, S, c, F) ==
    /\ g \in [0 .. m -> S]
    /\ \A k \in 0 .. m : g[k] = IF k = 0 THEN c ELSE F[<<g[k - 1], k>>]

\* A function of an interval that is defined by its value one before.
LEMMA Recursion ==
    ASSUME NEW m \in Nat, NEW S, NEW c \in S, NEW F \in [S \X (1 .. m) -> S]
    PROVE  \E g : Recurs(g, m, S, c, F)
<1> DEFINE Upto(j) ==
             \E g \in [0 .. j -> S] :
                \A k \in 0 .. j :
                   g[k] = IF k = 0 THEN c ELSE F[<<g[k - 1], k>>]
           P == {j \in 0 .. m : Upto(j)}
<1>1. Upto(0)
  <2> DEFINE g == [k \in 0 .. 0 |-> c]
  <2>1. g \in [0 .. 0 -> S] OBVIOUS
  <2>2. \A k \in 0 .. 0 : g[k] = IF k = 0 THEN c ELSE F[<<g[k - 1], k>>]
    OBVIOUS
  <2> HIDE DEF g
  <2> QED BY <2>1, <2>2
<1>2. ASSUME NEW j \in 1 .. m, Upto(j - 1) PROVE Upto(j)
  <2>1. PICK g \in [0 .. j - 1 -> S] :
             \A k \in 0 .. j - 1 :
                g[k] = IF k = 0 THEN c ELSE F[<<g[k - 1], k>>]
    BY <1>2
  <2>2. j - 1 \in 0 .. j - 1 /\ g[j - 1] \in S
    OBVIOUS
  <2>3. F[<<g[j - 1], j>>] \in S
    BY <2>2
  <2> DEFINE h == [k \in 0 .. j |->
                      IF k = j THEN F[<<g[j - 1], j>>] ELSE g[k]]
  <2>4. h \in [0 .. j -> S]
    <3>1. ASSUME NEW k \in 0 .. j, k # j PROVE g[k] \in S
      <4>1. k \in 0 .. j - 1 BY <3>1
      <4> QED BY <4>1
    <3> QED BY <2>3, <3>1
  <2>5. ASSUME NEW k \in 0 .. j
        PROVE  h[k] = IF k = 0 THEN c ELSE F[<<h[k - 1], k>>]
    <3>1. CASE k = j
      <4>1. h[k] = F[<<g[j - 1], j>>] BY <3>1
      <4>2. h[j - 1] = g[j - 1] OBVIOUS
      <4> HIDE DEF h
      <4> QED BY <3>1, <4>1, <4>2
    <3>2. CASE k # j
      <4>1. k \in 0 .. j - 1 /\ h[k] = g[k] BY <3>2
      <4>2. k # 0 => h[k - 1] = g[k - 1] BY <3>2
      <4> HIDE DEF h
      <4> QED BY <2>1, <4>1, <4>2
    <3> QED BY <3>1, <3>2
  <2> HIDE DEF h
  <2> QED BY <2>4, <2>5
<1>3. P = 0 .. m
  <2>1. /\ P \subseteq 0 .. m /\ 0 \in P
        /\ \A k \in 1 .. m : k - 1 \in P => k \in P
    <3> HIDE DEF Upto
    <3> QED BY <1>1, <1>2
  <2> HIDE DEF P
  <2> QED BY <2>1, Induct
<1>4. Upto(m)
  <2> HIDE DEF Upto
  <2> QED BY <1>3
<1> QED BY <1>4 DEF Recurs

-----------------------------------------------------------------------------
(* The lesser and the greater of two numbers.                              *)

\* The least of two numbers, which Min chooses.
LEMMA MinOfTwo ==
    ASSUME NEW a \in Int, NEW b \in Int
    PROVE  Min({a, b}) = IF a <= b THEN a ELSE b
<1> DEFINE m == IF a <= b THEN a ELSE b
<1>1. m \in {a, b} /\ \A y \in {a, b} : m <= y
  OBVIOUS
<1>2. \A x \in {a, b} : (\A y \in {a, b} : x <= y) => x = m
  OBVIOUS
<1> HIDE DEF m
<1>3. Min({a, b}) \in {a, b} /\ \A y \in {a, b} : Min({a, b}) <= y
  BY <1>1 DEF Min
<1>4. Min({a, b}) = m
  BY <1>2, <1>3
<1> QED BY <1>4 DEF m

\* The greatest of two numbers, which Max chooses.
LEMMA MaxOfTwo ==
    ASSUME NEW a \in Int, NEW b \in Int
    PROVE  Max({a, b}) = IF a >= b THEN a ELSE b
<1> DEFINE m == IF a >= b THEN a ELSE b
<1>1. m \in {a, b} /\ \A y \in {a, b} : m >= y
  OBVIOUS
<1>2. \A x \in {a, b} : (\A y \in {a, b} : x >= y) => x = m
  OBVIOUS
<1> HIDE DEF m
<1>3. Max({a, b}) \in {a, b} /\ \A y \in {a, b} : Max({a, b}) >= y
  BY <1>1 DEF Max
<1>4. Max({a, b}) = m
  BY <1>2, <1>3
<1> QED BY <1>4 DEF m

-----------------------------------------------------------------------------
(* The layout of a torrent, its pieces and its slices.                     *)

\* Where a file begins and ends, and the size of the torrent.
LEMMA Layout ==
    ASSUME Laid(files)
    PROVE  /\ Len(files) \in Nat \ {0} /\ Files = 1 .. Len(files)
           /\ \A f \in Files :
                 files[f].offset \in Nat /\ files[f].length \in Nat
           /\ Total \in Nat \ {0}
<1>1. /\ files \in Seq([offset : Nat, length : Nat]) /\ files # <<>>
      /\ Total > 0
  BY DEF Laid, Total
<1>2. Len(files) \in Nat \ {0} /\ Files = 1 .. Len(files)
  BY <1>1 DEF Files
<1>3. ASSUME NEW f \in Files
      PROVE  files[f].offset \in Nat /\ files[f].length \in Nat
  <2>1. f \in 1 .. Len(files)
    BY <1>2
  <2>2. files[f] \in [offset : Nat, length : Nat]
    BY <1>1, <2>1, ElementOfSeq
  <2> QED BY <2>2
<1>4. Total \in Nat \ {0}
  <2>1. Len(files) \in Files
    BY <1>2
  <2>2. Total \in Nat
    BY <1>3, <2>1 DEF Total, End
  <2> QED BY <1>1, <2>2
<1> QED BY <1>2, <1>3, <1>4

\* Where the loop is, in the torrent, after file f.
Behind(f) == IF f = 0 THEN 0 ELSE End(files[f])

\* Each file begins where the one before ends.
LEMMA BehindStep ==
    ASSUME Laid(files), NEW f \in Files
    PROVE  /\ f - 1 \in 0 .. Len(files) /\ Behind(f - 1) \in Nat
           /\ Behind(f - 1) = files[f].offset
           /\ Behind(f) = files[f].offset + files[f].length
<1>1. /\ f \in 1 .. Len(files) /\ Len(files) \in Nat
      /\ files[f].offset \in Nat /\ files[f].length \in Nat
  BY Layout
<1>2. Behind(f - 1) = files[f].offset
  <2>1. CASE f = 1
    BY <1>1, <2>1 DEF Behind, Laid
  <2>2. CASE f # 1
    <3>1. f \in 2 .. Len(files) /\ f - 1 # 0
      BY <1>1, <2>2
    <3> QED BY <3>1 DEF Behind, Laid
  <2> QED BY <2>1, <2>2
<1> QED BY <1>1, <1>2 DEF Behind, End

\* A file ends inside the torrent.
LEMMA InsideTotal ==
    ASSUME Laid(files), NEW f \in Files
    PROVE  files[f].offset + files[f].length <= Total
<1> DEFINE m == Len(files)
           P == {k \in 0 .. m : k < m => Behind(m - k) <= Total /\ Behind(m - k) \in Nat}
<1>1. m \in Nat \ {0} /\ Files = 1 .. m /\ Total \in Nat /\ Behind(m) = Total
  BY Layout DEF Behind, Total
<1>2. 0 \in P
  BY <1>1
<1>3. ASSUME NEW k \in 1 .. m, k - 1 \in P PROVE k \in P
  <2>1. SUFFICES ASSUME k < m
                 PROVE  Behind(m - k) <= Total /\ Behind(m - k) \in Nat
    BY <1>1
  <2> DEFINE g == m - (k - 1)
  <2>2. g \in Files /\ g - 1 = m - k /\ g - 1 # 0
    BY <1>1, <2>1
  <2>3. Behind(g) <= Total /\ Behind(g) \in Nat
    BY <1>1, <1>3, <2>1
  <2>4. files[g].length \in Nat /\ files[g].offset \in Nat
    BY <2>2, Layout
  <2> HIDE DEF g
  <2>5. Behind(g - 1) \in Nat /\ Behind(g) = Behind(g - 1) + files[g].length
    BY <2>2, BehindStep
  <2>6. Behind(g - 1) <= Total
    BY <1>1, <2>3, <2>4, <2>5
  <2> QED BY <2>2, <2>5, <2>6
<1>4. P = 0 .. m
  <2>1. m \in Nat /\ P \subseteq 0 .. m
    BY <1>1
  <2> HIDE DEF P, m
  <2> QED BY <1>2, <1>3, <2>1, Induct
<1>5. m - f \in 0 .. m /\ m - f < m /\ m - (m - f) = f
  BY <1>1
<1>6. Behind(f) <= Total
  BY <1>4, <1>5
<1> QED BY <1>6, BehindStep

\* The files cover the torrent: each position is in one of them.
LEMMA Covered ==
    ASSUME Laid(files), NEW p \in 0 .. Total - 1
    PROVE  \E f \in Files : p \in files[f].offset .. Behind(f) - 1
<1> DEFINE m == Len(files)
           T == {f \in Files : p < Behind(f)}
<1>1. m \in Nat \ {0} /\ Files = 1 .. m /\ Total \in Nat /\ Behind(m) = Total
  BY Layout DEF Behind, Total
<1>2. T \subseteq Nat /\ T # {}
  BY <1>1
<1>3. PICK f \in T : \A g \in T : f <= g
  <2> HIDE DEF T
  <2> QED BY <1>2, Least
<1>4. f \in Files /\ p < Behind(f)
  OBVIOUS
<1>5. /\ f - 1 \in 0 .. m /\ Behind(f - 1) \in Nat
      /\ Behind(f - 1) = files[f].offset
  BY <1>4, BehindStep
<1>6. p >= Behind(f - 1)
  <2>1. CASE f = 1
    BY <2>1 DEF Behind
  <2>2. CASE f # 1
    <3>1. f - 1 \in Files /\ ~(f <= f - 1)
      BY <1>1, <1>4, <2>2
    <3>2. ~(p < Behind(f - 1))
      BY <1>3, <3>1
    <3> QED BY <1>5, <3>2
  <2> QED BY <2>1, <2>2
<1>7. Behind(f) \in Nat
  <2>1. files[f].offset \in Nat /\ files[f].length \in Nat
    BY <1>4, Layout
  <2> QED BY <1>4, <2>1, BehindStep
<1> QED BY <1>4, <1>5, <1>6, <1>7

-----------------------------------------------------------------------------
(* The loop over the files.                                                *)

PartSet == [offset : Int, from : Int, len : Int]

\* What the loop keeps.
LoopSet == [start : Int, from : Int, left : Int, ptr : Int, part : PartSet]

\* Where the loop begins.
LoopStart(start, n) ==
    [start |-> start, from |-> 0, left |-> n, ptr |-> 0, part |-> NoPart]

\* The loop finds bytes of the buffer in file f.
Hits(a, f) == a.left > 0 /\ a.start < a.ptr + files[f].length

\* One turn, component by component.
LEMMA TurnIs ==
    ASSUME Laid(files), NEW f \in Files, NEW a \in LoopSet
    PROVE  /\ Turn(a, f) \in LoopSet
           /\ Turn(a, f).ptr = a.ptr + files[f].length
           /\ ~Hits(a, f) => /\ Turn(a, f).start = a.start
                             /\ Turn(a, f).from = a.from
                             /\ Turn(a, f).left = a.left
                             /\ Turn(a, f).part = NoPart
           /\ Hits(a, f) =>
                 LET rest == files[f].length - (a.start - a.ptr)
                     len == IF rest <= a.left THEN rest ELSE a.left
                 IN /\ Turn(a, f).start = a.start + len
                    /\ Turn(a, f).from = a.from + len
                    /\ Turn(a, f).left = a.left - len
                    /\ Turn(a, f).part.offset = a.start - a.ptr
                    /\ Turn(a, f).part.from = a.from
                    /\ Turn(a, f).part.len = len
<1>1. /\ files[f].length \in Nat
      /\ a.start \in Int /\ a.from \in Int /\ a.left \in Int /\ a.ptr \in Int
      /\ a.part \in PartSet
  BY Layout DEF LoopSet
<1>2. NoPart \in PartSet
  BY DEF NoPart, PartSet
<1>3. CASE Hits(a, f)
  <2> DEFINE rest == files[f].length - (a.start - a.ptr)
             len == IF rest <= a.left THEN rest ELSE a.left
             part == [offset |-> a.start - a.ptr, from |-> a.from, len |-> len]
  <2>1. rest \in Int /\ len \in Int /\ a.start - a.ptr \in Int
    BY <1>1
  <2>2. Min({rest, a.left}) = len
    BY <1>1, <2>1, MinOfTwo
  <2>3. part \in PartSet
    BY <1>1, <2>1 DEF PartSet
  <2>4. Turn(a, f) = [start |-> a.start + len, from |-> a.from + len,
                      left |-> a.left - len, ptr |-> a.ptr + files[f].length,
                      part |-> part]
    BY <1>3, <2>2 DEF Turn, Hits
  <2> HIDE DEF rest, len, part
  <2>5. Turn(a, f) \in LoopSet
    BY <1>1, <2>1, <2>3, <2>4 DEF LoopSet
  <2>6. /\ Turn(a, f).start = a.start + len
        /\ Turn(a, f).from = a.from + len
        /\ Turn(a, f).left = a.left - len
        /\ Turn(a, f).ptr = a.ptr + files[f].length
        /\ Turn(a, f).part = part
    BY <2>4
  <2>7. part.offset = a.start - a.ptr /\ part.from = a.from /\ part.len = len
    BY DEF part
  <2> QED BY <1>3, <2>5, <2>6, <2>7 DEF rest, len
<1>4. CASE ~Hits(a, f)
  <2> DEFINE b == [a EXCEPT !.ptr = @ + files[f].length, !.part = NoPart]
  <2>1. Turn(a, f) = b
    BY <1>4 DEF Turn, Hits
  <2>2. a.ptr + files[f].length \in Int
    BY <1>1
  <2>3. b \in LoopSet
    BY <1>2, <2>2 DEF LoopSet
  <2>4. /\ b.start = a.start /\ b.from = a.from /\ b.left = a.left
        /\ b.ptr = a.ptr + files[f].length /\ b.part = NoPart
    BY DEF LoopSet
  <2> HIDE DEF b
  <2> QED BY <1>4, <2>1, <2>3, <2>4
<1> QED BY <1>3, <1>4

\* The loop is defined: from its start, turn by turn.
LEMMA LoopIs ==
    ASSUME Laid(files), NEW start \in Int, NEW n \in Int
    PROVE  /\ Loop(start, n)[0] = LoopStart(start, n)
           /\ \A f \in Files :
                 /\ Loop(start, n)[f - 1] \in LoopSet
                 /\ Loop(start, n)[f] = Turn(Loop(start, n)[f - 1], f)
<1> DEFINE m == Len(files)
           F == [x \in LoopSet \X (1 .. m) |-> Turn(x[1], x[2])]
           Is(g) == g = [f \in 0 .. m |->
                           IF f = 0
                           THEN [start |-> start, from |-> 0, left |-> n,
                                 ptr |-> 0, part |-> NoPart]
                           ELSE Turn(g[f - 1], f)]
<1>1. m \in Nat /\ Files = 1 .. m
  BY Layout
<1>2. LoopStart(start, n) \in LoopSet
  BY DEF LoopStart, LoopSet, NoPart, PartSet
<1>3. F \in [LoopSet \X (1 .. m) -> LoopSet]
  <2>1. ASSUME NEW x \in LoopSet \X (1 .. m)
        PROVE  Turn(x[1], x[2]) \in LoopSet
    BY <1>1, TurnIs
  <2> QED BY <2>1
<1>4. PICK g : Recurs(g, m, LoopSet, LoopStart(start, n), F)
  <2> HIDE DEF F, m
  <2> QED BY <1>1, <1>2, <1>3, Recursion
<1>5. ASSUME NEW k \in 0 .. m
      PROVE  g[k] = IF k = 0 THEN LoopStart(start, n) ELSE Turn(g[k - 1], k)
  <2>1. CASE k = 0
    BY <1>4, <2>1 DEF Recurs
  <2>2. CASE k # 0
    <3>1. k \in 1 .. m /\ k - 1 \in 0 .. m
      BY <1>1, <2>2
    <3>2. g[k - 1] \in LoopSet
      BY <1>4, <3>1 DEF Recurs
    <3>3. F[<<g[k - 1], k>>] = Turn(g[k - 1], k)
      BY <3>1, <3>2
    <3> HIDE DEF F
    <3> QED BY <1>4, <2>2, <3>3 DEF Recurs
  <2> QED BY <2>1, <2>2
<1>6. Is(g)
  <2>1. g \in [0 .. m -> LoopSet]
    BY <1>4 DEF Recurs
  <2> HIDE DEF F, m
  <2> QED BY <1>5, <2>1 DEF LoopStart
<1>7. Is(Loop(start, n))
  <2>1. Loop(start, n) = CHOOSE h : Is(h)
    BY DEF Loop
  <2> HIDE DEF Is
  <2> QED BY <1>6, <2>1
<1>8. \A k \in 0 .. m :
         Loop(start, n)[k] = IF k = 0 THEN LoopStart(start, n)
                             ELSE Turn(Loop(start, n)[k - 1], k)
  BY <1>7 DEF LoopStart
<1> HIDE DEF Is, F
<1> DEFINE P == {k \in 0 .. m : Loop(start, n)[k] \in LoopSet}
<1>9. P = 0 .. m
  <2>1. 0 \in P
    BY <1>1, <1>2, <1>8
  <2>2. ASSUME NEW k \in 1 .. m, k - 1 \in P PROVE k \in P
    <3>1. k \in Files /\ k \in 0 .. m /\ k # 0 /\ Loop(start, n)[k - 1] \in LoopSet
      BY <1>1, <2>2
    <3>2. Loop(start, n)[k] = Turn(Loop(start, n)[k - 1], k)
      BY <1>8, <3>1
    <3> QED BY <3>1, <3>2, TurnIs
  <2>3. P \subseteq 0 .. m
    OBVIOUS
  <2> HIDE DEF P, m
  <2> QED BY <1>1, <2>1, <2>2, <2>3, Induct
<1>10. ASSUME NEW f \in Files
       PROVE  /\ Loop(start, n)[f - 1] \in LoopSet
              /\ Loop(start, n)[f] = Turn(Loop(start, n)[f - 1], f)
  <2>1. f \in 0 .. m /\ f # 0 /\ f - 1 \in 0 .. m
    BY <1>1
  <2> QED BY <1>8, <1>9, <2>1
<1> QED BY <1>1, <1>8, <1>10

(* What holds of the loop after file f: what is left begins where the loop *)
(* is, or all has been placed; only what lies before has been placed.      *)
LoopInv(a, f, start, n) ==
    /\ a \in LoopSet
    /\ a.ptr = Behind(f)
    /\ a.from \in 0 .. n /\ a.left = n - a.from /\ a.start = start + a.from
    /\ a.from = n \/ a.start >= a.ptr
    /\ a.from > 0 => a.start <= a.ptr

(* c is the part of the n bytes at start that lies in file f: all of them  *)
(* and only them, at their place.                                          *)
IsPart(c, f, start, n) ==
    /\ c \in [offset : Nat, from : Nat, len : Nat]
    /\ c.len > 0 => /\ files[f].offset + c.offset = start + c.from
                    /\ c.from + c.len <= n
                    /\ ~single \/ start + n <= Total =>
                          c.offset + c.len <= files[f].length
    /\ \A k \in 0 .. n - 1 :
          start + k \in files[f].offset .. Behind(f) - 1
             => k \in c.from .. c.from + c.len - 1

\* A turn keeps what holds of the loop, and finds the part.
LEMMA TurnInv ==
    ASSUME Laid(files), NEW f \in Files, NEW start \in Nat, NEW n \in Nat,
           NEW a, LoopInv(a, f - 1, start, n)
    PROVE  /\ LoopInv(Turn(a, f), f, start, n)
           /\ IsPart(Turn(a, f).part, f, start, n)
           /\ Turn(a, f).from = a.from + Turn(a, f).part.len
<1> DEFINE b == Turn(a, f)
<1>1. /\ a \in LoopSet /\ a.ptr = Behind(f - 1)
      /\ a.from \in 0 .. n /\ a.left = n - a.from /\ a.start = start + a.from
      /\ a.from = n \/ a.start >= a.ptr
      /\ a.from > 0 => a.start <= a.ptr
  BY DEF LoopInv
<1>2. /\ files[f].offset \in Nat /\ files[f].length \in Nat
      /\ a.ptr = files[f].offset
      /\ Behind(f) = files[f].offset + files[f].length
  BY <1>1, Layout, BehindStep
<1>3. b \in LoopSet /\ b.ptr = a.ptr + files[f].length
  BY <1>1, TurnIs
<1>4. CASE Hits(a, f)
  <2>1. /\ a.left > 0 /\ a.start < a.ptr + files[f].length
        /\ a.start >= a.ptr
    BY <1>1, <1>2, <1>4 DEF Hits
  <2> DEFINE rest == files[f].length - (a.start - a.ptr)
             len == IF rest <= a.left THEN rest ELSE a.left
  <2>2. /\ b.start = a.start + len /\ b.from = a.from + len
        /\ b.left = a.left - len
        /\ b.part.offset = a.start - a.ptr /\ b.part.from = a.from
        /\ b.part.len = len
    BY <1>1, <1>4, TurnIs
  <2>3. /\ rest \in Nat \ {0} /\ len \in Nat \ {0}
        /\ len <= rest /\ len <= a.left /\ (len = rest \/ len = a.left)
    BY <1>1, <1>2, <2>1
  <2> HIDE DEF b, len
  <2>4. LoopInv(b, f, start, n)
    BY <1>1, <1>2, <1>3, <2>1, <2>2, <2>3 DEF LoopInv
  <2>5. b.part \in [offset : Nat, from : Nat, len : Nat]
    <3>1. b.part \in PartSet
      BY <1>3 DEF LoopSet
    <3>2. b.part.offset \in Nat /\ b.part.from \in Nat /\ b.part.len \in Nat
      BY <1>1, <1>2, <2>1, <2>2, <2>3
    <3> QED BY <3>1, <3>2 DEF PartSet
  <2>6. /\ files[f].offset + b.part.offset = start + b.part.from
        /\ b.part.offset + b.part.len <= files[f].length
        /\ b.part.from + b.part.len <= n
    BY <1>1, <1>2, <2>1, <2>2, <2>3
  <2>7. ASSUME NEW k \in 0 .. n - 1,
               start + k \in files[f].offset .. Behind(f) - 1
        PROVE  k \in b.part.from .. b.part.from + b.part.len - 1
    <3>1. k >= a.from
      BY <1>1, <1>2, <2>7
    <3>2. k < a.from + len
      BY <1>1, <1>2, <2>3, <2>7
    <3> QED BY <1>1, <2>2, <2>3, <2>7, <3>1, <3>2
  <2>8. IsPart(b.part, f, start, n)
    BY <2>5, <2>6, <2>7 DEF IsPart
  <2>9. b.from = a.from + b.part.len
    BY <2>2
  <2> QED BY <2>4, <2>8, <2>9 DEF b
<1>5. CASE ~Hits(a, f)
  <2>1. /\ b.start = a.start /\ b.from = a.from /\ b.left = a.left
        /\ b.part = NoPart
    BY <1>1, <1>5, TurnIs
  <2>2. /\ b.part.offset = 0 /\ b.part.from = 0 /\ b.part.len = 0
        /\ b.part \in [offset : Nat, from : Nat, len : Nat]
    BY <2>1 DEF NoPart
  <2>3. a.left <= 0 \/ a.start >= a.ptr + files[f].length
    BY <1>1, <1>2, <1>5 DEF Hits
  <2> HIDE DEF b
  <2>4. LoopInv(b, f, start, n)
    BY <1>1, <1>2, <1>3, <2>1, <2>3 DEF LoopInv
  <2>5. ASSUME NEW k \in 0 .. n - 1,
               start + k \in files[f].offset .. Behind(f) - 1
        PROVE  FALSE
    <3>1. CASE a.from = n
      BY <1>1, <1>2, <2>5, <3>1
    <3>2. CASE a.from # n
      BY <1>1, <1>2, <2>3, <2>5, <3>2
    <3> QED BY <3>1, <3>2
  <2>6. IsPart(b.part, f, start, n)
    BY <2>2, <2>5 DEF IsPart
  <2>7. b.from = a.from + b.part.len
    BY <1>1, <2>1, <2>2
  <2> QED BY <2>4, <2>6, <2>7 DEF b
<1> QED BY <1>4, <1>5

\* What the loop has after every file.
LEMMA LoopKeeps ==
    ASSUME Laid(files), NEW start \in Nat, NEW n \in Nat
    PROVE  \A f \in 0 .. Len(files) : LoopInv(Loop(start, n)[f], f, start, n)
<1> DEFINE m == Len(files)
           P == {f \in 0 .. m : LoopInv(Loop(start, n)[f], f, start, n)}
<1>1. m \in Nat /\ Files = 1 .. m
  BY Layout
<1>2. LoopInv(Loop(start, n)[0], 0, start, n)
  <2>1. Loop(start, n)[0] = LoopStart(start, n)
    BY LoopIs
  <2>2. LoopInv(LoopStart(start, n), 0, start, n)
    BY DEF LoopInv, LoopStart, LoopSet, PartSet, NoPart, Behind
  <2> QED BY <2>1, <2>2
<1>3. ASSUME NEW f \in 1 .. m, LoopInv(Loop(start, n)[f - 1], f - 1, start, n)
      PROVE  LoopInv(Loop(start, n)[f], f, start, n)
  <2>1. f \in Files /\ Loop(start, n)[f] = Turn(Loop(start, n)[f - 1], f)
    BY <1>1, LoopIs
  <2> QED BY <1>3, <2>1, TurnInv
<1>4. P = 0 .. m
  <2>1. /\ P \subseteq 0 .. m /\ 0 \in P
        /\ \A k \in 1 .. m : k - 1 \in P => k \in P
    BY <1>1, <1>2, <1>3
  <2> HIDE DEF P, m
  <2> QED BY <1>1, <2>1, Induct
<1> QED BY <1>4

\* The loop finds in each file the part of the buffer that lies there.
LEMMA LoopPart ==
    ASSUME Laid(files), NEW start \in Nat, NEW n \in Nat, NEW f \in Files
    PROVE  /\ IsPart(Loop(start, n)[f].part, f, start, n)
           /\ Loop(start, n)[f].from =
                 Loop(start, n)[f - 1].from + Loop(start, n)[f].part.len
<1>1. /\ f - 1 \in 0 .. Len(files)
      /\ Loop(start, n)[f] = Turn(Loop(start, n)[f - 1], f)
  BY Layout, LoopIs
<1>2. LoopInv(Loop(start, n)[f - 1], f - 1, start, n)
  BY <1>1, LoopKeeps
<1> QED BY <1>1, <1>2, TurnInv

-----------------------------------------------------------------------------
(* The invariant.                                                          *)

\* The shape of the variables; what was written at a position is its byte
\* or a corrupted one.
FilesTyped ==
    /\ Laid(files)
    /\ single \in BOOLEAN /\ (single => Len(files) = 1)
    /\ open \in BOOLEAN
    /\ data \in [Files -> Seq(Int)]
    /\ complete \in SUBSET Pieces
    /\ content \in [0 .. Total - 1 -> Int]
    /\ \A k \in 0 .. Total - 1 : content[k] \in {Hole, Bad, k}

\* The positions of the bytes of a slice; whether they were written.
InSlice(i, s) ==
    i * PieceLength + s[1] .. i * PieceLength + s[1] + s[2] - 1

SliceFilled(i, s) == \A k \in InSlice(i, s) : content[k] # Hole

\* What counts, in the session or in its state file, was written.
Backed ==
    /\ received = [i \in Pieces |-> received[i]]
    /\ saved.complete \subseteq Pieces
    /\ \A i \in complete \cup saved.complete : Filled(i)
    /\ \A i \in Pieces : \A s \in received[i] \cup saved.received[i] :
          s \in Slices(i) /\ SliceFilled(i, s)

FilesInv == FilesTyped /\ InPlace /\ Backed

\* The parts of a buffer, whether there is one file or several.
LEMMA PartsAre ==
    ASSUME FilesTyped, NEW start \in Nat, NEW n \in Nat, NEW f \in Files
    PROVE  IsPart(Parts(start, n)[f], f, start, n)
<1>1. /\ Laid(files) /\ single \in BOOLEAN /\ (single => Len(files) = 1)
  BY DEF FilesTyped
<1>2. CASE ~single
  <2>1. Parts(start, n)[f] = Loop(start, n)[f].part
    BY <1>2 DEF Parts
  <2> QED BY <1>1, <2>1, LoopPart
<1>3. CASE single
  <2> DEFINE c == [offset |-> start, from |-> 0, len |-> n]
  <2>1. Parts(start, n)[f] = c
    BY <1>3 DEF Parts
  <2>2. f = 1 /\ files[f].offset = 0 /\ Behind(f) = Total
    BY <1>1, <1>3, Layout DEF Laid, Behind, Total
  <2>3. files[f].length \in Nat /\ Total = files[f].length /\ Total \in Nat
    BY <1>1, <2>2, Layout, BehindStep
  <2>4. /\ c \in [offset : Nat, from : Nat, len : Nat]
        /\ c.offset = start /\ c.from = 0 /\ c.len = n
    OBVIOUS
  <2> HIDE DEF c
  <2> QED BY <1>3, <2>1, <2>2, <2>3, <2>4 DEF IsPart
<1> QED BY <1>1, <1>2, <1>3

\* The bytes of a piece lie in the torrent.
LEMMA PieceBounds ==
    ASSUME Laid(files), NEW i \in Pieces
    PROVE  /\ i \in Nat /\ i * PieceLength \in Nat
           /\ LengthOf(i) \in Nat \ {0} /\ LengthOf(i) <= PieceLength
           /\ i * PieceLength + LengthOf(i) <= Total
           /\ LengthOf(i) = PieceLength
                 \/ i * PieceLength + LengthOf(i) = Total
<1>1. PieceLength \in Nat \ {0} /\ Total \in Nat \ {0}
  BY FileAssumption, Layout
<1>2. /\ (Total - 1) \div PieceLength \in Nat
      /\ ((Total - 1) \div PieceLength) * PieceLength <= Total - 1
  BY <1>1
<1>3. i \in Nat /\ i <= (Total - 1) \div PieceLength
  BY <1>2 DEF Pieces
<1>4. i * PieceLength \in Nat /\ i * PieceLength <= Total - 1
  BY <1>1, <1>2, <1>3
<1>5. LengthOf(i) = IF PieceLength <= Total - i * PieceLength
                    THEN PieceLength ELSE Total - i * PieceLength
  BY <1>1, <1>4, MinOfTwo DEF LengthOf
<1> QED BY <1>1, <1>3, <1>4, <1>5

\* A slice lies in its piece.
LEMMA SliceBounds ==
    ASSUME Laid(files), NEW i \in Pieces, NEW s \in Slices(i)
    PROVE  /\ s[1] \in Nat /\ s[2] \in Nat \ {0}
           /\ s[1] + s[2] <= LengthOf(i)
<1>1. LengthOf(i) \in Nat \ {0} /\ SliceSize \in Nat \ {0}
  BY PieceBounds, FileAssumption
<1>2. PICK k \in 0 .. (LengthOf(i) - 1) \div SliceSize :
           s = <<k * SliceSize, Min({SliceSize, LengthOf(i) - k * SliceSize})>>
  BY DEF Slices
<1>3. /\ (LengthOf(i) - 1) \div SliceSize \in Nat
      /\ ((LengthOf(i) - 1) \div SliceSize) * SliceSize <= LengthOf(i) - 1
  BY <1>1
<1>4. k \in Nat /\ k * SliceSize \in Nat /\ k * SliceSize <= LengthOf(i) - 1
  BY <1>1, <1>2, <1>3
<1>5. s[2] = IF SliceSize <= LengthOf(i) - k * SliceSize
             THEN SliceSize ELSE LengthOf(i) - k * SliceSize
  BY <1>1, <1>2, <1>4, MinOfTwo
<1>6. s[1] = k * SliceSize
  BY <1>2
<1> HIDE <1>2
<1> QED BY <1>1, <1>4, <1>5, <1>6

\* Every position of a piece is in one of its slices.
LEMMA SliceOf ==
    ASSUME Laid(files), NEW i \in Pieces, NEW k \in Span(i)
    PROVE  \E s \in Slices(i) : k \in InSlice(i, s)
<1>1. PICK p \in Nat, l \in Nat, z \in Nat :
           /\ p = i * PieceLength /\ l = LengthOf(i) /\ l > 0
           /\ z = SliceSize /\ z > 0
  BY PieceBounds, FileAssumption
<1>2. PICK j \in 0 .. l - 1 : k = p + j
  <2>1. k \in p .. p + l - 1
    BY <1>1 DEF Span
  <2>2. k - p \in 0 .. l - 1 /\ k = p + (k - p)
    BY <2>1
  <2> QED BY <2>2
<1>3. PICK q \in 0 .. (l - 1) \div z : q * z <= j /\ j < q * z + z
  <2>1. PICK q \in Nat : q = j \div z /\ q * z <= j /\ j < q * z + z
    BY <1>1
  <2>2. PICK h \in Nat : h = (l - 1) \div z /\ l - 1 < h * z + z
    BY <1>1
  <2>3. q <= h
    <3>1. SUFFICES ASSUME q >= h + 1 PROVE FALSE
      BY <2>1, <2>2
    <3>2. q * z >= (h + 1) * z
      BY <1>1, <3>1
    <3>3. (h + 1) * z = h * z + z
      BY <1>1
    <3> QED BY <1>1, <2>1, <2>2, <3>2, <3>3
  <2>4. q \in 0 .. (l - 1) \div z
    BY <2>1, <2>2, <2>3
  <2> QED BY <2>1, <2>4
<1>4. PICK o \in Nat : o = q * z /\ o <= j /\ j < o + z
  BY <1>1, <1>3
<1>5. Min({z, l - o}) = IF z <= l - o THEN z ELSE l - o
  BY <1>1, <1>4, MinOfTwo
<1>6. PICK m \in Int : m = Min({z, l - o}) /\ j < o + m
  <2>1. CASE z <= l - o
    BY <1>1, <1>4, <1>5, <2>1
  <2>2. CASE ~(z <= l - o)
    BY <1>1, <1>4, <1>5, <2>2
  <2> QED BY <2>1, <2>2
<1>7. <<o, m>> \in Slices(i)
  <2>1. o \in {x * z : x \in 0 .. (l - 1) \div z}
    BY <1>3, <1>4
  <2>2. <<o, Min({z, l - o})>> \in
           {<<c, Min({z, l - c})>> : c \in {x * z : x \in 0 .. (l - 1) \div z}}
    BY <2>1, Zenon
  <2> QED BY <1>1, <1>6, <2>2 DEF Slices
<1>8. k \in p + o .. p + o + m - 1
  BY <1>2, <1>4, <1>6
<1>9. <<o, m>>[1] = o /\ <<o, m>>[2] = m
  OBVIOUS
<1>10. k \in InSlice(i, <<o, m>>)
  BY <1>1, <1>8, <1>9 DEF InSlice
<1> QED BY <1>7, <1>10

\* A piece has slices.
LEMMA SlicesNotEmpty ==
    ASSUME Laid(files), NEW i \in Pieces
    PROVE  Slices(i) # {}
<1>1. i * PieceLength \in Span(i)
  BY PieceBounds DEF Span
<1> QED BY <1>1, SliceOf

\* A piece of which every slice was written has no hole.
LEMMA FullFilled ==
    ASSUME Laid(files), NEW i \in Pieces,
           \A s \in Slices(i) : SliceFilled(i, s)
    PROVE  Filled(i)
<1>1. ASSUME NEW k \in Span(i) PROVE content[k] # Hole
  <2>1. PICK s \in Slices(i) : k \in InSlice(i, s)
    BY SliceOf
  <2> QED BY <2>1 DEF SliceFilled
<1> QED BY <1>1 DEF Filled

\* Every position is in a piece.
LEMMA PieceOf ==
    ASSUME Laid(files), NEW p \in 0 .. Total - 1
    PROVE  \E i \in Pieces :
              p \in i * PieceLength .. i * PieceLength + LengthOf(i) - 1
<1> DEFINE i == p \div PieceLength
<1>1. PieceLength \in Nat \ {0} /\ Total \in Nat \ {0} /\ p \in Nat
  BY FileAssumption, Layout
<1>2. i \in Nat /\ i * PieceLength <= p /\ p < i * PieceLength + PieceLength
  BY <1>1
<1>3. /\ (Total - 1) \div PieceLength \in Nat
      /\ Total - 1 < ((Total - 1) \div PieceLength) * PieceLength + PieceLength
  BY <1>1
<1> HIDE DEF i
<1>4. i <= (Total - 1) \div PieceLength
  <2> DEFINE q == (Total - 1) \div PieceLength
  <2>1. SUFFICES ASSUME i >= q + 1 PROVE FALSE
    BY <1>2, <1>3
  <2>2. q \in Nat /\ Total - 1 < q * PieceLength + PieceLength
    BY <1>3
  <2> HIDE DEF q
  <2>3. i * PieceLength >= (q + 1) * PieceLength
    BY <1>1, <1>2, <2>1, <2>2
  <2>4. (q + 1) * PieceLength = q * PieceLength + PieceLength
    BY <1>1, <2>2
  <2> QED BY <1>1, <1>2, <2>2, <2>3, <2>4
<1>5. i \in Pieces
  BY <1>2, <1>3, <1>4 DEF Pieces
<1>6. /\ LengthOf(i) \in Nat /\ i * PieceLength \in Nat
      /\ LengthOf(i) = PieceLength \/ i * PieceLength + LengthOf(i) = Total
  BY <1>5, PieceBounds
<1> QED BY <1>1, <1>2, <1>5, <1>6

-----------------------------------------------------------------------------
(* Writing.                                                                *)

\* A buffer of n bytes.
IsBuffer(buf, n) == buf \in Seq(Int) /\ Len(buf) = n

\* Bytes of a buffer are integers.
LEMMA BufferByte ==
    ASSUME NEW n \in Nat, NEW buf, IsBuffer(buf, n), NEW k \in 1 .. n
    PROVE  buf[k] \in Int
  BY ElementOfSeq DEF IsBuffer

\* A byte of a file of m bytes after l bytes were put at the offset.
PutByte(k, file, m, offset, bytes, l) ==
    IF k \in offset + 1 .. offset + l THEN bytes[k - offset]
    ELSE IF k <= m THEN file[k] ELSE Hole

\* d is a file of m bytes after l bytes were put at the offset.
IsPut(d, size, file, m, offset, bytes, l) ==
    /\ IsBuffer(d, size)
    /\ \A k \in 1 .. size : d[k] = PutByte(k, file, m, offset, bytes, l)

\* The bytes of a file after fwrite.
LEMMA PutIs ==
    ASSUME NEW m \in Nat, NEW file, IsBuffer(file, m), NEW offset \in Nat,
           NEW l \in Nat, NEW bytes, IsBuffer(bytes, l),
           NEW size \in Nat, m <= size, offset + l <= size,
           m = size \/ offset + l = size
    PROVE  IsPut(Put(file, offset, bytes), size, file, m, offset, bytes, l)
<1> DEFINE At(k) == PutByte(k, file, m, offset, bytes, l)
<1>2. Max({m, offset + l}) = size
  BY MaxOfTwo
<1>3. Len(file) = m /\ Len(bytes) = l
  BY DEF IsBuffer
<1>4. Put(file, offset, bytes) = [k \in 1 .. size |-> At(k)]
  BY <1>2, <1>3 DEF Put, PutByte
<1>5. ASSUME NEW k \in 1 .. size PROVE At(k) \in Int
  <2>1. CASE k \in offset + 1 .. offset + l
    <3>1. k - offset \in 1 .. l
      BY <2>1
    <3> QED BY <2>1, <3>1, BufferByte DEF PutByte
  <2>2. CASE k \notin offset + 1 .. offset + l
    <3>1. k <= m => k \in 1 .. m
      OBVIOUS
    <3> QED BY <2>2, <3>1, BufferByte DEF PutByte, Hole
  <2> QED BY <2>1, <2>2
<1> HIDE DEF At
<1>6. /\ IsBuffer([k \in 1 .. size |-> At(k)], size)
      /\ \A k \in 1 .. size : [j \in 1 .. size |-> At(j)][k] = At(k)
  <2>1. [k \in 1 .. size |-> At(k)] \in [1 .. size -> Int]
    BY <1>5
  <2> QED BY <2>1 DEF IsBuffer
<1> QED BY <1>4, <1>6 DEF At, IsPut

\* The bytes of a part of the buffer.
LEMMA BytesAre ==
    ASSUME NEW n \in Nat, NEW buf, IsBuffer(buf, n),
           NEW from \in Nat, NEW len \in Nat, len > 0, from + len <= n
    PROVE  /\ IsBuffer(SubSeq(buf, from + 1, from + len), len)
           /\ \A j \in 1 .. len :
                 SubSeq(buf, from + 1, from + len)[j] = buf[from + j]
<1>1. \A x \in from + 1 .. from + len : buf[x] \in Int
  BY DEF IsBuffer
<1>2. (from + len) - (from + 1) + 1 = len
  OBVIOUS
<1>3. \A j \in 1 .. len : (from + 1) + j - 1 = from + j
  OBVIOUS
<1>4. /\ SubSeq(buf, from + 1, from + len) \in Seq(Int)
      /\ Len(SubSeq(buf, from + 1, from + len)) = len
      /\ \A j \in 1 .. len : SubSeq(buf, from + 1, from + len)[j]
                              = buf[(from + 1) + j - 1]
  BY <1>1, <1>2, SubSeqProperties
<1> QED BY <1>3, <1>4 DEF IsBuffer

\* A file after the part c of the buffer was put in it.
FileAfter(f, c, buf) ==
    IF c.len = 0 THEN data[f]
    ELSE Put(data[f], c.offset, SubSeq(buf, c.from + 1, c.from + c.len))

\* What was written last at k after n bytes were written at start.
Now(start, n, buf, k) ==
    IF k \in start .. start + n - 1 THEN buf[k - start + 1] ELSE content[k]

\* A file that had its bytes in place has them in place after a write.
LEMMA StaysInPlace ==
    ASSUME FilesTyped, InPlace, NEW start \in Nat, NEW n \in Nat,
           NEW buf, IsBuffer(buf, n), start + n <= Total, NEW f \in Files,
           NEW c, IsPart(c, f, start, n), NEW d, d = FileAfter(f, c, buf)
    PROVE  /\ d \in Seq(Int) /\ Len(d) <= files[f].length
           /\ \A o \in 0 .. files[f].length - 1 :
                 Now(start, n, buf, files[f].offset + o) =
                    IF o < Len(d) THEN d[o + 1] ELSE Hole
<1>1. PICK off \in Nat, size \in Nat :
           /\ off = files[f].offset /\ size = files[f].length
           /\ Behind(f) = off + size
  BY Layout, BehindStep DEF FilesTyped
<1>2. PICK m \in Nat : m = Len(data[f]) /\ m <= size
  BY <1>1 DEF FilesTyped, InPlace
<1>3. IsBuffer(data[f], m)
  BY <1>2 DEF FilesTyped, IsBuffer
<1>4. \A o \in 0 .. size - 1 :
         content[off + o] = IF o < m THEN data[f][o + 1] ELSE Hole
  BY <1>1, <1>2 DEF InPlace
<1>5. PICK co \in Nat, cf \in Nat, cl \in Nat :
           /\ c.offset = co /\ c.from = cf /\ c.len = cl
           /\ cl > 0 => /\ off + co = start + cf
                        /\ cf + cl <= n /\ co + cl <= size
  BY <1>1 DEF IsPart
<1>6. \A k \in 0 .. n - 1 :
         start + k \in off .. off + size - 1 => k \in cf .. cf + cl - 1
  BY <1>1, <1>5 DEF IsPart
<1>7. ASSUME NEW o \in 0 .. size - 1, off + o \in start .. start + n - 1
      PROVE  /\ cl > 0 /\ o \in co .. co + cl - 1
             /\ off + o - start = cf + (o - co)
  <2>1. PICK k \in 0 .. n - 1 : k = off + o - start
    BY <1>7
  <2>2. start + k \in off .. off + size - 1
    BY <2>1
  <2>3. k \in cf .. cf + cl - 1
    BY <1>6, <2>2
  <2>4. cl > 0
    BY <2>3
  <2> QED BY <1>5, <2>1, <2>3, <2>4
<1>8. ASSUME NEW o \in 0 .. size - 1, off + o \notin start .. start + n - 1,
             cl > 0
      PROVE  o + 1 \notin co + 1 .. co + cl
  BY <1>5, <1>8
<1>9. CASE cl = 0
  <2>1. d = data[f]
    BY <1>5, <1>9 DEF FileAfter
  <2>2. ASSUME NEW o \in 0 .. size - 1
        PROVE  Now(start, n, buf, off + o) = content[off + o]
    <3>1. off + o \notin start .. start + n - 1
      BY <1>7, <1>9
    <3> QED BY <3>1 DEF Now
  <2> QED BY <1>1, <1>2, <1>3, <1>4, <2>1, <2>2 DEF IsBuffer
<1>10. CASE cl > 0
  <2> DEFINE bytes == SubSeq(buf, cf + 1, cf + cl)
  <2>1. /\ IsBuffer(bytes, cl)
        /\ \A j \in 1 .. cl : bytes[j] = buf[cf + j]
    <3>1. cf + cl <= n
      BY <1>5, <1>10
    <3> QED BY <3>1, <1>10, BytesAre
  <2>2. d = Put(data[f], co, bytes)
    BY <1>5, <1>10 DEF FileAfter
  <2> HIDE DEF bytes
  <2>3. PICK l \in Nat : /\ m <= l /\ co + cl <= l
                         /\ m = l \/ co + cl = l
    <3>1. CASE m >= co + cl
      BY <3>1
    <3>2. CASE ~(m >= co + cl)
      BY <3>2
    <3> QED BY <3>1, <3>2
  <2>4. /\ IsBuffer(d, l)
        /\ \A k \in 1 .. l : d[k] = PutByte(k, data[f], m, co, bytes, cl)
    <3>1. IsBuffer(bytes, cl)
      BY <2>1
    <3>2. IsPut(d, l, data[f], m, co, bytes, cl)
      BY <1>3, <2>2, <2>3, <3>1, PutIs
    <3> QED BY <3>2 DEF IsPut
  <2>6. l <= size /\ l >= m /\ l >= co + cl
    BY <1>2, <1>5, <1>10, <2>3
  <2>5. ASSUME NEW o \in 0 .. size - 1
        PROVE  Now(start, n, buf, off + o) = IF o < l THEN d[o + 1] ELSE Hole
    <3>1. CASE off + o \in start .. start + n - 1
      <4>1. /\ o \in co .. co + cl - 1
            /\ off + o - start = cf + (o - co)
        BY <1>7, <3>1
      <4>2. Now(start, n, buf, off + o) = buf[off + o - start + 1]
        BY <3>1 DEF Now
      <4>3. PICK j \in 1 .. cl : j = o + 1 - co
        BY <4>1
      <4>4. /\ o + 1 \in 1 .. l /\ o < l /\ o + 1 \in co + 1 .. co + cl
            /\ off + o - start + 1 = cf + j
        BY <2>6, <4>1, <4>3
      <4>5. d[o + 1] = bytes[j]
        BY <2>4, <4>3, <4>4 DEF PutByte
      <4>6. bytes[j] = buf[cf + j]
        BY <2>1
      <4> QED BY <4>2, <4>4, <4>5, <4>6
    <3>2. CASE off + o \notin start .. start + n - 1
      <4>1. Now(start, n, buf, off + o) =
               IF o < m THEN data[f][o + 1] ELSE Hole
        BY <1>4, <3>2 DEF Now
      <4>2. o + 1 \notin co + 1 .. co + cl
        BY <1>8, <1>10, <3>2
      <4>3. CASE o < l
        <5>1. o + 1 \in 1 .. l /\ (o + 1 <= m <=> o < m)
          BY <4>3
        <5>2. d[o + 1] = IF o + 1 <= m THEN data[f][o + 1] ELSE Hole
          BY <2>4, <4>2, <5>1 DEF PutByte
        <5> QED BY <4>1, <4>3, <5>1, <5>2
      <4>4. CASE ~(o < l)
        <5>1. ~(o < m)
          BY <2>6, <4>4
        <5> QED BY <4>1, <4>4, <5>1
      <4> QED BY <4>3, <4>4
    <3> QED BY <3>1, <3>2
  <2> QED BY <1>1, <2>4, <2>5, <2>6 DEF IsBuffer
<1>11. cl = 0 \/ cl > 0
  OBVIOUS
<1> QED BY <1>9, <1>10, <1>11

-----------------------------------------------------------------------------
(* The invariant holds.                                                    *)

\* Two pieces have no byte in common.
LEMMA PiecesApart ==
    ASSUME Laid(files), NEW i \in Pieces, NEW j \in Pieces, i # j,
           NEW p \in Int,
           p \in i * PieceLength .. i * PieceLength + LengthOf(i) - 1
    PROVE  p \notin j * PieceLength .. j * PieceLength + LengthOf(j) - 1
<1>1. PieceLength \in Nat
  BY FileAssumption
<1>2. PICK a \in Nat, b \in Nat :
           /\ i \in Nat /\ a = i * PieceLength /\ LengthOf(i) \in Nat
           /\ j \in Nat /\ b = j * PieceLength /\ LengthOf(j) \in Nat
           /\ LengthOf(i) <= PieceLength /\ LengthOf(j) <= PieceLength
  BY PieceBounds
<1>3. a + PieceLength <= b \/ b + PieceLength <= a
  <2>1. CASE i < j
    <3>1. (i + 1) * PieceLength <= j * PieceLength
      BY <1>1, <1>2, <2>1
    <3>2. (i + 1) * PieceLength = i * PieceLength + PieceLength
      BY <1>1, <1>2
    <3> QED BY <1>2, <3>1, <3>2
  <2>2. CASE j < i
    <3>1. (j + 1) * PieceLength <= i * PieceLength
      BY <1>1, <1>2, <2>2
    <3>2. (j + 1) * PieceLength = j * PieceLength + PieceLength
      BY <1>1, <1>2
    <3> QED BY <1>2, <3>1, <3>2
  <2> QED BY <1>2, <2>1, <2>2
<1> QED BY <1>1, <1>2, <1>3

\* What SaveSlice writes, and where.
LEMMA SaveSliceIs ==
    ASSUME FilesInv, NEW i \in Pieces, NEW s \in Slices(i),
           NEW right \in BOOLEAN, SaveSlice(i, s, right)
    PROVE  \E start \in Nat, n \in Nat, buf \in Seq(Int) :
              /\ start = i * PieceLength + s[1] /\ n = s[2]
              /\ start >= i * PieceLength
              /\ start + n <= i * PieceLength + LengthOf(i)
              /\ start + n <= Total
              /\ IsBuffer(buf, n)
              /\ \A k \in 1 .. n : buf[k] \in {start + k - 1, Bad}
              /\ data' = [f \in Files |-> FileAfter(f, Parts(start, n)[f], buf)]
              /\ content' = [k \in 0 .. Total - 1 |-> Now(start, n, buf, k)]
<1>1. PICK p \in Nat, l \in Nat :
           /\ p = i * PieceLength /\ l = LengthOf(i) /\ p + l <= Total
  BY PieceBounds DEF FilesInv, FilesTyped
<1>2. PICK s1 \in Nat, n \in Nat : s1 = s[1] /\ n = s[2] /\ s1 + n <= l
  BY <1>1, SliceBounds DEF FilesInv, FilesTyped
<1>3. Total \in Nat
  BY Layout DEF FilesInv, FilesTyped
<1>4. PICK start \in Nat : start = p + s1
  OBVIOUS
<1> DEFINE buf == [k \in 1 .. n |-> IF right THEN p + s1 + (k - 1) ELSE Bad]
<1>5. IsBuffer(buf, n)
  <2>1. buf \in [1 .. n -> Int]
    BY DEF Bad
  <2> HIDE DEF buf
  <2> QED BY <2>1 DEF IsBuffer
<1>6. ASSUME NEW k \in 1 .. n PROVE buf[k] \in {start + k - 1, Bad}
  BY <1>4
<1>7. data' = [f \in Files |-> FileAfter(f, Parts(start, n)[f], buf)]
  <2>1. Len(buf) = n
    BY <1>5 DEF IsBuffer
  <2>2. Write(i, buf, s1)
    BY <1>1, <1>2 DEF SaveSlice
  <2> HIDE DEF buf
  <2> QED BY <1>1, <1>4, <2>1, <2>2 DEF Write, FileAfter
<1>8. content' = [k \in 0 .. Total - 1 |-> Now(start, n, buf, k)]
  <2>1. DOMAIN content = 0 .. Total - 1
    BY DEF FilesInv, FilesTyped
  <2>2. content' = [k \in DOMAIN content |->
                       IF k \in p + s1 + 0 .. p + s1 + (n - 1)
                       THEN buf[k - (p + s1 + 0) + 1] ELSE content[k]]
    BY <1>1, <1>2 DEF SaveSlice
  <2>3. /\ p + s1 + 0 = start /\ p + s1 + (n - 1) = start + n - 1
    BY <1>4
  <2> HIDE DEF buf
  <2> QED BY <2>1, <2>2, <2>3 DEF Now
<1>9. /\ start = i * PieceLength + s[1] /\ n = s[2]
      /\ start >= i * PieceLength
      /\ start + n <= i * PieceLength + LengthOf(i)
      /\ start + n <= Total
  BY <1>1, <1>2, <1>3, <1>4
<1>10. buf \in Seq(Int)
  BY <1>5 DEF IsBuffer
<1> HIDE DEF buf
<1> QED BY <1>5, <1>6, <1>7, <1>8, <1>9, <1>10

\* A slice that is saved leaves every byte of the torrent in its place.
LEMMA SaveSliceKeeps ==
    ASSUME FilesInv, NEW i \in Pieces, NEW s \in Slices(i),
           NEW right \in BOOLEAN, SaveSlice(i, s, right)
    PROVE  FilesInv'
<1>1. PICK start \in Nat, n \in Nat, buf \in Seq(Int) :
           /\ start = i * PieceLength + s[1] /\ n = s[2]
           /\ start >= i * PieceLength
           /\ start + n <= i * PieceLength + LengthOf(i)
           /\ start + n <= Total
           /\ IsBuffer(buf, n)
           /\ \A k \in 1 .. n : buf[k] \in {start + k - 1, Bad}
           /\ data' = [f \in Files |-> FileAfter(f, Parts(start, n)[f], buf)]
           /\ content' = [k \in 0 .. Total - 1 |-> Now(start, n, buf, k)]
  BY SaveSliceIs
<1>2. /\ UNCHANGED <<files, single, open, complete, saved>>
      /\ i \notin complete
      /\ received' = [received EXCEPT ![i] = @ \cup {s}]
  BY DEF SaveSlice
<1>3. /\ Files' = Files /\ Total' = Total /\ Pieces' = Pieces
      /\ \A j : LengthOf(j)' = LengthOf(j)
  BY <1>2 DEF Files, Total, Pieces, LengthOf
<1>4. FilesTyped /\ InPlace /\ Backed /\ Laid(files)
  BY DEF FilesInv, FilesTyped
<1>5. ASSUME NEW f \in Files
      PROVE  /\ data'[f] \in Seq(Int) /\ Len(data'[f]) <= files[f].length
             /\ \A o \in 0 .. files[f].length - 1 :
                   Now(start, n, buf, files[f].offset + o) =
                      IF o < Len(data'[f]) THEN data'[f][o + 1] ELSE Hole
  <2>1. data'[f] = FileAfter(f, Parts(start, n)[f], buf)
    BY <1>1
  <2>2. IsPart(Parts(start, n)[f], f, start, n)
    BY <1>4, PartsAre
  <2>3. start + n <= Total /\ IsBuffer(buf, n)
    BY <1>1
  <2> QED BY <1>4, <2>1, <2>2, <2>3, StaysInPlace
<1>6. InPlace'
  <2>1. ASSUME NEW f \in Files, NEW o \in 0 .. files[f].length - 1
        PROVE  content'[files[f].offset + o]
                  = Now(start, n, buf, files[f].offset + o)
    <3>1. /\ files[f].offset \in Nat /\ files[f].length \in Nat
          /\ Total \in Nat
          /\ files[f].offset + files[f].length <= Total
      BY <1>4, Layout, InsideTotal
    <3>2. files[f].offset + o \in 0 .. Total - 1
      BY <3>1
    <3>3. \A k \in 0 .. Total - 1 : content'[k] = Now(start, n, buf, k)
      BY <1>1
    <3> QED BY <3>2, <3>3
  <2>2. ASSUME NEW f \in Files, NEW o \in 0 .. files[f].length - 1
        PROVE  content'[files[f].offset + o] =
                  IF o < Len(data'[f]) THEN data'[f][o + 1] ELSE Hole
    BY <1>5, <2>1
  <2>3. ASSUME NEW f \in Files PROVE Len(data'[f]) <= files[f].length
    BY <1>5
  <2>4. files' = files /\ Files' = Files
    BY <1>2, <1>3
  <2> QED BY <2>2, <2>3, <2>4 DEF InPlace
<1>7. ASSUME NEW k \in 0 .. Total - 1
      PROVE  content'[k] \in {Hole, Bad, k}
  <2>1. content'[k] = Now(start, n, buf, k)
    BY <1>1
  <2>2. CASE k \in start .. start + n - 1
    <3>1. PICK j \in 1 .. n : j = k - start + 1
      BY <2>2
    <3>2. buf[j] \in {start + j - 1, Bad} /\ start + j - 1 = k
      BY <1>1, <3>1
    <3> QED BY <2>1, <2>2, <3>1, <3>2 DEF Now
  <2>3. CASE k \notin start .. start + n - 1
    BY <1>4, <2>1, <2>3 DEF Now, FilesTyped
  <2> QED BY <2>2, <2>3
<1>8. FilesTyped'
  <2>1. data' \in [Files -> Seq(Int)]
    BY <1>1, <1>5
  <2>2. content' \in [0 .. Total - 1 -> Int]
    <3>1. \A k \in 0 .. Total - 1 : content'[k] \in Int
      BY <1>7 DEF Hole, Bad
    <3>2. content' = [k \in 0 .. Total - 1 |-> content'[k]]
      BY <1>1
    <3> HIDE <1>1
    <3> QED BY <3>1, <3>2
  <2> QED BY <1>2, <1>3, <1>4, <1>7, <2>1, <2>2 DEF FilesTyped
<1>9. ASSUME NEW k \in 0 .. Total - 1, content[k] # Hole
      PROVE  content'[k] # Hole
  <2>1. content'[k] = Now(start, n, buf, k)
    BY <1>1
  <2>2. CASE k \in start .. start + n - 1
    <3>1. PICK j \in 1 .. n : j = k - start + 1
      BY <2>2
    <3>2. buf[j] \in {start + j - 1, Bad} /\ start + j - 1 = k
      BY <1>1, <3>1
    <3> QED BY <2>1, <2>2, <3>1, <3>2 DEF Now, Hole, Bad
  <2>3. CASE k \notin start .. start + n - 1
    BY <1>9, <2>1, <2>3 DEF Now
  <2> QED BY <2>2, <2>3
<1>10. ASSUME NEW j \in Pieces, NEW k \in Span(j) PROVE k \in 0 .. Total - 1
  <2>1. PICK p \in Nat, l \in Nat, t \in Nat :
             /\ p = j * PieceLength /\ l = LengthOf(j) /\ t = Total
             /\ p + l <= t
    BY <1>4, PieceBounds, Layout
  <2> QED BY <2>1 DEF Span
<1>11. ASSUME NEW j \in Pieces, NEW x \in Slices(j), NEW k \in InSlice(j, x)
       PROVE  k \in 0 .. Total - 1 /\ k \in Nat
  <2>1. PICK p \in Nat, l \in Nat, t \in Nat :
             /\ p = j * PieceLength /\ l = LengthOf(j) /\ t = Total
             /\ p + l <= t
    BY <1>4, PieceBounds, Layout
  <2>2. PICK x1 \in Nat, x2 \in Nat : x1 = x[1] /\ x2 = x[2] /\ x1 + x2 <= l
    BY <1>4, <2>1, SliceBounds
  <2>3. k \in p + x1 .. p + x1 + x2 - 1
    BY <2>1, <2>2 DEF InSlice
  <2>4. p + x1 + x2 <= t
    <3>1. p + l <= t
      BY <2>1
    <3>2. x1 + x2 <= l
      BY <2>2
    <3> QED BY <3>1, <3>2
  <2>5. k \in 0 .. t - 1 /\ k \in Nat
    BY <2>3, <2>4
  <2> QED BY <2>1, <2>5
<1>12. SliceFilled(i, s)'
  <2>1. ASSUME NEW k \in InSlice(i, s) PROVE content'[k] # Hole
    <3>1. k \in 0 .. Total - 1 /\ k \in start .. start + n - 1
      BY <1>1, <1>11 DEF InSlice
    <3>2. content'[k] = Now(start, n, buf, k)
      BY <1>1, <3>1
    <3>3. PICK j \in 1 .. n : j = k - start + 1
      BY <3>1
    <3>4. buf[j] \in {start + j - 1, Bad} /\ start + j - 1 = k
      <4>1. start + j - 1 = k
        BY <1>11, <3>3
      <4> QED BY <1>1, <4>1
    <3>5. k >= 0
      BY <3>1
    <3> QED BY <3>1, <3>2, <3>3, <3>4, <3>5 DEF Now, Hole, Bad
  <2> QED BY <2>1 DEF SliceFilled, InSlice
<1>13. ASSUME NEW j \in complete \cup saved.complete PROVE Filled(j)'
  <2>1. j \in Pieces /\ Filled(j)
    BY <1>4 DEF FilesTyped, Backed
  <2>2. Span(j)' = Span(j)
    BY <1>3 DEF Span
  <2> QED BY <1>9, <1>10, <2>1, <2>2 DEF Filled
<1>14. ASSUME NEW j \in Pieces, NEW x \in received'[j] \cup saved.received[j]
       PROVE  x \in Slices(j) /\ SliceFilled(j, x)'
  <2>1. \/ x \in received[j] \cup saved.received[j]
        \/ j = i /\ x = s
    <3>1. received = [y \in Pieces |-> received[y]]
      BY <1>4 DEF Backed
    <3>2. CASE j = i
      <4>1. received'[j] = received[j] \cup {s}
        BY <1>2, <3>1, <3>2, Zenon
      <4> QED BY <1>14, <3>2, <4>1
    <3>3. CASE j # i
      <4>1. received'[j] = received[j]
        BY <1>2, <3>1, <3>3, Zenon
      <4> QED BY <1>14, <4>1
    <3> QED BY <3>2, <3>3
  <2>2. CASE x \in received[j] \cup saved.received[j]
    <3>1. x \in Slices(j) /\ SliceFilled(j, x)
      BY <1>4, <2>2 DEF Backed
    <3>2. \A k \in InSlice(j, x) : content'[k] # Hole
      BY <1>9, <1>11, <3>1 DEF SliceFilled
    <3> QED BY <3>1, <3>2 DEF SliceFilled, InSlice
  <2>3. CASE j = i /\ x = s
    BY <1>12, <2>3
  <2> QED BY <2>1, <2>2, <2>3
<1>15. received' = [j \in Pieces |-> received'[j]]
  BY <1>2, <1>4 DEF Backed
<1>16. \A j : Slices(j)' = Slices(j)
  BY <1>3 DEF Slices
<1>17. Backed'
  <2>1. saved.complete \subseteq Pieces
    BY <1>4 DEF Backed
  <2> QED BY <1>2, <1>3, <1>13, <1>14, <1>15, <1>16, <2>1 DEF Backed
<1> QED BY <1>6, <1>8, <1>17 DEF FilesInv

\* It leaves the other pieces as they were.
LEMMA SaveSliceLeaves ==
    ASSUME FilesInv, NEW i \in Pieces, NEW s \in Slices(i),
           NEW right \in BOOLEAN, SaveSlice(i, s, right),
           NEW j \in Pieces, j # i, NEW k \in Span(j)
    PROVE  content'[k] = content[k]
<1>1. PICK start \in Nat, n \in Nat, buf \in Seq(Int) :
           /\ start >= i * PieceLength
           /\ start + n <= i * PieceLength + LengthOf(i)
           /\ content' = [x \in 0 .. Total - 1 |-> Now(start, n, buf, x)]
  <2> HIDE DEF SaveSlice
  <2> QED BY SaveSliceIs
<1>2. Laid(files)
  BY DEF FilesInv, FilesTyped
<1>3. /\ j * PieceLength \in Nat /\ LengthOf(j) \in Nat
      /\ j * PieceLength + LengthOf(j) <= Total /\ Total \in Nat
      /\ i * PieceLength \in Nat /\ LengthOf(i) \in Nat
  BY <1>2, PieceBounds, Layout
<1>4. k \in 0 .. Total - 1 /\ k \in Int
  BY <1>3 DEF Span
<1>5. k \notin i * PieceLength .. i * PieceLength + LengthOf(i) - 1
  BY <1>2, <1>4, PiecesApart DEF Span
<1>6. k \notin start .. start + n - 1
  <2>1. PICK p \in Nat, l \in Nat :
           /\ p = i * PieceLength /\ l = LengthOf(i)
           /\ start >= p /\ start + n <= p + l
    BY <1>1, <1>3
  <2> QED BY <1>4, <1>5, <2>1
<1> QED BY <1>1, <1>4, <1>6 DEF Now

-----------------------------------------------------------------------------
(* Reading.                                                                *)

\* Where ReadPiece begins to read, and how much.
ReadStart(i) == IF single THEN i * PieceLength ELSE i * ReadStride
ReadSize(n) == IF single THEN n ELSE PieceLength

\* ReadPiece reads parts of the torrent.
LEMMA ReadPartsAre ==
    ASSUME FilesTyped, NEW i \in Nat, NEW n \in Nat
    PROVE  /\ ReadParts(i, n) = Parts(ReadStart(i), ReadSize(n))
           /\ ReadStart(i) \in Nat /\ ReadSize(n) \in Nat
           /\ \A f \in Files :
                 IsPart(ReadParts(i, n)[f], f, ReadStart(i), ReadSize(n))
<1>1. PieceLength \in Nat /\ ReadStride \in Nat /\ single \in BOOLEAN
  BY FileAssumption DEF FilesTyped
<1>2. ReadStart(i) \in Nat /\ ReadSize(n) \in Nat
  BY <1>1 DEF ReadStart, ReadSize
<1>3. ReadParts(i, n) = Parts(ReadStart(i), ReadSize(n))
  BY DEF ReadParts, ReadStart, ReadSize
<1> QED BY <1>2, <1>3, PartsAre

\* What fread returns, by cases.
LEMMA FreadIs ==
    ASSUME FilesTyped, NEW f \in Files, NEW c, NEW l \in Nat, NEW o \in Nat,
           c.len = l, c.offset = o
    PROVE  /\ Fread(f, c) \in Nat /\ Fread(f, c) <= l
           /\ Len(data[f]) \in Nat
           /\ Fread(f, c) > 0 => Fread(f, c) <= Len(data[f]) - o
           /\ \/ Fread(f, c) = l
              \/ Fread(f, c) = Len(data[f]) - o
              \/ Fread(f, c) = 0 /\ Len(data[f]) <= o
<1>1. PICK m \in Nat : m = Len(data[f])
  BY DEF FilesTyped
<1>2. Min({l, m - o}) = IF l <= m - o THEN l ELSE m - o
  BY MinOfTwo
<1>3. PICK x \in Int : x = IF l <= m - o THEN l ELSE m - o
  <2>1. l \in Int /\ m - o \in Int
    OBVIOUS
  <2>2. CASE l <= m - o
    BY <2>1, <2>2
  <2>3. CASE ~(l <= m - o)
    BY <2>1, <2>3
  <2> QED BY <2>2, <2>3
<1>4. Max({0, x}) = IF 0 >= x THEN 0 ELSE x
  BY MaxOfTwo
<1>5. Fread(f, c) = Max({0, x})
  BY <1>1, <1>2, <1>3 DEF Fread
<1> QED BY <1>1, <1>3, <1>4, <1>5

\* The files that have byte k of the buffer.
HitBy(i, n, k) ==
    {f \in Files :
        k \in ReadParts(i, n)[f].from
              .. ReadParts(i, n)[f].from + Fread(f, ReadParts(i, n)[f]) - 1}

\* The byte of the buffer is the one that such a file has there.
LEMMA BufferIs ==
    ASSUME NEW i, NEW n, NEW k
    PROVE  \/ HitBy(i, n, k) = {} /\ Buffer(i, n, k) = Junk
           \/ \E f \in HitBy(i, n, k) :
                 Buffer(i, n, k) =
                    data[f][ReadParts(i, n)[f].offset + k
                               - ReadParts(i, n)[f].from + 1]
<1> DEFINE f == CHOOSE f \in HitBy(i, n, k) : TRUE
<1>1. Buffer(i, n, k) =
         IF HitBy(i, n, k) = {} THEN Junk
         ELSE data[f][ReadParts(i, n)[f].offset + k
                         - ReadParts(i, n)[f].from + 1]
  BY DEF Buffer, HitBy
<1>2. HitBy(i, n, k) # {} => f \in HitBy(i, n, k)
  OBVIOUS
<1> HIDE DEF f
<1> QED BY <1>1, <1>2

\* A byte that a file has in a part is the one written last at its position.
LEMMA ByteOfPart ==
    ASSUME FilesTyped, InPlace, NEW start \in Nat, NEW n \in Nat,
           NEW f \in Files, NEW c, IsPart(c, f, start, n),
           NEW k \in Int, k \in c.from .. c.from + Fread(f, c) - 1
    PROVE  /\ k \in 0 .. n - 1 /\ start + k \in 0 .. Total - 1
           /\ data[f][c.offset + k - c.from + 1] = content[start + k]
<1>1. PICK off \in Nat, size \in Nat :
           /\ off = files[f].offset /\ size = files[f].length
           /\ off + size <= Total /\ Total \in Nat
  BY Layout, InsideTotal DEF FilesTyped
<1>2. PICK co \in Nat, cf \in Nat, cl \in Nat :
           /\ c.offset = co /\ c.from = cf /\ c.len = cl
           /\ cl > 0 => /\ off + co = start + cf /\ cf + cl <= n
  BY <1>1 DEF IsPart
<1>3. PICK m \in Nat : m = Len(data[f]) /\ m <= size
  BY <1>1 DEF FilesTyped, InPlace
<1>4. \A o \in 0 .. size - 1 :
         content[off + o] = IF o < m THEN data[f][o + 1] ELSE Hole
  BY <1>1, <1>3 DEF InPlace
<1>5. PICK r \in Nat : /\ r = Fread(f, c) /\ r <= cl
                       /\ r > 0 => r <= m - co
  BY <1>2, <1>3, FreadIs
<1>6. /\ k \in cf .. cf + r - 1 /\ r > 0 /\ cl > 0
  BY <1>2, <1>5
<1>7. PICK o \in Nat : o = co + k - cf /\ o < m /\ o \in 0 .. size - 1
  <2>1. PICK x \in Nat : x = k - cf /\ x < r
    BY <1>6
  <2>2. co + x = co + k - cf /\ co + x < m
    BY <1>5, <1>6, <2>1
  <2> QED BY <1>3, <2>2
<1>8. off + o = start + k
  <2>1. off + co = start + cf
    BY <1>2, <1>6
  <2>2. o = co + k - cf
    BY <1>7
  <2> QED BY <2>1, <2>2
<1>9. k \in 0 .. n - 1 /\ start + k \in 0 .. Total - 1
  <2>1. k >= cf /\ k < cf + cl /\ cf + cl <= n
    BY <1>2, <1>5, <1>6
  <2>2. off + o < Total
    BY <1>1, <1>7
  <2> QED BY <1>1, <1>8, <2>1, <2>2
<1>10. content[off + o] = data[f][o + 1]
  BY <1>4, <1>7
<1>11. c.offset + k - c.from + 1 = o + 1
  BY <1>2, <1>7
<1> QED BY <1>8, <1>9, <1>10, <1>11

\* A byte of a buffer that was read is the one written last at its position.
LEMMA BufferRead ==
    ASSUME FilesTyped, InPlace, NEW i \in Nat, NEW n \in Nat, NEW k \in Int,
           Buffer(i, n, k) # Junk
    PROVE  /\ ReadStart(i) + k \in 0 .. Total - 1
           /\ Buffer(i, n, k) = content[ReadStart(i) + k]
<1>1. PICK f \in HitBy(i, n, k) :
           Buffer(i, n, k) = data[f][ReadParts(i, n)[f].offset + k
                                        - ReadParts(i, n)[f].from + 1]
  BY BufferIs
<1> DEFINE c == ReadParts(i, n)[f]
<1>2. f \in Files /\ k \in c.from .. c.from + Fread(f, c) - 1
  BY <1>1 DEF HitBy
<1>3. /\ ReadStart(i) \in Nat /\ ReadSize(n) \in Nat
      /\ IsPart(c, f, ReadStart(i), ReadSize(n))
  BY <1>2, ReadPartsAre
<1>4. Buffer(i, n, k) = data[f][c.offset + k - c.from + 1]
  BY <1>1
<1> HIDE DEF c
<1> QED BY <1>2, <1>3, <1>4, ByteOfPart

\* A byte that was written is read.
LEMMA BufferHas ==
    ASSUME FilesTyped, InPlace, NEW i \in Nat, NEW n \in Nat, NEW k \in Nat,
           k < ReadSize(n), ReadStart(i) + k < Total,
           content[ReadStart(i) + k] # Hole
    PROVE  Buffer(i, n, k) = content[ReadStart(i) + k]
<1>1. PICK start \in Nat, size \in Nat :
           /\ start = ReadStart(i) /\ size = ReadSize(n)
           /\ \A f \in Files : IsPart(ReadParts(i, n)[f], f, start, size)
  BY ReadPartsAre
<1>2. Laid(files) /\ Total \in Nat
  BY Layout DEF FilesTyped
<1>3. PICK p \in 0 .. Total - 1 : p = start + k
  BY <1>1, <1>2
<1>4. PICK f \in Files : p \in files[f].offset .. Behind(f) - 1
  BY <1>2, Covered
<1> DEFINE c == ReadParts(i, n)[f]
<1>5. PICK off \in Nat, l \in Nat :
           /\ off = files[f].offset /\ l = files[f].length
           /\ Behind(f) = off + l
  BY <1>2, Layout, BehindStep
<1>6. IsPart(c, f, start, size)
  BY <1>1
<1> HIDE DEF c
<1>7. PICK co \in Nat, cf \in Nat, cl \in Nat :
           /\ c.offset = co /\ c.from = cf /\ c.len = cl
           /\ cl > 0 => off + co = start + cf
  BY <1>5, <1>6 DEF IsPart
<1>8. k \in cf .. cf + cl - 1
  <2>1. \A x \in 0 .. size - 1 :
           start + x \in off .. off + l - 1 => x \in cf .. cf + cl - 1
    BY <1>5, <1>6, <1>7 DEF IsPart
  <2>2. k \in 0 .. size - 1 /\ start + k \in off .. off + l - 1
    BY <1>1, <1>3, <1>4, <1>5
  <2> QED BY <2>1, <2>2
<1>9. PICK o \in 0 .. l - 1 : o = p - off /\ o = co + (k - cf)
  BY <1>3, <1>4, <1>5, <1>7, <1>8
<1>10. PICK m \in Nat : m = Len(data[f]) /\ o < m
  <2>1. content[off + o] = IF o < Len(data[f]) THEN data[f][o + 1] ELSE Hole
    BY <1>5 DEF InPlace
  <2>2. off + o = ReadStart(i) + k
    BY <1>1, <1>3, <1>9
  <2>3. o < Len(data[f])
    BY <2>1, <2>2
  <2>4. Len(data[f]) \in Nat
    BY DEF FilesTyped
  <2> QED BY <2>3, <2>4
<1>11. PICK r \in Nat : /\ r = Fread(f, c)
                        /\ r = cl \/ r = m - co \/ (r = 0 /\ m <= co)
  BY <1>7, <1>10, FreadIs
<1>12. k \in cf .. cf + r - 1
  <2>1. cf <= k /\ k <= cf + cl - 1
    BY <1>8
  <2>2. co + (k - cf) < m
    BY <1>9, <1>10
  <2>3. CASE r = cl
    BY <2>1, <2>3
  <2>4. CASE r = m - co
    BY <2>1, <2>2, <2>4
  <2>5. CASE m <= co
    BY <2>1, <2>2, <2>5
  <2> QED BY <1>11, <2>3, <2>4, <2>5
<1>13. f \in HitBy(i, n, k)
  BY <1>7, <1>11, <1>12 DEF HitBy, c
<1>14. PICK g \in HitBy(i, n, k) :
           Buffer(i, n, k) = data[g][ReadParts(i, n)[g].offset + k
                                        - ReadParts(i, n)[g].from + 1]
  BY <1>13, BufferIs
<1> DEFINE d == ReadParts(i, n)[g]
<1>15. g \in Files /\ k \in d.from .. d.from + Fread(g, d) - 1
  BY <1>14 DEF HitBy
<1>16. IsPart(d, g, start, size)
  BY <1>1, <1>15
<1>17. Buffer(i, n, k) = data[g][d.offset + k - d.from + 1]
  BY <1>14
<1> HIDE DEF d
<1> QED BY <1>1, <1>15, <1>16, <1>17, ByteOfPart

-----------------------------------------------------------------------------
(* Verifying and sending.                                                  *)

\* A piece that passes its verification was written, and is where ReadPiece
\* looks for it.
LEMMA VerifiedIsWritten ==
    ASSUME FilesTyped, InPlace, NEW i \in Pieces, Verify(i)
    PROVE  Written(i) /\ (single \/ i = 0)
<1>1. PICK p \in Nat, l \in Nat :
           /\ p = i * PieceLength /\ l = LengthOf(i) /\ l > 0 /\ i \in Nat
  BY PieceBounds DEF FilesTyped
<1>2. PICK start \in Nat : start = ReadStart(i)
  BY <1>1, ReadPartsAre
<1>3. ASSUME NEW k \in 0 .. l - 1
      PROVE  start = p /\ content[p + k] = p + k
  <2>1. Buffer(i, l, k) = p + k
    BY <1>1 DEF Verify
  <2>2. Buffer(i, l, k) # Junk
    BY <2>1 DEF Junk
  <2>3. start + k \in 0 .. Total - 1 /\ content[start + k] = p + k
    BY <1>1, <1>2, <2>1, <2>2, BufferRead
  <2>4. content[start + k] \in {Hole, Bad, start + k}
    BY <2>3 DEF FilesTyped
  <2>5. start + k = p + k
    BY <2>3, <2>4 DEF Hole, Bad
  <2>6. start = p
    BY <2>5
  <2> QED BY <2>3, <2>6
<1>4. start = p
  <2>1. 0 \in 0 .. l - 1
    BY <1>1
  <2> QED BY <1>3, <2>1
<1>5. Written(i)
  <2>1. ASSUME NEW q \in p .. p + l - 1 PROVE content[q] = q
    <3>1. PICK k \in 0 .. l - 1 : q = p + k
      <4>1. q - p \in 0 .. l - 1 /\ q = p + (q - p)
        OBVIOUS
      <4> QED BY <4>1
    <3> QED BY <1>3, <3>1
  <2> QED BY <1>1, <2>1 DEF Written, Span
<1>6. single \/ i = 0
  <2>1. SUFFICES ASSUME ~single, i > 0 PROVE FALSE
    BY <1>1
  <2>2. i * ReadStride = i * PieceLength
    BY <1>1, <1>2, <1>4, <2>1 DEF ReadStart
  <2>3. PICK d \in Nat : d > 0 /\ PieceLength = ReadStride + d
    <3>1. /\ PieceLength - ReadStride \in Nat /\ PieceLength - ReadStride > 0
          /\ PieceLength = ReadStride + (PieceLength - ReadStride)
      BY FileAssumption
    <3> QED BY <3>1
  <2>4. ReadStride \in Nat
    BY FileAssumption
  <2>5. i * (ReadStride + d) = i * ReadStride + i * d
    BY <1>1, <2>3, <2>4
  <2>6. i * d = 0
    BY <1>1, <2>2, <2>3, <2>4, <2>5
  <2> QED BY <1>1, <2>1, <2>3, <2>6
<1> QED BY <1>5, <1>6

\* r counts what ReadPiece has read after each file.
Reads(r, i, n) ==
    /\ r[0] = 0
    /\ \A f \in Files : r[f] = r[f - 1] + Fread(f, ReadParts(i, n)[f])

\* What ReadPiece returns is counted file by file.
LEMMA ReadLengthIs ==
    ASSUME FilesTyped, NEW i \in Nat, NEW n \in Nat
    PROVE  \E r : Reads(r, i, n) /\ ReadLength(i, n) = r[Len(files)]
<1> DEFINE m == Len(files)
           F == [x \in Int \X (1 .. m) |->
                    x[1] + Fread(x[2], ReadParts(i, n)[x[2]])]
           Is(g) == g = [f \in 0 .. m |->
                           IF f = 0 THEN 0
                           ELSE g[f - 1] + Fread(f, ReadParts(i, n)[f])]
<1>1. m \in Nat /\ Files = 1 .. m
  BY Layout DEF FilesTyped
<1>2. ASSUME NEW f \in Files PROVE Fread(f, ReadParts(i, n)[f]) \in Nat
  <2> DEFINE c == ReadParts(i, n)[f]
  <2>1. c.len \in Nat /\ c.offset \in Nat
    BY ReadPartsAre DEF IsPart
  <2> HIDE DEF c
  <2>2. Fread(f, c) \in Nat
    BY <2>1, FreadIs
  <2> QED BY <2>2 DEF c
<1>3. F \in [Int \X (1 .. m) -> Int]
  <2>1. ASSUME NEW x \in Int \X (1 .. m)
        PROVE  x[1] + Fread(x[2], ReadParts(i, n)[x[2]]) \in Int
    <3>1. x[1] \in Int /\ x[2] \in Files
      BY <1>1
    <3> QED BY <1>2, <3>1
  <2> QED BY <2>1
<1>4. PICK g : Recurs(g, m, Int, 0, F)
  <2> DEFINE S == Int
  <2>1. 0 \in S /\ F \in [S \X (1 .. m) -> S]
    BY <1>3
  <2> HIDE DEF F, m, S
  <2>2. \E g : Recurs(g, m, S, 0, F)
    BY <1>1, <2>1, Recursion
  <2> QED BY <2>2 DEF S
<1>5. g \in [0 .. m -> Int]
  BY <1>4 DEF Recurs
<1>6. ASSUME NEW k \in 0 .. m
      PROVE  g[k] = IF k = 0 THEN 0
                    ELSE g[k - 1] + Fread(k, ReadParts(i, n)[k])
  <2>1. CASE k = 0
    BY <1>4, <2>1 DEF Recurs
  <2>2. CASE k # 0
    <3>1. k \in 1 .. m /\ g[k - 1] \in Int
      BY <1>1, <1>5, <2>2
    <3>2. F[<<g[k - 1], k>>] = g[k - 1] + Fread(k, ReadParts(i, n)[k])
      BY <3>1
    <3> HIDE DEF F
    <3> QED BY <1>4, <2>2, <3>2 DEF Recurs
  <2> QED BY <2>1, <2>2
<1>7. Is(g)
  <2> HIDE DEF F, m
  <2> QED BY <1>5, <1>6
<1> DEFINE r == CHOOSE h : Is(h)
<1>8. Is(r)
  <2> HIDE DEF Is
  <2> QED BY <1>7
<1>9. ReadLength(i, n) = r[m]
  BY DEF ReadLength
<1> HIDE DEF r
<1>10. Reads(r, i, n)
  <2>1. \A k \in 0 .. m : r[k] = IF k = 0 THEN 0
                                ELSE r[k - 1] + Fread(k, ReadParts(i, n)[k])
    BY <1>8
  <2>2. 0 \in 0 .. m
    BY <1>1
  <2>3. \A f \in Files : f \in 0 .. m /\ f # 0
    BY <1>1
  <2> HIDE DEF Is, F, m
  <2> QED BY <2>1, <2>2, <2>3 DEF Reads
<1> QED BY <1>9, <1>10

\* What fread returns of a part of which every byte was written.
LEMMA WholePart ==
    ASSUME FilesTyped, InPlace, NEW start \in Nat, NEW n \in Nat,
           single => start + n <= Total,
           NEW f \in Files, NEW c, IsPart(c, f, start, n),
           c.len > 0 => content[start + (c.from + c.len - 1)] # Hole
    PROVE  Fread(f, c) = c.len
<1>1. PICK off \in Nat, size \in Nat :
           off = files[f].offset /\ size = files[f].length
  BY Layout DEF FilesTyped
<1>2. PICK co \in Nat, cf \in Nat, cl \in Nat :
           /\ c.offset = co /\ c.from = cf /\ c.len = cl
           /\ cl > 0 => off + co = start + cf /\ co + cl <= size
  BY <1>1 DEF IsPart
<1>3. PICK m \in Nat : m = Len(data[f])
  BY DEF FilesTyped
<1>4. PICK r \in Nat : /\ r = Fread(f, c) /\ r <= cl
                       /\ r = cl \/ r = m - co \/ (r = 0 /\ m <= co)
  BY <1>2, <1>3, FreadIs
<1>5. CASE cl = 0
  BY <1>2, <1>4, <1>5
<1>6. CASE cl > 0
  <2>1. PICK o \in 0 .. size - 1 :
             o = co + cl - 1 /\ off + o = start + (cf + cl - 1)
    BY <1>2, <1>6
  <2>2. content[off + o] # Hole
    BY <1>2, <1>6, <2>1
  <2>3. content[off + o] = IF o < m THEN data[f][o + 1] ELSE Hole
    BY <1>1, <1>3 DEF InPlace
  <2>4. o < m
    BY <2>2, <2>3
  <2> QED BY <1>2, <1>3, <1>4, <1>6, <2>1, <2>4
<1>7. cl = 0 \/ cl > 0
  OBVIOUS
<1> QED BY <1>5, <1>6, <1>7

\* A piece that was written is read in its full length, where ReadPiece
\* looks for it.
LEMMA WrittenIsRead ==
    ASSUME FilesTyped, InPlace, NEW i \in Pieces, Written(i), single \/ i = 0
    PROVE  /\ ReadStart(i) = i * PieceLength
           /\ ReadLength(i, LengthOf(i)) = LengthOf(i)
<1>1. PICK p \in Nat, l \in Nat :
           /\ p = i * PieceLength /\ l = LengthOf(i) /\ l > 0 /\ i \in Nat
           /\ p + l <= Total /\ l <= PieceLength
           /\ l = PieceLength \/ p + l = Total
  BY PieceBounds DEF FilesTyped
<1>2. ReadStart(i) = p
  BY <1>1, FileAssumption DEF ReadStart
<1>3. /\ Laid(files) /\ Total \in Nat /\ PieceLength \in Nat
      /\ single \in BOOLEAN /\ (single => Len(files) = 1)
      /\ Len(files) \in Nat \ {0} /\ Files = 1 .. Len(files)
  BY FileAssumption, Layout DEF FilesTyped
<1>3a. PICK t \in Nat, q \in Nat :
           /\ t = Total /\ q = PieceLength /\ p + l <= t /\ l <= q
           /\ l = q \/ p + l = t
  BY <1>1, <1>3
<1>4. PICK n \in Nat : /\ n = ReadSize(l) /\ l <= n /\ (n = l \/ n = q)
                       /\ single => p + n <= Total
                       /\ ~single => n = PieceLength
  BY <1>3a, <1>1, <1>3 DEF ReadSize
<1>5. ReadParts(i, l) = Parts(p, n)
  BY <1>1, <1>2, <1>4, ReadPartsAre
<1> DEFINE c(f) == Parts(p, n)[f]
<1>6. ASSUME NEW f \in Files PROVE IsPart(c(f), f, p, n)
  BY <1>1, PartsAre
<1>7. \A k \in 0 .. l - 1 : content[p + k] # Hole
  <2>1. ASSUME NEW k \in 0 .. l - 1 PROVE content[p + k] # Hole
    <3>1. p + k \in p .. p + l - 1
      OBVIOUS
    <3>2. content[p + k] = p + k
      BY <1>1, <3>1 DEF Written, Span
    <3> QED BY <3>2 DEF Hole
  <2> QED BY <2>1
<1>8. ASSUME NEW f \in Files
      PROVE  Fread(f, c(f)) = c(f).len /\ c(f).len \in Nat
  <2>1. PICK off \in Nat, size \in Nat :
             /\ off = files[f].offset /\ size = files[f].length
             /\ off + size <= t
    BY <1>3a, <1>3, Layout, InsideTotal
  <2>2. PICK co \in Nat, cf \in Nat, cl \in Nat :
             /\ c(f).offset = co /\ c(f).from = cf /\ c(f).len = cl
             /\ cl > 0 => /\ off + co = p + cf /\ cf + cl <= n
                          /\ co + cl <= size
    <3> HIDE DEF c
    <3> QED BY <1>3, <1>4, <1>6, <2>1 DEF IsPart
  <2> HIDE DEF c
  <2>3. cl > 0 => cf + cl - 1 \in 0 .. l - 1
    <3>1. SUFFICES ASSUME cl > 0 PROVE cf + cl <= l
      BY <1>1, <2>2
    <3>2. p + cf + cl <= t /\ cf + cl <= n
      BY <2>1, <2>2, <3>1
    <3> QED BY <1>3a, <1>4, <3>2
  <2>4. c(f).len > 0 => content[p + (c(f).from + c(f).len - 1)] # Hole
    BY <1>7, <2>2, <2>3
  <2> QED BY <1>4, <1>6, <2>2, <2>4, WholePart
<1>9. PICK r : Reads(r, i, l) /\ ReadLength(i, l) = r[Len(files)]
  BY <1>1, ReadLengthIs
<1>10. ASSUME NEW f \in Files PROVE r[f] = r[f - 1] + c(f).len
  <2>1. ReadParts(i, l)[f] = c(f)
    BY <1>5
  <2> HIDE DEF c
  <2> QED BY <1>8, <1>9, <2>1 DEF Reads
<1>11. r[Len(files)] = l
  <2>1. CASE single
    <3>1. c(1).len = l /\ 1 \in Files /\ Len(files) = 1
      BY <1>1, <1>3, <1>4, <2>1 DEF Parts, ReadSize
    <3>2. r[0] = 0 /\ r[1] = r[1 - 1] + l
      <4> HIDE DEF c
      <4> QED BY <1>9, <1>10, <3>1 DEF Reads
    <3> QED BY <3>1, <3>2
  <2>2. CASE ~single
    <3>1. p = 0 /\ n = PieceLength
      BY <1>1, <1>4, <2>2
    <3> DEFINE m == Len(files)
               a(f) == Loop(p, n)[f]
               P == {f \in 0 .. m : r[f] = a(f).from}
    <3>2. ASSUME NEW f \in Files
          PROVE  c(f) = a(f).part /\ a(f).from = a(f - 1).from + c(f).len
      <4>1. c(f) = a(f).part
        BY <2>2 DEF Parts
      <4>2. a(f).from = a(f - 1).from + a(f).part.len
        BY <1>3, LoopPart
      <4> HIDE DEF a, c
      <4> QED BY <4>1, <4>2
    <3>3. /\ \A f \in 0 .. m : LoopInv(a(f), f, p, n)
          /\ a(0).from = 0
      <4>1. a(0) = LoopStart(p, n)
        BY <1>3, LoopIs
      <4> QED BY <1>3, <4>1, LoopKeeps DEF LoopStart
    <3> HIDE DEF a, c
    <3>4. 0 \in P
      BY <1>3, <1>9, <3>3 DEF Reads
    <3>5. ASSUME NEW f \in 1 .. m, f - 1 \in P PROVE f \in P
      BY <1>3, <1>10, <3>2, <3>5
    <3>6. P = 0 .. m
      <4>1. m \in Nat /\ P \subseteq 0 .. m
        BY <1>3
      <4> HIDE DEF P, m
      <4> QED BY <3>4, <3>5, <4>1, Induct
    <3>7. m \in 0 .. m /\ r[m] = a(m).from
      BY <1>3, <3>6
    <3>8. LoopInv(a(m), m, p, n)
      BY <3>3, <3>7
    <3>9. Behind(m) = Total
      BY <1>3 DEF Behind, Total
    <3>10. PICK x \in 0 .. n : /\ x = a(m).from
                               /\ x = n \/ p + x >= Total
                               /\ x > 0 => p + x <= Total
      BY <3>8, <3>9 DEF LoopInv
    <3>11. x = l
      BY <1>1, <1>3, <3>1, <3>10
    <3> QED BY <3>7, <3>10, <3>11
  <2> QED BY <1>3, <2>1, <2>2
<1> HIDE DEF c
<1> QED BY <1>1, <1>2, <1>9, <1>11

\* A piece that was written passes its verification.
LEMMA WrittenVerifies ==
    ASSUME FilesTyped, InPlace, NEW i \in Pieces, Written(i), single \/ i = 0
    PROVE  Verify(i)
<1>1. PICK p \in Nat, l \in Nat :
           /\ p = i * PieceLength /\ l = LengthOf(i) /\ i \in Nat
           /\ p + l <= Total /\ l <= PieceLength
  BY PieceBounds DEF FilesTyped
<1>2. ReadStart(i) = p /\ ReadLength(i, l) = l
  BY <1>1, WrittenIsRead
<1>3. Total \in Nat /\ PieceLength \in Nat /\ l <= ReadSize(l)
  BY <1>1, FileAssumption, Layout DEF FilesTyped, ReadSize
<1>4. ASSUME NEW k \in 0 .. l - 1 PROVE Buffer(i, l, k) = p + k
  <2>1. p + k \in p .. p + l - 1
    OBVIOUS
  <2>2. content[p + k] = p + k
    BY <1>1, <2>1 DEF Written, Span
  <2>3. ReadSize(l) \in Nat
    BY <1>1, ReadPartsAre
  <2>4. k \in Nat /\ k < ReadSize(l) /\ p + k < Total
    BY <1>1, <1>3, <2>3
  <2>5. content[p + k] # Hole
    BY <2>2 DEF Hole
  <2> QED BY <1>1, <1>2, <2>2, <2>4, <2>5, BufferHas
<1> QED BY <1>1, <1>2, <1>4 DEF Verify

\* A piece passes its verification exactly if its right bytes were written
\* last and it is where ReadPiece looks for it.
LEMMA VerifyIs ==
    ASSUME FilesTyped, InPlace, NEW i \in Pieces
    PROVE  Verify(i) <=> Written(i) /\ (single \/ i = 0)
  BY VerifiedIsWritten, WrittenVerifies

\* What is sent of a piece without a hole is what was written last there.
LEMMA SentAsWritten ==
    ASSUME FilesTyped, InPlace, NEW i \in Pieces, Filled(i), single \/ i = 0,
           NEW s \in Slices(i)
    PROVE  SendSlice(i, s) =
              [k \in 1 .. s[2] |-> content[i * PieceLength + s[1] + k - 1]]
<1>1. Laid(files) /\ single \in BOOLEAN
  BY DEF FilesTyped
<1>2. PICK p \in Nat, l \in Nat :
           /\ p = i * PieceLength /\ l = LengthOf(i) /\ i \in Nat
           /\ p + l <= Total /\ l <= PieceLength
  BY <1>1, PieceBounds
<1>3. PICK s1 \in Nat, s2 \in Nat : s1 = s[1] /\ s2 = s[2] /\ s1 + s2 <= l
  BY <1>1, <1>2, SliceBounds
<1>4. ReadStart(i) = p
  BY <1>2, FileAssumption DEF ReadStart
<1>5. Total \in Nat /\ PieceLength \in Nat /\ ReadSize(PieceLength) = PieceLength
  BY <1>1, FileAssumption, Layout DEF ReadSize
<1>6. ASSUME NEW k \in 1 .. s2
      PROVE  Buffer(i, PieceLength, s1 + k - 1) = content[p + s1 + k - 1]
  <2>1. PICK x \in 0 .. l - 1 : x = s1 + k - 1
    BY <1>3
  <2>2. p + x \in Span(i)
    BY <1>2 DEF Span
  <2>3. content[p + x] # Hole
    BY <2>2 DEF Filled
  <2>4. x \in Nat /\ x < ReadSize(PieceLength) /\ p + x < Total
    BY <1>2, <1>5
  <2>5. Buffer(i, PieceLength, x) = content[p + x]
    BY <1>2, <1>4, <1>5, <2>3, <2>4, BufferHas
  <2>6. p + x = p + s1 + k - 1
    BY <2>1
  <2> QED BY <2>1, <2>5, <2>6
<1> QED BY <1>2, <1>3, <1>6 DEF SendSlice

\* When every piece was written, the files have their size.
LEMMA WrittenIsComplete ==
    ASSUME FilesTyped, InPlace, \A i \in Pieces : Written(i)
    PROVE  IsComplete
<1>1. Laid(files)
  BY DEF FilesTyped
<1>2. ASSUME NEW f \in Files PROVE Len(data[f]) = files[f].length
  <2>1. PICK off \in Nat, size \in Nat, t \in Nat :
             /\ off = files[f].offset /\ size = files[f].length
             /\ t = Total /\ off + size <= t
    BY <1>1, Layout, InsideTotal
  <2>2. PICK m \in Nat : m = Len(data[f]) /\ m <= size
    BY <2>1 DEF FilesTyped, InPlace
  <2>3. CASE size = 0
    BY <2>1, <2>2, <2>3
  <2>4. CASE size # 0
    <3>1. PICK o \in 0 .. size - 1 : o = size - 1
      BY <2>4
    <3>2. PICK p \in 0 .. Total - 1 : p = off + o
      BY <2>1, <3>1
    <3>3. PICK i \in Pieces :
               p \in i * PieceLength .. i * PieceLength + LengthOf(i) - 1
      BY <1>1, PieceOf
    <3>4. content[off + o] # Hole
      BY <3>2, <3>3 DEF Written, Span, Hole
    <3>5. content[off + o] = IF o < m THEN data[f][o + 1] ELSE Hole
      BY <2>1, <2>2 DEF InPlace
    <3>6. o < m
      BY <3>4, <3>5
    <3> QED BY <2>1, <2>2, <3>1, <3>6
  <2> QED BY <2>3, <2>4
<1>3. \A f \in Files : Len(data[f]) >= files[f].length
  BY <1>1, <1>2, Layout
<1>4. 1 \in Files
  BY <1>1, Layout
<1> QED BY <1>2, <1>3, <1>4 DEF IsComplete

-----------------------------------------------------------------------------
(* The theorems.                                                           *)

\* Empty files hold a torrent of which nothing was written.
LEMMA FilesInit == Init => FilesInv
<1> SUFFICES ASSUME Init PROVE FilesInv
  OBVIOUS
<1>1. /\ Laid(files) /\ single \in BOOLEAN /\ (single => Len(files) = 1)
      /\ open = FALSE /\ complete = {} /\ received = [i \in Pieces |-> {}]
      /\ saved = [complete |-> complete, received |-> received]
      /\ data = [f \in Files |-> <<>>]
      /\ content = [k \in 0 .. Total - 1 |-> Hole]
  BY FileAssumption DEF Init
<1>2. FilesTyped
  <2>1. <<>> \in Seq(Int) /\ Hole \in Int
    BY DEF Hole
  <2> QED BY <1>1, <2>1 DEF FilesTyped
<1>3. InPlace
  <2>1. ASSUME NEW f \in Files
        PROVE  /\ Len(data[f]) = 0 /\ files[f].length \in Nat
               /\ \A o \in 0 .. files[f].length - 1 :
                     content[files[f].offset + o] = Hole
    <3>1. /\ files[f].offset \in Nat /\ files[f].length \in Nat
          /\ files[f].offset + files[f].length <= Total /\ Total \in Nat
      BY <1>1, Layout, InsideTotal
    <3>2. ASSUME NEW o \in 0 .. files[f].length - 1
          PROVE  content[files[f].offset + o] = Hole
      <4>1. files[f].offset + o \in 0 .. Total - 1
        BY <3>1
      <4> QED BY <1>1, <4>1
    <3>3. Len(data[f]) = 0
      BY <1>1
    <3> QED BY <3>1, <3>2, <3>3
  <2>2. ASSUME NEW f \in Files, NEW o \in 0 .. files[f].length - 1
        PROVE  ~(o < Len(data[f]))
    BY <2>1
  <2> QED BY <2>1, <2>2 DEF InPlace
<1>4. Backed
  <2>1. saved.complete = {} /\ saved.received = received
    BY <1>1
  <2>2. \A i \in Pieces : received[i] = {}
    BY <1>1
  <2> QED BY <1>1, <2>1, <2>2 DEF Backed
<1> QED BY <1>2, <1>3, <1>4 DEF FilesInv

\* The files are as they were, and what counts now was written too.
LEMMA FilesSame ==
    ASSUME FilesInv, UNCHANGED <<files, single, data, content>>,
           open' \in BOOLEAN, complete' \in SUBSET Pieces,
           saved'.complete \in SUBSET Pieces,
           received' = [i \in Pieces |-> received'[i]],
           \A i \in complete' \cup saved'.complete : Filled(i),
           \A i \in Pieces : \A s \in received'[i] \cup saved'.received[i] :
              s \in Slices(i) /\ SliceFilled(i, s)
    PROVE  FilesInv'
<1>1. /\ Files' = Files /\ Total' = Total /\ Pieces' = Pieces
      /\ \A j : LengthOf(j)' = LengthOf(j)
  BY DEF Files, Total, Pieces, LengthOf
<1>2. FilesTyped'
  BY <1>1 DEF FilesInv, FilesTyped
<1>3. InPlace'
  BY <1>1 DEF FilesInv, InPlace
<1>4. Backed'
  <2>1. /\ \A j : Filled(j)' <=> Filled(j)
        /\ \A j : Slices(j)' = Slices(j)
        /\ \A j, s : SliceFilled(j, s)' <=> SliceFilled(j, s)
    BY <1>1 DEF Filled, Span, Slices, SliceFilled, InSlice
  <2> QED BY <1>1, <2>1 DEF Backed
<1> QED BY <1>2, <1>3, <1>4 DEF FilesInv

\* A piece that passes its verification has no hole.
LEMMA VerifiedFilled ==
    ASSUME FilesInv, NEW i \in Pieces, Verify(i)
    PROVE  Filled(i)
<1>1. Written(i) /\ Laid(files)
  BY VerifiedIsWritten DEF FilesInv, FilesTyped
<1>2. ASSUME NEW k \in Span(i) PROVE content[k] # Hole
  <2>1. content[k] = k
    BY <1>1 DEF Written
  <2>2. k \in Nat
    BY <1>1, PieceBounds DEF Span
  <2> QED BY <2>1, <2>2 DEF Hole
<1> QED BY <1>2 DEF Filled

\* Every step keeps the invariant.
LEMMA FilesStep == FilesInv /\ [Next]_vars => FilesInv'
<1> SUFFICES ASSUME FilesInv, [Next]_vars PROVE FilesInv'
  OBVIOUS
<1>1. /\ FilesTyped /\ InPlace /\ Laid(files)
      /\ open \in BOOLEAN /\ complete \in SUBSET Pieces
  BY DEF FilesInv, FilesTyped
<1>2. /\ received = [i \in Pieces |-> received[i]]
      /\ saved.complete \in SUBSET Pieces
      /\ \A i \in complete \cup saved.complete : Filled(i)
      /\ \A i \in Pieces : \A s \in received[i] \cup saved.received[i] :
            s \in Slices(i) /\ SliceFilled(i, s)
  BY DEF FilesInv, Backed
<1>3. CASE OpenFiles
  <2> DEFINE moved ==
               {i \in Pieces : Verify(i) \/ saved.received[i] = Slices(i)}
  <2>1. /\ open' = TRUE /\ complete' = saved.complete \cup moved
        /\ received' = [i \in Pieces |-> IF i \in moved THEN {}
                                           ELSE saved.received[i]]
        /\ UNCHANGED <<files, single, data, saved, content>>
    BY <1>3 DEF OpenFiles
  <2>2. ASSUME NEW i \in moved PROVE Filled(i)
    <3>1. CASE Verify(i)
      BY <3>1, VerifiedFilled
    <3>2. CASE saved.received[i] = Slices(i)
      BY <1>1, <1>2, <3>2, FullFilled
    <3> QED BY <3>1, <3>2
  <2> HIDE DEF moved
  <2>3. moved \subseteq Pieces
    BY DEF moved
  <2>4. received' = [i \in Pieces |-> received'[i]]
    BY <2>1
  <2>5. \A i \in Pieces : received'[i] \subseteq saved.received[i]
    BY <2>1
  <2> QED BY <1>1, <1>2, <2>1, <2>2, <2>3, <2>4, <2>5, FilesSame
<1>4. CASE Save
  <2>1. /\ saved'.complete = complete /\ saved'.received = received
        /\ UNCHANGED <<files, single, open, data, complete, received, content>>
    BY <1>4 DEF Save
  <2> QED BY <1>1, <1>2, <2>1, FilesSame
<1>5. CASE Close
  BY <1>1, <1>2, <1>5, FilesSame DEF Close
<1>6. CASE CheckComplete
  <2> DEFINE done == {i \in Pieces \ complete : received[i] = Slices(i)}
  <2>1. /\ complete' = complete \cup {i \in done : Verify(i)}
        /\ received' = [i \in Pieces |-> IF i \in done THEN {} ELSE received[i]]
        /\ UNCHANGED <<files, single, open, data, saved, content>>
    BY <1>6 DEF CheckComplete
  <2>2. done \subseteq Pieces
    OBVIOUS
  <2> HIDE DEF done
  <2>3. \A i \in complete' : i \in Pieces /\ Filled(i)
    BY <1>1, <1>2, <2>1, <2>2, VerifiedFilled
  <2>4. received' = [i \in Pieces |-> received'[i]]
    BY <2>1
  <2>5. \A i \in Pieces : received'[i] \subseteq received[i]
    BY <2>1
  <2> QED BY <1>1, <1>2, <2>1, <2>3, <2>4, <2>5, FilesSame
<1>7. ASSUME NEW i \in Pieces, NEW s \in Slices(i), NEW right \in BOOLEAN,
             SaveSlice(i, s, right)
      PROVE  FilesInv'
  BY <1>7, SaveSliceKeeps
<1>8. CASE UNCHANGED vars
  BY <1>1, <1>2, <1>8, FilesSame DEF vars
<1> QED BY <1>3, <1>4, <1>5, <1>6, <1>7, <1>8 DEF Next

\* The invariant says that what is read back is what was written.
LEMMA FilesReadBack == FilesInv => ReadsBack
<1> SUFFICES ASSUME FilesInv PROVE ReadsBack
  OBVIOUS
<1>1. /\ FilesTyped /\ InPlace /\ complete \subseteq Pieces
      /\ \A i \in complete : Filled(i)
  BY DEF FilesInv, FilesTyped, Backed
<1> QED
  BY <1>1, VerifiedIsWritten, WrittenVerifies, SentAsWritten, WrittenIsComplete
  DEF ReadsBack

(* In every state the bytes are in place, and every piece that counts, in  *)
(* the session or in its state file, was written without a hole: also one  *)
(* that Session::Verify takes up because all its slices are there, with no *)
(* look at its hash (Session.cpp:763-778).  For every division of a        *)
(* torrent into files and every length of pieces, slices and strides.      *)
THEOREM FilesInvariant == Spec => []FilesInv
<1> QED BY FilesInit, FilesStep, PTL DEF Spec

(* Every byte that was written last at a position of the torrent is in the *)
(* file and at the place that the metainfo file gives it, and nothing else *)
(* is in the files (FileManager::Write).                                   *)
THEOREM BytesInPlace == Spec => []InPlace
<1>1. FilesInv => InPlace
  BY DEF FilesInv
<1> QED BY <1>1, FilesInvariant, PTL

(* A piece passes its verification only if its bytes are right, what is    *)
(* sent of a piece that counts as complete is what was written last there, *)
(* right or wrong, never a hole, and files of which all pieces were        *)
(* written have their size (ReadPiece, Verify, SendSlice, IsComplete).     *)
THEOREM PiecesReadBack == Spec => []ReadsBack
<1> QED BY FilesReadBack, FilesInvariant, PTL

\* Of several files only the first piece passes.
OnlyFirst == \A i \in Pieces : Verify(i) => single \/ i = 0

(* Over several files no piece but the first ever passes its verification, *)
(* whatever was written: ReadPiece looks for a piece at its number times   *)
(* piecestrcat_length, and Write puts it at its number times the length    *)
(* of a piece.                                                             *)
THEOREM OnlyFirstVerifies == Spec => []OnlyFirst
<1>1. FilesInv => OnlyFirst
  BY VerifiedIsWritten DEF FilesInv, OnlyFirst
<1> QED BY <1>1, FilesInvariant, PTL

-----------------------------------------------------------------------------
(* What the files promise (PieceStore): a running session takes a piece up *)
(* once its bytes are right, no write changes a piece that counts, and a   *)
(* process that starts finds the pieces of the state file, the ones that   *)
(* pass, and the ones that the state file has as received in full.         *)
Passing == {i \in Pieces : Verify(i)}

Store == INSTANCE PieceStore
         WITH Pieces <- Nat, good <- Passing,
              held <- complete, durable <- saved.complete,
              received <- {i \in Pieces : saved.received[i] = Slices(i)}

\* The pieces with the right bytes, where ReadPiece looks for them.
InReach == {i \in Pieces : Written(i) /\ (single \/ i = 0)}

\* These are the pieces that pass.
LEMMA PassingIs == FilesInv => Passing = InReach
  BY VerifyIs DEF FilesInv, Passing, InReach

\* Pieces are numbered.
LEMMA PiecesNumbered == FilesInv => Pieces \subseteq Nat
  BY PieceBounds DEF FilesInv, FilesTyped

\* At first nothing is right.
LEMMA StoreInit == Init => Store!Init
<1> SUFFICES ASSUME Init PROVE Store!Init
  OBVIOUS
<1>1. /\ FilesInv /\ complete = {} /\ Laid(files)
      /\ received = [i \in Pieces |-> {}]
      /\ saved = [complete |-> complete, received |-> received]
  BY FilesInit DEF Init, FilesInv, FilesTyped
<1>2. ASSUME NEW i \in Pieces PROVE ~Written(i)
  <2>1. PICK p \in Nat, l \in Nat, t \in Nat :
             /\ p = i * PieceLength /\ l = LengthOf(i) /\ l > 0
             /\ t = Total /\ p + l <= t
    BY <1>1, PieceBounds, Layout
  <2>2. p \in p .. p + l - 1 /\ p \in 0 .. t - 1
    BY <2>1
  <2>3. content[p] = Hole
    BY <2>1, <2>2 DEF Init
  <2>4. content[p] # p
    BY <2>3 DEF Hole
  <2> QED BY <2>1, <2>2, <2>4 DEF Written, Span
<1>3. Passing = {}
  BY <1>1, <1>2, PassingIs DEF InReach
<1>4. saved.complete = {} /\ \A i \in Pieces : saved.received[i] = {}
  BY <1>1
<1>5. {i \in Pieces : saved.received[i] = Slices(i)} = {}
  BY <1>1, <1>4, SlicesNotEmpty
<1> QED BY <1>1, <1>3, <1>4, <1>5 DEF Store!Init

\* A step of the files is a step of the store, or none.
LEMMA StoreStep ==
    ASSUME FilesInv, FilesInv', [Next]_vars
    PROVE  [Store!Next]_(Store!vars)
<1> DEFINE full == {i \in Pieces : saved.received[i] = Slices(i)}
<1>1. Passing = InReach /\ Passing' = InReach'
  <2>1. (FilesInv => Passing = InReach)'
    BY PassingIs, PTL
  <2> QED BY <2>1, PassingIs
<1>2. Pieces \subseteq Nat /\ Pieces' \subseteq Nat
  <2>1. (FilesInv => Pieces \subseteq Nat)'
    BY PiecesNumbered, PTL
  <2> QED BY <2>1, PiecesNumbered
<1>3. UNCHANGED files => /\ Pieces' = Pieces
                         /\ \A i : Span(i)' = Span(i) /\ Slices(i)' = Slices(i)
  BY DEF Total, Pieces, LengthOf, Span, Slices
<1>4. UNCHANGED <<files, single, content>> => Passing' = Passing
  BY <1>1, <1>3 DEF InReach, Written
<1>5. UNCHANGED <<files, saved>> => full' = full
  BY <1>3
<1>6. Passing' \subseteq Nat /\ full' \subseteq Nat
  BY <1>2 DEF Passing
<1> HIDE DEF full
<1>7. CASE OpenFiles
  <2>1. complete' = saved.complete \cup {i \in Pieces :
                       Verify(i) \/ saved.received[i] = Slices(i)}
    BY <1>7 DEF OpenFiles
  <2>2. complete' = saved.complete \cup full \cup Passing
    BY <2>1 DEF full, Passing
  <2>3. Passing' = Passing /\ full' = full /\ UNCHANGED saved
    BY <1>4, <1>5, <1>7 DEF OpenFiles
  <2> QED BY <2>2, <2>3 DEF Store!Next, Store!Restart, full
<1>8. CASE Save
  <2>1. saved'.complete = complete /\ UNCHANGED complete
    BY <1>8 DEF Save
  <2>2. Passing' = Passing
    BY <1>4, <1>8 DEF Save
  <2> QED BY <1>6, <2>1, <2>2 DEF Store!Next, Store!Save, full
<1>9. CASE Close
  <2>1. Passing' = Passing /\ full' = full /\ UNCHANGED <<saved, complete>>
    BY <1>4, <1>5, <1>9 DEF Close
  <2> QED BY <2>1 DEF Store!vars, full
<1>10. CASE CheckComplete
  <2>1. /\ Passing' = Passing /\ full' = full /\ UNCHANGED saved
    BY <1>4, <1>5, <1>10 DEF CheckComplete
  <2>2. complete \subseteq complete' /\ complete' \subseteq complete \cup Passing
    BY <1>10 DEF CheckComplete, Passing
  <2> QED BY <2>1, <2>2 DEF Store!Next, Store!Hold, full
<1>11. ASSUME NEW i \in Pieces, NEW s \in Slices(i), NEW right \in BOOLEAN,
              SaveSlice(i, s, right)
       PROVE  [Store!Next]_(Store!vars)
  <2>1. UNCHANGED <<files, single, complete, saved>> /\ i \notin complete
    BY <1>11 DEF SaveSlice
  <2>2. ASSUME NEW j \in complete
        PROVE  j \in Passing' <=> j \in Passing
    <3>1. j \in Pieces /\ j # i /\ Laid(files)
      BY <2>1 DEF FilesInv, FilesTyped
    <3>2. ASSUME NEW k \in Span(j) PROVE content'[k] = content[k]
      BY <1>11, <3>1, SaveSliceLeaves
    <3>3. Written(j)' <=> Written(j)
      BY <1>3, <2>1, <3>2 DEF Written
    <3> QED BY <1>1, <1>3, <2>1, <3>1, <3>3 DEF InReach
  <2>3. full' = full
    BY <1>5, <2>1
  <2>4. complete \cap Passing' = complete \cap Passing
    BY <2>2
  <2> QED BY <1>6, <2>1, <2>3, <2>4 DEF Store!Next, Store!Write, full
<1>12. CASE UNCHANGED vars
  <2>1. Passing' = Passing /\ full' = full /\ UNCHANGED <<saved, complete>>
    BY <1>4, <1>5, <1>12 DEF vars
  <2> QED BY <2>1 DEF Store!vars, full
<1> QED BY <1>7, <1>8, <1>9, <1>10, <1>11, <1>12 DEF Next

(* The files of a session implement the store of pieces that Session       *)
(* promises to its peers: no write, over whatever borders of files, makes  *)
(* a byte of a piece wrong that counts as complete, and the end of a       *)
(* process loses no piece that the state file or the hash vouches for.     *)
THEOREM FilesImplementStore == Spec => Store!Spec
<1> QED BY StoreInit, StoreStep, FilesInvariant, PTL DEF Spec, Store!Spec

-----------------------------------------------------------------------------
(* The assumption on the layouts.                                          *)

\* Files one behind the other.
Placed(l) ==
    /\ l \in Seq([offset : Nat, length : Nat])
    /\ l # <<>> => l[1].offset = 0
    /\ \A f \in 2 .. Len(l) : l[f].offset = End(l[f - 1])

(* What AddFile makes of any lengths is a layout as it is assumed, once    *)
(* there is a byte in it (Session::AddFile).                               *)
THEOREM AddFileLays ==
    /\ Placed(<<>>)
    /\ \A l, n : Placed(l) /\ n \in Nat => Placed(AddFile(l, n))
    /\ \A l : Laid(l) <=> Placed(l) /\ l # <<>> /\ End(l[Len(l)]) > 0
<1>1. Placed(<<>>)
  BY DEF Placed
<1>2. ASSUME NEW l, NEW n \in Nat, Placed(l) PROVE Placed(AddFile(l, n))
  <2> DEFINE offset == IF l = <<>> THEN 0 ELSE End(Last(l))
             e == [offset |-> offset, length |-> n]
             S == [offset : Nat, length : Nat]
  <2>1. l \in Seq(S) /\ Len(l) \in Nat
    BY <1>2 DEF Placed
  <2>2. offset \in Nat
    <3>1. CASE l = <<>>
      BY <3>1
    <3>2. CASE l # <<>>
      <4>1. Len(l) \in 1 .. Len(l)
        BY <2>1, <3>2
      <4>2. l[Len(l)] \in S
        BY <2>1, <4>1, ElementOfSeq
      <4> QED BY <3>2, <4>2 DEF Last, End
    <3> QED BY <3>1, <3>2
  <2>3. e \in S
    BY <2>2
  <2>4. AddFile(l, n) = Append(l, e)
    BY DEF AddFile
  <2>5. l # <<>> => offset = End(l[Len(l)])
    BY DEF Last
  <2>6. l = <<>> => offset = 0
    OBVIOUS
  <2>7. e.offset = offset
    OBVIOUS
  <2> HIDE DEF e, offset
  <2>8. /\ Append(l, e) \in Seq(S) /\ Len(Append(l, e)) = Len(l) + 1
        /\ Append(l, e)[Len(l) + 1] = e
        /\ \A f \in 1 .. Len(l) : Append(l, e)[f] = l[f]
    BY <2>1, <2>3, AppendProperties
  <2> HIDE DEF S
  <2>9. Append(l, e)[1].offset = 0
    <3>1. CASE l = <<>>
      BY <2>6, <2>7, <2>8, <3>1
    <3>2. CASE l # <<>>
      <4>1. 1 \in 1 .. Len(l)
        BY <2>1, <3>2
      <4> QED BY <1>2, <2>8, <3>2, <4>1 DEF Placed
    <3> QED BY <3>1, <3>2
  <2>10. ASSUME NEW f \in 2 .. Len(l) + 1
         PROVE  Append(l, e)[f].offset = End(Append(l, e)[f - 1])
    <3>1. f - 1 \in 1 .. Len(l) /\ Append(l, e)[f - 1] = l[f - 1]
      BY <2>1, <2>8
    <3>2. CASE f = Len(l) + 1
      <4>1. l # <<>> /\ f - 1 = Len(l)
        BY <2>1, <3>1, <3>2
      <4> QED BY <2>5, <2>7, <2>8, <3>1, <3>2, <4>1
    <3>3. CASE f # Len(l) + 1
      <4>1. f \in 2 .. Len(l) /\ f \in 1 .. Len(l)
        BY <2>1, <3>3
      <4>2. Append(l, e)[f] = l[f]
        BY <2>8, <4>1
      <4>3. l[f].offset = End(l[f - 1])
        BY <1>2, <4>1 DEF Placed
      <4> QED BY <3>1, <4>2, <4>3
    <3> QED BY <3>2, <3>3
  <2> QED BY <2>4, <2>8, <2>9, <2>10 DEF Placed, S
<1>3. \A l : Laid(l) <=> Placed(l) /\ l # <<>> /\ End(l[Len(l)]) > 0
  BY DEF Laid, Placed
<1> QED BY <1>1, <1>2, <1>3

=============================================================================
