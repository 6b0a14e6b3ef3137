--------------------------- MODULE Session_proofs ---------------------------
(* Proofs about Session: the type invariant, the integrity of complete     *)
(* pieces across duplicates, hash failures, suspensions, crashes and       *)
(* restarts, the refinement of PieceStore, and what it takes for a         *)
(* download to stall.                                                      *)
EXTENDS Session, TLAPS

BookType ==
    [complete: [Pieces -> SUBSET Slices], requested: [Pieces -> SUBSET Offsets],
     reqs: [Peers -> [Requests -> Nat]], wire: [Peers -> [Requests -> Nat]]]

-----------------------------------------------------------------------------
(* The operations on the request book keep its type and never touch the    *)
(* slices received.                                                        *)

\* A further request leaves a bag of requests.
LEMMA AddRequestType ==
    ASSUME NEW b \in BookType, NEW p \in Peers, NEW i \in Pieces,
           NEW s \in Offsets
    PROVE  /\ AddRequest(b, p, i, s) \in BookType
           /\ AddRequest(b, p, i, s).complete = b.complete
<1>1. <<i, s>> \in Requests
  BY DEF Requests
<1>2. [b.requested EXCEPT ![i] = SetRequested(@, s)]
          \in [Pieces -> SUBSET Offsets]
  BY DEF SetRequested, BookType
<1>3. [b.reqs EXCEPT ![p][<<i, s>>] = @ + 1] \in [Peers -> [Requests -> Nat]]
  BY <1>1 DEF BookType
<1>4. [b.wire EXCEPT ![p][<<i, s>>] = @ + 1] \in [Peers -> [Requests -> Nat]]
  BY <1>1 DEF BookType
<1> QED
  BY <1>2, <1>3, <1>4 DEF AddRequest, BookType

\* Requests that are dropped leave a bag of requests.
LEMMA RemoveRequestsType ==
    ASSUME NEW b \in BookType, NEW P \in SUBSET Peers
    PROVE  /\ RemoveRequests(b, P) \in BookType
           /\ RemoveRequests(b, P).complete = b.complete
BY DEF RemoveRequests, BookType, SetNotRequested, NoRequests

\* One request more leaves a bag of requests.
LEMMA AddOneType ==
    ASSUME NEW b \in BookType, NEW p \in Peers, NEW c \in AddOne(b, p)
    PROVE  c \in BookType /\ c.complete = b.complete
<1>1. CASE c = b
  BY <1>1
<1>2. CASE \E r \in Pieces \X Slices : c = AddRequest(b, p, r[1], r[2])
  <2>1. PICK r \in Pieces \X Slices : c = AddRequest(b, p, r[1], r[2])
    BY <1>2
  <2>2. r[1] \in Pieces /\ r[2] \in Offsets
    BY DEF Offsets
  <2> QED
    BY <2>1, <2>2, AddRequestType
<1> QED
  BY <1>1, <1>2 DEF AddOne

\* A request for what a peer has keeps the types of the session.
LEMMA RequestAvailableType ==
    ASSUME NEW b \in BookType, NEW p \in Peers,
           NEW c \in RequestAvailable(b, p)
    PROVE  c \in BookType /\ c.complete = b.complete
<1>1. CASE c = b
  BY <1>1
<1>2. CASE \E b1 \in AddOne(b, p) : c \in AddOne(b1, p)
  BY <1>2, AddOneType
<1> QED
  BY <1>1, <1>2 DEF RequestAvailable

\* Requests for a whole piece keep the types.
LEMMA AddAllType ==
    ASSUME NEW b \in BookType, NEW p \in Peers, NEW c \in Choices(b)
    PROVE  AddAll(b, p, c) \in BookType /\ AddAll(b, p, c).complete = b.complete
<1>1. DOMAIN c = Open(b) /\ \A i \in Open(b) : c[i] \in Offsets
  BY DEF Choices
<1>2. \A bag \in [Requests -> Nat] : \A R : Plus(bag, R) \in [Requests -> Nat]
  BY DEF Plus
<1>3. [i \in Pieces |-> IF i \in DOMAIN c
                        THEN SetRequested(b.requested[i], c[i])
                        ELSE b.requested[i]] \in [Pieces -> SUBSET Offsets]
  BY <1>1 DEF BookType, SetRequested
<1> DEFINE added == {<<i, c[i]>> : i \in DOMAIN c}
<1>4. [b.reqs EXCEPT ![p] = Plus(@, added)] \in [Peers -> [Requests -> Nat]]
  <2> HIDE DEF added
  <2> QED BY <1>2 DEF BookType
<1>5. [b.wire EXCEPT ![p] = Plus(@, added)] \in [Peers -> [Requests -> Nat]]
  <2> HIDE DEF added
  <2> QED BY <1>2 DEF BookType
<1> QED
  BY <1>3, <1>4, <1>5 DEF AddAll, BookType

\* GenerateRequest keeps the types.
LEMMA GenerateRequestType ==
    ASSUME NEW b \in BookType, NEW p \in Peers, NEW c \in GenerateRequest(b, p)
    PROVE  c \in BookType /\ c.complete = b.complete
<1>1. CASE c = b
  BY <1>1
<1>2. CASE \E r \in Pieces \X Slices : c = AddRequest(b, p, r[1], r[2])
  <2>1. PICK r \in Pieces \X Slices : c = AddRequest(b, p, r[1], r[2])
    BY <1>2
  <2>2. r[1] \in Pieces /\ r[2] \in Offsets
    BY DEF Offsets
  <2> QED
    BY <2>1, <2>2, AddRequestType
<1>3. CASE \E d \in Choices(b) : c = AddAll(b, p, d)
  BY <1>3, AddAllType
<1> QED
  BY <1>1, <1>2, <1>3 DEF GenerateRequest

(* Book has the type, and what becomes of it too.                          *)
LEMMA BookIsTyped ==
    ASSUME TypeOK
    PROVE  Book \in BookType /\ Book.complete = complete
BY DEF TypeOK, Book, BookType

-----------------------------------------------------------------------------
(* The type invariant.                                                     *)

\* A fresh session has its types.
LEMMA NothingIsTyped ==
    /\ NoRequests \in [Requests -> Nat]
    /\ NoSlices \in [Pieces -> SUBSET Slices]
    /\ NoSlices \in [Pieces -> SUBSET Offsets]
BY DEF NoRequests, NoSlices

\* The types hold at first.
LEMMA InitTypeOK == Init => TypeOK
<1> SUFFICES ASSUME Init PROVE TypeOK
  OBVIOUS
<1>1. badLeft \in 0 .. MaxBad
  BY SessionAssumption DEF Init
<1>2. /\ reqs \in [Peers -> [Requests -> Nat]]
      /\ wire \in [Peers -> [Requests -> Nat]]
  BY NothingIsTyped DEF Init
<1>3. /\ choked \in [Peers -> BOOLEAN]
      /\ has \in [Peers -> SUBSET Pieces]
      /\ disk \in [Pieces -> [Slices -> {"none", "good", "bad"}]]
  BY DEF Init
<1> QED
  BY <1>1, <1>2, <1>3, NothingIsTyped DEF Init, TypeOK

\* A connection keeps the types.
LEMMA ConnectTypeOK ==
    ASSUME TypeOK, NEW p \in Peers,
           Connect(p) \/ Disconnect(p)
    PROVE  TypeOK'
<1>1. CASE Connect(p)
  <2>1. Owns[p] \subseteq Pieces
    BY SessionAssumption DEF Pieces
  <2>2. /\ connected' \subseteq Peers
        /\ choked' \in [Peers -> BOOLEAN]
        /\ has' \in [Peers -> SUBSET Pieces]
    BY <1>1, <2>1 DEF Connect, TypeOK
  <2> QED BY <1>1, <2>2 DEF Connect, TypeOK, book, flags
<1>2. CASE Disconnect(p)
  BY <1>2 DEF Disconnect, TypeOK, flags, NoRequests
<1> QED BY <1>1, <1>2

\* A choke keeps the types.
LEMMA ChokeTypeOK ==
    ASSUME TypeOK, NEW p \in Peers, RecvChoke(p) \/ RecvUnchoke(p)
    PROVE  TypeOK' /\ complete' = complete
<1>1. PICK b \in BookType : b.complete = complete /\ Becomes(b)
  <2>1. CASE RecvChoke(p)
    BY <2>1, BookIsTyped, RemoveRequestsType DEF RecvChoke
  <2>2. CASE RecvUnchoke(p)
    BY <2>2, BookIsTyped, RequestAvailableType DEF RecvUnchoke
  <2> QED BY <2>1, <2>2
<1>2. choked' \in [Peers -> BOOLEAN]
  BY DEF RecvChoke, RecvUnchoke, TypeOK
<1> QED
  BY <1>1, <1>2 DEF RecvChoke, RecvUnchoke, Becomes, BookType, TypeOK, flags

\* The announcement of a piece keeps the types.
LEMMA RecvHaveTypeOK ==
    ASSUME TypeOK, NEW p \in Peers, NEW i \in Pieces, RecvHave(p, i)
    PROVE  TypeOK'
BY DEF RecvHave, TypeOK, book, flags

(* What a slice leaves of the book before the next request is generated.   *)
LEMMA RecvPieceTypeOK ==
    ASSUME TypeOK, NEW p \in Peers, NEW i \in Pieces, NEW s \in Slices,
           NEW bytes \in {"good", "bad"}, RecvPiece(p, i, s, bytes)
    PROVE  /\ TypeOK'
           /\ complete' = IF i \in Incomplete
                          THEN [complete EXCEPT ![i] = @ \cup {s}]
                          ELSE complete
<1>1. <<i, s>> \in Requests
  BY DEF Requests, Offsets
<1> DEFINE got == [complete |-> IF i \in Incomplete
                             THEN [complete EXCEPT ![i] = @ \cup {s}]
                             ELSE complete,
                requested |-> requested,
                reqs |-> GotSlice(p, i, s),
                wire |-> [wire EXCEPT ![p][<<i, s>>] = @ - 1]]
<1>2. got \in BookType
  <2>1. got.reqs \in [Peers -> [Requests -> Nat]]
    BY <1>1 DEF TypeOK, GotSlice
  <2>2. wire[p][<<i, s>>] > 0
    BY DEF RecvPiece
  <2>3. got.wire \in [Peers -> [Requests -> Nat]]
    BY <1>1, <2>2 DEF TypeOK
  <2>4. got.complete \in [Pieces -> SUBSET Slices]
    BY DEF TypeOK
  <2> QED
    BY <2>1, <2>3, <2>4 DEF BookType, TypeOK
<1>3. PICK b \in BookType : b.complete = got.complete /\ Becomes(b)
  <2>1. Becomes(got) \/ \E b \in GenerateRequest(got, p) : Becomes(b)
    BY DEF RecvPiece
  <2> HIDE DEF got
  <2> QED
    BY <1>2, <2>1, GenerateRequestType
<1>4. disk' \in [Pieces -> [Slices -> {"none", "good", "bad"}]]
  <2>1. disk' = disk \/ disk' = [disk EXCEPT ![i][s] = bytes]
    BY DEF RecvPiece, SaveSlice
  <2>2. disk \in [Pieces -> [Slices -> {"none", "good", "bad"}]]
    BY DEF TypeOK
  <2>3. bytes \in {"none", "good", "bad"}
    OBVIOUS
  <2> QED
    BY <2>1, <2>2, <2>3
<1>5. badLeft' \in 0 .. MaxBad
  BY SessionAssumption DEF RecvPiece, TypeOK
<1>6. checkComplete' \in BOOLEAN
  BY DEF RecvPiece, TypeOK
<1>7. /\ complete' \in [Pieces -> SUBSET Slices]
      /\ requested' \in [Pieces -> SUBSET Offsets]
      /\ reqs' \in [Peers -> [Requests -> Nat]]
      /\ wire' \in [Peers -> [Requests -> Nat]]
      /\ complete' = got.complete
  BY <1>3 DEF Becomes, BookType
<1> QED
  BY <1>4, <1>5, <1>6, <1>7 DEF RecvPiece, TypeOK, flags, peerVars

\* The start of Update keeps the types.
LEMMA UpdateBeginTypeOK ==
    ASSUME TypeOK, UpdateBegin
    PROVE  TypeOK'
<1> DEFINE rechecked ==
            [Book EXCEPT !.requested =
                [i \in Pieces |-> IF ReChek(i) THEN {} ELSE requested[i]]]
           b == IF recover THEN RemoveRequests(rechecked, Peers) ELSE Book
<1>1. rechecked \in BookType
  BY BookIsTyped DEF BookType, TypeOK
<1>2. b \in BookType
  <2> HIDE DEF rechecked
  <2> QED BY <1>1, RemoveRequestsType, BookIsTyped
<1> HIDE DEF b
<1>3. requested' = b.requested /\ reqs' = b.reqs
  BY DEF UpdateBegin, b
<1>4. /\ requested' \in [Pieces -> SUBSET Offsets]
      /\ reqs' \in [Peers -> [Requests -> Nat]]
  BY <1>2, <1>3 DEF BookType
<1>5. moved' \in [Pieces -> SUBSET Offsets]
  BY DEF UpdateBegin, TypeOK
<1>6. /\ todo' \subseteq Peers
      /\ phase' = "ask" /\ recover' = FALSE
      /\ complete' = complete /\ wire' = wire
  BY DEF UpdateBegin, TypeOK
<1>7. UNCHANGED <<mode, have, disk, checkComplete, flags, peerVars, saved,
                  badLeft>>
  BY DEF UpdateBegin
<1> QED
  BY <1>4, <1>5, <1>6, <1>7 DEF TypeOK, flags, peerVars

\* The requests of Update keep the types.
LEMMA UpdateAskTypeOK ==
    ASSUME TypeOK, NEW p \in Peers, UpdateAsk(p)
    PROVE  TypeOK' /\ complete' = complete
<1>1. PICK b \in BookType : b.complete = complete /\ Becomes(b)
  <2>1. Becomes(Book) \/ \E b \in RequestAvailable(Book, p) : Becomes(b)
    BY DEF UpdateAsk, Becomes, Book, book
  <2> QED BY <2>1, BookIsTyped, RequestAvailableType
<1> QED
  BY <1>1 DEF UpdateAsk, Becomes, BookType, TypeOK, flags, peerVars

\* The verification of a piece keeps the types.
LEMMA UpdateCheckCompleteTypeOK ==
    ASSUME TypeOK, UpdateCheckComplete
    PROVE  TypeOK'
<1>1. /\ complete' \in [Pieces -> SUBSET Slices]
      /\ requested' \in [Pieces -> SUBSET Offsets]
      /\ have' \subseteq Pieces
  BY DEF UpdateCheckComplete, Accepted, RequestedAfter, TypeOK, Incomplete
<1> QED
  BY <1>1 DEF UpdateCheckComplete, TypeOK, flags, peerVars

\* The repeated requests of Update keep the types.
LEMMA UpdateRetryTypeOK ==
    ASSUME TypeOK,
           NEW aged \in SUBSET {t \in Peers \X Requests : reqs[t[1]][t[2]] > 0},
           NEW early \in SUBSET aged, UpdateRetry(aged, early)
    PROVE  TypeOK'
<1> DEFINE slicesOf(T, i) == {r[2][2] : r \in {t \in T : t[2][1] = i}}
<1>1. \A i \in Pieces : /\ slicesOf(aged, i) \subseteq Offsets
                        /\ slicesOf(early, i) \subseteq Offsets
  BY DEF Requests
<1>2. LengthKey \in Offsets
  BY SessionAssumption DEF LengthKey, Offsets, Slices
<1>3. requested' =
          [i \in Pieces |->
             IF LengthKey \in requested[i] THEN requested[i]
             ELSE IF LengthKey \in slicesOf(aged, i)
                  THEN requested[i] \cup slicesOf(early, i) \cup {LengthKey}
                  ELSE requested[i] \cup slicesOf(aged, i)]
  BY DEF UpdateRetry
<1>4. requested' \in [Pieces -> SUBSET Offsets]
  <2> HIDE DEF slicesOf
  <2> QED BY <1>1, <1>2, <1>3 DEF TypeOK
<1>5. wire' \in [Peers -> [Requests -> Nat]]
  BY DEF UpdateRetry, TypeOK
<1> QED
  BY <1>4, <1>5 DEF UpdateRetry, TypeOK, flags, peerVars

\* SuspendDownloading keeps the types.
LEMMA SuspendDownloadingType ==
    ASSUME TypeOK, SuspendDownloading
    PROVE  /\ complete' = complete
           /\ requested' \in [Pieces -> SUBSET Offsets]
           /\ reqs' \in [Peers -> [Requests -> Nat]]
           /\ wire' \in [Peers -> [Requests -> Nat]]
           /\ connected' \subseteq Peers
BY NothingIsTyped DEF SuspendDownloading, TypeOK

\* The end of Update keeps the types.
LEMMA UpdateFinishTypeOK ==
    ASSUME TypeOK, UpdateFinish
    PROVE  TypeOK' /\ complete' = complete
<1>1. /\ complete' = complete
      /\ requested' \in [Pieces -> SUBSET Offsets]
      /\ reqs' \in [Peers -> [Requests -> Nat]]
      /\ wire' \in [Peers -> [Requests -> Nat]]
      /\ connected' \subseteq Peers
  <2>1. UNCHANGED <<book, connected>> \/ SuspendDownloading
    BY DEF UpdateFinish
  <2> QED
    BY <2>1, SuspendDownloadingType DEF TypeOK, book
<1>2. /\ seeding' \in BOOLEAN /\ already' \in BOOLEAN
      /\ toDelete' \in BOOLEAN /\ checkComplete' \in BOOLEAN
  BY DEF UpdateFinish, TypeOK, flags
<1> QED
  BY <1>1, <1>2 DEF UpdateFinish, TypeOK

\* Suspension, resumption and restart keep the types.
LEMMA ProcessTypeOK ==
    ASSUME TypeOK, Process
    PROVE  TypeOK'
<1>1. CASE Suspend
  <2>1. saved' \in [have: SUBSET Pieces, complete: [Pieces -> SUBSET Slices]]
    BY <1>1 DEF Suspend, Snapshot, TypeOK
  <2>2. SuspendDownloading
    BY <1>1 DEF Suspend
  <2> QED
    BY <1>1, <2>1, <2>2, SuspendDownloadingType DEF Suspend, TypeOK, flags
<1>2. CASE Resume
  BY <1>2 DEF Resume, TypeOK, book, flags, peerVars
<1>3. CASE Deleted
  BY <1>3 DEF Deleted, vars, TypeOK
<1>4. ASSUME NEW quit \in BOOLEAN, Restart(quit) PROVE TypeOK'
  <2>1. saved' \in [have: SUBSET Pieces, complete: [Pieces -> SUBSET Slices]]
    BY <1>4 DEF Restart, Snapshot, TypeOK
  <2>2. /\ have' \subseteq Pieces
        /\ complete' \in [Pieces -> SUBSET Slices]
        /\ already' \in BOOLEAN
    <3>1. Load(saved')
      BY <1>4 DEF Restart
    <3>2. Promoted(saved') \subseteq Pieces
      BY DEF Promoted
    <3>3. already' \in BOOLEAN
      BY <3>1 DEF Load, AllBytes
    <3> QED
      BY <2>1, <3>1, <3>2, <3>3 DEF Load
  <2>3. /\ requested' \in [Pieces -> SUBSET Offsets]
        /\ moved' \in [Pieces -> SUBSET Offsets]
        /\ reqs' \in [Peers -> [Requests -> Nat]]
        /\ wire' \in [Peers -> [Requests -> Nat]]
        /\ choked' \in [Peers -> BOOLEAN]
        /\ has' \in [Peers -> SUBSET Pieces]
    BY <1>4, NothingIsTyped DEF Restart
  <2> QED
    BY <1>4, <2>1, <2>2, <2>3 DEF Restart, TypeOK
<1> QED
  BY <1>1, <1>2, <1>3, <1>4 DEF Process

\* Every step keeps the types.
LEMMA NextTypeOK == TypeOK /\ [Next]_vars => TypeOK'
<1> SUFFICES ASSUME TypeOK, [Next]_vars PROVE TypeOK'
  OBVIOUS
<1>1. CASE Update
  BY <1>1, UpdateBeginTypeOK, UpdateAskTypeOK, UpdateCheckCompleteTypeOK,
     UpdateRetryTypeOK, UpdateFinishTypeOK DEF Update
<1>2. CASE Receive
  BY <1>2, RecvPieceTypeOK, RecvHaveTypeOK, ChokeTypeOK DEF Receive
<1>3. CASE Network
  BY <1>3, ConnectTypeOK DEF Network
<1>4. CASE Process
  BY <1>4, ProcessTypeOK
<1>5. CASE UNCHANGED vars
  BY <1>5 DEF vars, TypeOK
<1> QED
  BY <1>1, <1>2, <1>3, <1>4, <1>5 DEF Next

(* Every variable of the session keeps its type, for any number of peers,  *)
(* pieces and slices.                                                      *)
THEOREM TypeCorrect == Spec => []TypeOK
BY InitTypeOK, NextTypeOK, PTL DEF Spec

-----------------------------------------------------------------------------
(* What a step may do to the data: the pieces held, the slices received,   *)
(* the file and the saved state.  Every property below follows from this.  *)

SameData == UNCHANGED <<have, complete, disk, saved>>

SliceKept(i, s, bytes) ==
    /\ i \in Incomplete
    /\ complete' = [complete EXCEPT ![i] = @ \cup {s}]
    /\ disk' = IF s \in complete[i] THEN disk
               ELSE [disk EXCEPT ![i][s] = bytes]
    /\ UNCHANGED <<have, saved>>

CheckedPieces ==
    /\ \A i \in have' \ have : Verify(i)
    /\ have \subseteq have'
    /\ \A i \in Pieces : complete'[i] \subseteq complete[i]
    /\ UNCHANGED <<disk, saved>>

SavedState == saved' = Snapshot /\ UNCHANGED <<have, complete, disk>>

Reloaded ==
    /\ saved' \in {saved, Snapshot}
    /\ Load(saved')
    /\ ~seeding'
    /\ UNCHANGED disk

DataStep ==
    \/ SameData
    \/ \E i \in Pieces, s \in Slices, bytes \in {"good", "bad"} :
          SliceKept(i, s, bytes)
    \/ CheckedPieces
    \/ SavedState
    \/ Reloaded

\* A step of Update is a DataStep.
LEMMA UpdateData == ASSUME TypeOK, Update PROVE DataStep
<1>1. ASSUME UpdateBegin PROVE SameData
  BY <1>1 DEF UpdateBegin, SameData
<1>2. ASSUME NEW p \in Peers, UpdateAsk(p) PROVE SameData
  BY <1>2, UpdateAskTypeOK DEF UpdateAsk, SameData
<1>3. ASSUME UpdateCheckComplete PROVE CheckedPieces
  BY <1>3 DEF UpdateCheckComplete, Accepted, CheckedPieces, TypeOK
<1>4. ASSUME NEW A, NEW early, UpdateRetry(A, early) PROVE SameData
  BY <1>4 DEF UpdateRetry, SameData
<1>5. ASSUME UpdateFinish PROVE SameData
  BY <1>5, UpdateFinishTypeOK DEF UpdateFinish, SameData
<1> QED
  BY <1>1, <1>2, <1>3, <1>4, <1>5 DEF Update, DataStep

\* A message is a DataStep.
LEMMA ReceiveData == ASSUME TypeOK, Receive PROVE DataStep
<1>1. ASSUME NEW p \in Peers, NEW i \in Pieces, NEW s \in Slices,
             NEW bytes \in {"good", "bad"}, RecvPiece(p, i, s, bytes)
      PROVE  SameData \/ SliceKept(i, s, bytes)
  <2>1. UNCHANGED <<have, saved>>
    BY <1>1 DEF RecvPiece
  <2>2. complete' = IF i \in Incomplete
                    THEN [complete EXCEPT ![i] = @ \cup {s}] ELSE complete
    BY <1>1, RecvPieceTypeOK
  <2>3. CASE i \in Incomplete
    <3>1. SaveSlice(i, s, bytes)
      BY <1>1, <2>3 DEF RecvPiece
    <3> QED
      BY <2>1, <2>2, <2>3, <3>1 DEF SaveSlice, SliceKept
  <2>4. CASE i \notin Incomplete
    <3>1. disk' = disk
      BY <1>1, <2>4 DEF RecvPiece, SaveSlice
    <3> QED
      BY <2>1, <2>2, <2>4, <3>1 DEF SameData
  <2> QED
    BY <2>3, <2>4
<1>2. ASSUME NEW p \in Peers, NEW i \in Pieces, RecvHave(p, i)
      PROVE  SameData
  BY <1>2 DEF RecvHave, SameData, book
<1>3. ASSUME NEW p \in Peers, RecvChoke(p) \/ RecvUnchoke(p)
      PROVE  SameData
  BY <1>3, ChokeTypeOK DEF RecvChoke, RecvUnchoke, SameData
<1> QED
  BY <1>1, <1>2, <1>3 DEF Receive, DataStep

\* Every step is a DataStep.
LEMMA NextData == ASSUME TypeOK, [Next]_vars PROVE DataStep
<1>1. CASE Network
  BY <1>1 DEF Network, Connect, Disconnect, book, SameData,
              DataStep
<1>2. CASE Process
  <2>1. CASE Suspend
    BY <2>1 DEF Suspend, SuspendDownloading, SavedState, DataStep
  <2>2. CASE Resume \/ Deleted
    BY <2>2 DEF Resume, Deleted, book, vars, SameData, DataStep
  <2>3. ASSUME NEW quit \in BOOLEAN, Restart(quit) PROVE Reloaded
    BY <2>3 DEF Restart, Reloaded
  <2> QED
    BY <1>2, <2>1, <2>2, <2>3 DEF Process, DataStep
<1>3. CASE UNCHANGED vars
  BY <1>3 DEF vars, SameData, DataStep
<1> QED
  BY <1>1, <1>2, <1>3, UpdateData, ReceiveData DEF Next

-----------------------------------------------------------------------------
(* The inductive invariant.  WrittenBeforeCounted alone says nothing of    *)
(* the pieces that count: they are written as well.  The state file is     *)
(* behind the session, and every piece that counts is found again by a     *)
(* restart: it is right, or saved, or saved with all its slices.           *)

SavedBehind == saved.have \subseteq have
FoundAgain ==
    \A i \in have :
        Verify(i) \/ i \in saved.have \/ saved.complete[i] = Slices
HaveWritten == \A i \in have, s \in Slices : disk[i][s] # "none"

SafeData == SavedBehind /\ FoundAgain /\ WrittenBeforeCounted /\ HaveWritten
SeedsAll == seeding => have = Pieces
IInv == TypeOK /\ SafeData /\ SeedsAll

\* What a restart finds: what was saved, what is right, and what the state
\* file has in full.
LEMMA ReloadedHave ==
    ASSUME TypeOK, Reloaded
    PROVE  /\ have' = saved'.have
                       \cup {i \in Pieces : Verify(i)
                                           \/ saved'.complete[i] = Slices}
           /\ \A i \in Pieces : complete'[i] \subseteq saved'.complete[i]
           /\ saved' \in {saved, Snapshot}
           /\ UNCHANGED disk
<1>1. saved'.have \subseteq Pieces
  BY DEF Reloaded, Snapshot, TypeOK
<1>2. Load(saved') /\ saved' \in {saved, Snapshot} /\ UNCHANGED disk
  BY DEF Reloaded
<1> QED
  BY <1>1, <1>2 DEF Load, Promoted

\* What one slice, written where none was counted, leaves as it was.
LEMMA SliceKeptIs ==
    ASSUME TypeOK, NEW i \in Pieces, NEW s \in Slices,
           NEW bytes \in {"good", "bad"}, SliceKept(i, s, bytes)
    PROVE  /\ \A j \in Pieces, t \in Slices :
                 <<j, t>> # <<i, s>> => disk'[j][t] = disk[j][t]
           /\ \A j \in have : disk'[j] = disk[j]
           /\ UNCHANGED <<have, saved>>
BY DEF SliceKept, TypeOK, Incomplete

\* A DataStep keeps the invariant.
LEMMA DataStepSafe ==
    ASSUME TypeOK, SafeData, DataStep
    PROVE  SafeData'
<1> USE DEF SafeData
<1>1. CASE SameData
  BY <1>1 DEF SameData, SavedBehind, FoundAgain, HaveWritten,
              WrittenBeforeCounted, Verify
<1>2. ASSUME NEW i \in Pieces, NEW s \in Slices, NEW bytes \in {"good", "bad"},
             SliceKept(i, s, bytes)
      PROVE  SafeData'
  <2>1. WrittenBeforeCounted'
    <3>1. disk'[i][s] # "none"
      BY <1>2 DEF SliceKept, TypeOK, WrittenBeforeCounted
    <3>2. \A j \in Pieces, t \in Slices :
             t \in complete'[j] => t \in complete[j] \/ <<j, t>> = <<i, s>>
      BY <1>2 DEF SliceKept, TypeOK
    <3> QED
      BY <1>2, <3>1, <3>2, SliceKeptIs DEF WrittenBeforeCounted
  <2>2. SavedBehind' /\ FoundAgain' /\ HaveWritten'
    BY <1>2, SliceKeptIs DEF SavedBehind, FoundAgain, HaveWritten, Verify
  <2> QED
    BY <2>1, <2>2
<1>3. CASE CheckedPieces
  <2>1. \A i \in have' \ have, s \in Slices : disk[i][s] # "none"
    BY <1>3 DEF CheckedPieces, Verify
  <2> QED
    BY <1>3, <2>1 DEF CheckedPieces, SavedBehind, FoundAgain, HaveWritten,
                      WrittenBeforeCounted, Verify
<1>4. CASE SavedState
  BY <1>4 DEF SavedState, Snapshot, SavedBehind, FoundAgain, HaveWritten,
              WrittenBeforeCounted, Verify
<1>5. CASE Reloaded
  <2>1. saved'.have \subseteq have
    BY <1>5, ReloadedHave DEF Snapshot, SavedBehind
  <2>2. \A i \in Pieces, s \in Slices :
           s \in saved'.complete[i] => disk[i][s] # "none"
    BY <1>5, ReloadedHave DEF Snapshot, WrittenBeforeCounted
  <2>3. HaveWritten'
    <3>1. \A i \in Pieces, s \in Slices :
             Verify(i) \/ saved'.complete[i] = Slices => disk[i][s] # "none"
      BY <2>2 DEF Verify
    <3> QED
      BY <1>5, <2>1, <3>1, ReloadedHave DEF HaveWritten
  <2>4. FoundAgain' /\ SavedBehind'
    BY <1>5, ReloadedHave DEF FoundAgain, SavedBehind, Verify
  <2>5. WrittenBeforeCounted'
    BY <1>5, <2>2, ReloadedHave DEF WrittenBeforeCounted
  <2> QED
    BY <2>3, <2>4, <2>5
<1> QED
  BY <1>1, <1>2, <1>3, <1>4, <1>5 DEF DataStep

\* Every step keeps a seeder complete.
LEMMA SeedsAllStep ==
    ASSUME TypeOK, SeedsAll, [Next]_vars
    PROVE  SeedsAll'
<1>1. have = Pieces => have' = Pieces \/ ~seeding'
  <2>1. CASE SameData \/ CheckedPieces \/ SavedState \/ Reloaded
    <3>1. have' \subseteq Pieces
      BY NextTypeOK DEF TypeOK
    <3> QED
      BY <2>1, <3>1 DEF SameData, CheckedPieces, SavedState, Reloaded, TypeOK
  <2>2. CASE \E i \in Pieces, s \in Slices, bytes \in {"good", "bad"} :
               SliceKept(i, s, bytes)
    BY <2>2 DEF SliceKept
  <2> QED
    BY <2>1, <2>2, NextData DEF DataStep
<1>2. seeding' => seeding \/ have = Pieces
  <2>1. CASE UpdateFinish
    BY <2>1 DEF UpdateFinish, Finished, flags, Incomplete, TypeOK
  <2>2. ASSUME [Next]_vars, ~UpdateFinish PROVE seeding' => seeding
    <3>1. CASE Update
      BY <2>2, <3>1 DEF Update, UpdateBegin, UpdateAsk, UpdateCheckComplete,
                        UpdateRetry, flags
    <3>2. CASE Receive
      <4>1. ASSUME NEW p, NEW i, NEW s, NEW bytes, RecvPiece(p, i, s, bytes)
            PROVE  seeding' = seeding
        BY <4>1 DEF RecvPiece, flags
      <4>2. ASSUME NEW p, NEW i, RecvHave(p, i) PROVE seeding' = seeding
        BY <4>2 DEF RecvHave, flags
      <4>3. ASSUME NEW p, RecvChoke(p) \/ RecvUnchoke(p)
            PROVE  seeding' = seeding
        BY <4>3 DEF RecvChoke, RecvUnchoke, flags
      <4> QED
        BY <3>2, <4>1, <4>2, <4>3 DEF Receive
    <3>3. CASE Network
      BY <3>3 DEF Network, Connect, Disconnect, flags
    <3>4. CASE Process
      BY <3>4 DEF Process, Suspend, Resume, Deleted, Restart, flags, vars
    <3>5. CASE UNCHANGED vars
      BY <3>5 DEF vars
    <3> QED
      BY <2>2, <3>1, <3>2, <3>3, <3>4, <3>5 DEF Next
  <2> QED
    BY <2>1, <2>2
<1> QED
  BY <1>1, <1>2 DEF SeedsAll

\* The invariant holds at first.
LEMMA InitIInv == Init => IInv
<1> SUFFICES ASSUME Init PROVE IInv
  OBVIOUS
<1>1. SafeData
  BY DEF Init, SafeData, SavedBehind, FoundAgain, HaveWritten,
         WrittenBeforeCounted, NoSlices
<1>2. SeedsAll
  BY DEF Init, SeedsAll
<1> QED
  BY <1>1, <1>2, InitTypeOK DEF IInv

\* Every step keeps the invariant.
LEMMA NextIInv == IInv /\ [Next]_vars => IInv'
<1> SUFFICES ASSUME IInv, [Next]_vars PROVE IInv'
  OBVIOUS
<1> USE DEF IInv
<1>1. TypeOK'
  BY NextTypeOK
<1>2. SafeData'
  BY NextData, DataStepSafe
<1>3. SeedsAll'
  BY SeedsAllStep
<1> QED
  BY <1>1, <1>2, <1>3

\* The invariant holds in every behaviour.
LEMMA InductiveInvariant == Spec => []IInv
BY InitIInv, NextIInv, PTL DEF Spec

\* A piece that comes to count is right, unless the state file has it in full.
LEMMA StepIntact ==
    ASSUME IInv, [Next]_vars, Intact, Vouched'
    PROVE  Intact'
<1> USE DEF IInv, SafeData
<1>1. CASE SameData \/ CheckedPieces \/ SavedState
  BY <1>1 DEF SameData, CheckedPieces, SavedState, Intact, Verify
<1>2. CASE \E i \in Pieces, s \in Slices, bytes \in {"good", "bad"} :
              SliceKept(i, s, bytes)
  BY <1>2, SliceKeptIs DEF Intact, Verify
<1>3. CASE Reloaded
  <2>1. saved'.have \subseteq have
    BY <1>3, ReloadedHave DEF Snapshot, SavedBehind
  <2>2. \A i \in Pieces : saved'.complete[i] = Slices => Verify(i)
    BY <1>3, ReloadedHave DEF Vouched, Verify
  <2> QED
    BY <1>3, <2>1, <2>2, ReloadedHave DEF Intact, Verify
<1> QED
  BY <1>1, <1>2, <1>3, NextData DEF DataStep

(* However the slices arrive, and wherever the process is killed, a piece  *)
(* that counts as complete holds the right bytes, as long as no state file *)
(* has an unverified piece in full whose bytes are wrong (Session::Verify  *)
(* counts that one without a hash).                                        *)
THEOREM IntegrityHolds == Spec => Integrity
<1>1. Init => Intact
  BY DEF Init, Intact
<1>2. IInv /\ [Next]_vars /\ Intact /\ Vouched' => Intact'
  BY StepIntact
<1> QED
  BY <1>1, <1>2, InductiveInvariant, PTL DEF Spec, Integrity

(* Once a piece counts it always does, wherever the process is killed.     *)
THEOREM NeverForgottenHolds == Spec => NeverForgotten
<1>1. IInv /\ [Next]_vars => [have \subseteq have']_vars
  <2> SUFFICES ASSUME IInv, [Next]_vars PROVE have \subseteq have'
    OBVIOUS
  <2> USE DEF IInv, SafeData
  <2>1. CASE SameData \/ CheckedPieces \/ SavedState
    BY <2>1 DEF SameData, CheckedPieces, SavedState
  <2>2. CASE \E i \in Pieces, s \in Slices, bytes \in {"good", "bad"} :
                SliceKept(i, s, bytes)
    BY <2>2 DEF SliceKept
  <2>3. CASE Reloaded
    <3>1. CASE saved' = saved
      BY <2>3, <3>1, ReloadedHave DEF FoundAgain, TypeOK
    <3>2. CASE saved' = Snapshot
      BY <2>3, <3>2, ReloadedHave DEF Snapshot
    <3> QED
      BY <2>3, <3>1, <3>2, ReloadedHave
  <2> QED
    BY <2>1, <2>2, <2>3, NextData DEF DataStep
<1> QED
  BY <1>1, InductiveInvariant, PTL DEF Spec, NeverForgotten

(* No slice is counted as received before it is written, restarts included.*)
THEOREM WrittenBeforeCountedHolds == Spec => []WrittenBeforeCounted
<1>1. IInv => WrittenBeforeCounted
  BY DEF IInv, SafeData
<1> QED
  BY <1>1, InductiveInvariant, PTL

(* A seeding session has every piece, and every slice of it was written,   *)
(* also when a restart counted a piece without a hash.                     *)
THEOREM SeedsWholeFileHolds == Spec => []SeedsWholeFile
<1>1. IInv => SeedsWholeFile
  BY DEF IInv, SafeData, SeedsAll, HaveWritten, SeedsWholeFile
<1> QED
  BY <1>1, InductiveInvariant, PTL

(* A piece that counts is never written again, and the first copy of a slice *)
(* stays until its piece fails verification.                               *)
LEMMA StepKeepsBytes ==
    ASSUME TypeOK, [Next]_vars
    PROVE  /\ \A i \in have : disk'[i] = disk[i]
           /\ \A i \in Pieces : \A s \in complete[i] : disk'[i][s] = disk[i][s]
<1>1. ASSUME NEW i \in Pieces, NEW s \in Slices, NEW bytes \in {"good", "bad"},
             SliceKept(i, s, bytes)
      PROVE  /\ \A j \in have : disk'[j] = disk[j]
             /\ \A j \in Pieces : \A t \in complete[j] : disk'[j][t] = disk[j][t]
  <2>1. i \notin have
    BY <1>1 DEF SliceKept, Incomplete
  <2>2. \A j \in Pieces : j # i => disk'[j] = disk[j]
    BY <1>1 DEF SliceKept, TypeOK
  <2>3. \A t \in complete[i] : disk'[i][t] = disk[i][t]
    BY <1>1 DEF SliceKept, TypeOK
  <2> QED
    BY <2>1, <2>2, <2>3 DEF TypeOK
<1> QED
  BY <1>1, NextData
     DEF DataStep, SameData, CheckedPieces, SavedState, Reloaded

\* A piece that counts is never written again (Session::SaveSlice).
THEOREM VerifiedNeverRewrittenHolds == Spec => VerifiedNeverRewritten
<1>1. IInv /\ [Next]_vars => [\A i \in have : disk'[i] = disk[i]]_vars
  BY StepKeepsBytes DEF IInv
<1> QED
  BY <1>1, InductiveInvariant, PTL DEF Spec, VerifiedNeverRewritten

\* The first copy of a slice that arrives is the one that is kept
\* (Session::SaveSlice drops the others).
THEOREM FirstCopyWinsHolds == Spec => FirstCopyWins
<1>1. IInv /\ [Next]_vars =>
        [\A i \in Pieces : \A s \in complete[i] : disk'[i][s] = disk[i][s]]_vars
  BY StepKeepsBytes DEF IInv
<1> QED
  BY <1>1, InductiveInvariant, PTL DEF Spec, FirstCopyWins

-----------------------------------------------------------------------------
(* The refinement of PieceStore.                                           *)

GoodPieces == {i \in Pieces : Verify(i)}
InFull == {i \in Pieces : saved.complete[i] = Slices}

\* Initial states map to initial states of PieceStore.
LEMMA InitStores == Init => Store!Init
<1> SUFFICES ASSUME Init PROVE Store!Init
  OBVIOUS
<1>1. 0 \in Slices
  BY SessionAssumption DEF Slices
<1> QED
  BY <1>1 DEF Init, Store!Init, Verify, NoSlices

\* A step maps to a step of PieceStore or a stutter.
LEMMA StepStores ==
    ASSUME IInv, [Next]_vars
    PROVE  [Store!Next]_(Store!vars)
<1> USE DEF IInv
<1>1. CASE SameData \/ CheckedPieces
  <2>1. UNCHANGED <<GoodPieces, saved>> /\ have \subseteq have'
    BY <1>1 DEF SameData, CheckedPieces, GoodPieces, Verify
  <2>2. UNCHANGED InFull
    BY <2>1 DEF InFull
  <2>3. have' \in SUBSET (have \cup GoodPieces)
    <3>1. have' \subseteq Pieces
      BY NextTypeOK DEF TypeOK
    <3> QED
      BY <1>1, <3>1 DEF SameData, CheckedPieces, GoodPieces
  <2> QED
    BY <2>1, <2>2, <2>3
       DEF Store!Next, Store!Hold, Store!vars, GoodPieces, InFull
<1>2. CASE \E i \in Pieces, s \in Slices, bytes \in {"good", "bad"} :
              SliceKept(i, s, bytes)
  <2>1. UNCHANGED <<have, saved>> /\ \A j \in have : disk'[j] = disk[j]
    BY <1>2, SliceKeptIs
  <2>2. UNCHANGED InFull
    BY <2>1 DEF InFull
  <2>3. have \cap GoodPieces' = have \cap GoodPieces
    BY <2>1 DEF GoodPieces, Verify
  <2>4. GoodPieces' \in SUBSET Pieces
    BY DEF GoodPieces
  <2> QED
    BY <2>1, <2>2, <2>3, <2>4
       DEF Store!Next, Store!Write, GoodPieces, InFull
<1>3. CASE SavedState
  <2>1. UNCHANGED <<have, GoodPieces>> /\ saved'.have = have
    BY <1>3 DEF SavedState, Snapshot, GoodPieces, Verify
  <2>2. InFull' \in SUBSET Pieces
    BY DEF InFull
  <2> QED
    BY <2>1, <2>2 DEF Store!Next, Store!Save, GoodPieces, InFull
<1>4. CASE Reloaded
  <2>1. UNCHANGED GoodPieces
    BY <1>4 DEF Reloaded, GoodPieces, Verify
  <2>2. \/ saved'.have = have /\ InFull' \in SUBSET Pieces
        \/ UNCHANGED <<saved, InFull>>
    BY <1>4 DEF Reloaded, Snapshot, InFull
  <2>3. have' = saved'.have \cup InFull' \cup GoodPieces
    BY <1>4, ReloadedHave DEF InFull, GoodPieces
  <2> QED
    BY <2>1, <2>2, <2>3 DEF Store!Next, Store!Restart, GoodPieces, InFull
<1> QED
  BY <1>1, <1>2, <1>3, <1>4, NextData DEF DataStep

(* The session implements the PieceStore.                                  *)
THEOREM StoresHolds == Spec => Stores
<1>1. Init => Store!Init
  BY InitStores
<1>2. IInv /\ [Next]_vars => [Store!Next]_(Store!vars)
  BY StepStores
<1> QED
  BY <1>1, <1>2, InductiveInvariant, PTL DEF Spec, Stores, Store!Spec
-----------------------------------------------------------------------------
(* Stalls.  A slice that is marked as requested, and has not come, is      *)
(* asked for nowhere else until its piece fails: somebody must have been   *)
(* asked for it, or the download waits for ever.                           *)

\* The slices of the pieces I that are marked as requested in the book b, and
\* have not come, are in the queue of some peer.
AskedIn(b, I) ==
    \A i \in I, s \in Slices :
        s \in b.requested[i] /\ s \notin b.complete[i] =>
            \E p \in Peers : b.reqs[p][<<i, s>>] > 0

Asked == AskedIn(Book, Incomplete)

\* The book c is b with further requests to p.
More(b, c, p) ==
    /\ c.complete = b.complete
    /\ \A i \in Pieces, s \in Slices :
          s \in c.requested[i] => s \in b.requested[i] \/ c.reqs[p][<<i, s>>] > 0
    /\ \A i \in Pieces : b.requested[i] \subseteq c.requested[i]
    /\ \A q \in Peers, r \in Requests :
          /\ c.reqs[q][r] >= b.reqs[q][r]
          /\ q # p => c.reqs[q][r] = b.reqs[q][r]
          /\ p \in connected =>
                c.wire[q][r] - b.wire[q][r] = c.reqs[q][r] - b.reqs[q][r]

\* No further request.
LEMMA NoMore ==
    ASSUME NEW b \in BookType, NEW p \in Peers
    PROVE  More(b, b, p)
BY DEF More, BookType

\* Further requests, and then some more.
LEMMA MoreAndMore ==
    ASSUME NEW b \in BookType, NEW c \in BookType, NEW d \in BookType,
           NEW p \in Peers, More(b, c, p), More(c, d, p)
    PROVE  More(b, d, p)
<1>1. d.complete = b.complete
      /\ \A i \in Pieces : b.requested[i] \subseteq d.requested[i]
  BY DEF More
<1>2. ASSUME NEW q \in Peers, NEW r \in Requests
      PROVE  /\ d.reqs[q][r] >= b.reqs[q][r]
             /\ q # p => d.reqs[q][r] = b.reqs[q][r]
             /\ p \in connected =>
                   d.wire[q][r] - b.wire[q][r] = d.reqs[q][r] - b.reqs[q][r]
  <2>1. /\ b.reqs[q][r] \in Nat /\ c.reqs[q][r] \in Nat /\ d.reqs[q][r] \in Nat
        /\ b.wire[q][r] \in Nat /\ c.wire[q][r] \in Nat /\ d.wire[q][r] \in Nat
    BY DEF BookType
  <2> QED BY <2>1 DEF More
<1>3. ASSUME NEW i \in Pieces, NEW s \in Slices, s \in d.requested[i]
      PROVE  s \in b.requested[i] \/ d.reqs[p][<<i, s>>] > 0
  <2>1. <<i, s>> \in Requests
    BY DEF Requests, Offsets
  <2>2. c.reqs[p][<<i, s>>] \in Nat /\ d.reqs[p][<<i, s>>] \in Nat
    BY <2>1 DEF BookType
  <2>3. d.reqs[p][<<i, s>>] >= c.reqs[p][<<i, s>>]
    BY <2>1 DEF More
  <2>4. s \in c.requested[i] => s \in b.requested[i] \/ c.reqs[p][<<i, s>>] > 0
    BY DEF More
  <2>5. s \in c.requested[i] \/ d.reqs[p][<<i, s>>] > 0
    BY <1>3 DEF More
  <2> QED BY <2>2, <2>3, <2>4, <2>5
<1> QED BY <1>1, <1>2, <1>3 DEF More

\* One request.
LEMMA AddRequestMore ==
    ASSUME NEW b \in BookType, NEW p \in Peers, NEW i \in Pieces,
           NEW s \in Offsets
    PROVE  /\ More(b, AddRequest(b, p, i, s), p)
           /\ AddRequest(b, p, i, s).reqs[p][<<i, s>>] > 0
<1> DEFINE c == AddRequest(b, p, i, s)
<1>1. <<i, s>> \in Requests
  BY DEF Requests
<1>2. /\ c.complete = b.complete
      /\ c.requested = [b.requested EXCEPT ![i] = SetRequested(@, s)]
      /\ c.reqs = [b.reqs EXCEPT ![p][<<i, s>>] = @ + 1]
      /\ c.wire = IF p \in connected
                  THEN [b.wire EXCEPT ![p][<<i, s>>] = @ + 1] ELSE b.wire
  BY DEF AddRequest
<1> HIDE DEF c
<1>3. ASSUME NEW q \in Peers, NEW r \in Requests
      PROVE  /\ c.reqs[q][r] = IF q = p /\ r = <<i, s>> THEN b.reqs[q][r] + 1
                               ELSE b.reqs[q][r]
             /\ p \in connected =>
                   c.wire[q][r] = IF q = p /\ r = <<i, s>> THEN b.wire[q][r] + 1
                                  ELSE b.wire[q][r]
             /\ b.reqs[q][r] \in Nat /\ b.wire[q][r] \in Nat
  <2> DEFINE e == <<i, s>>
  <2>1. e \in Requests
    BY <1>1
  <2>2. /\ c.reqs = [b.reqs EXCEPT ![p][e] = @ + 1]
        /\ p \in connected => c.wire = [b.wire EXCEPT ![p][e] = @ + 1]
    BY <1>2
  <2> HIDE DEF e
  <2>3. /\ c.reqs[q][r] = IF q = p /\ r = e THEN b.reqs[q][r] + 1
                          ELSE b.reqs[q][r]
        /\ p \in connected =>
              c.wire[q][r] = IF q = p /\ r = e THEN b.wire[q][r] + 1
                             ELSE b.wire[q][r]
        /\ b.reqs[q][r] \in Nat /\ b.wire[q][r] \in Nat
    BY <2>1, <2>2 DEF BookType
  <2> QED BY <2>3 DEF e
<1>4. c.reqs[p][<<i, s>>] > 0
  BY <1>1, <1>3
<1>5. \A q \in Peers, r \in Requests :
         /\ c.reqs[q][r] >= b.reqs[q][r]
         /\ q # p => c.reqs[q][r] = b.reqs[q][r]
         /\ p \in connected =>
               c.wire[q][r] - b.wire[q][r] = c.reqs[q][r] - b.reqs[q][r]
  BY <1>3
<1>6. \A j \in Pieces :
         /\ b.requested[j] \subseteq c.requested[j]
         /\ c.requested[j] \subseteq b.requested[j] \cup (IF j = i THEN {s} ELSE {})
  BY <1>2 DEF BookType, SetRequested
<1>7. \A j \in Pieces, t \in Slices :
         t \in c.requested[j] => t \in b.requested[j] \/ c.reqs[p][<<j, t>>] > 0
  BY <1>4, <1>6
<1> QED BY <1>2, <1>4, <1>5, <1>6, <1>7 DEF More, c

\* The request that AddOne adds, if it finds one.
LEMMA AddOneMore ==
    ASSUME NEW b \in BookType, NEW p \in Peers, NEW c \in AddOne(b, p)
    PROVE  /\ More(b, c, p)
           /\ Offers(c, p) = {} \/ \E r \in Requests : c.reqs[p][r] > 0
<1>1. CASE Offers(b, p) = {}
  <2>1. c = b
    BY <1>1 DEF AddOne
  <2> QED BY <1>1, <2>1, NoMore
<1>2. CASE Offers(b, p) # {}
  <2>1. PICK r \in Pieces \X Slices : c = AddRequest(b, p, r[1], r[2])
    BY <1>2 DEF AddOne
  <2>2. r[1] \in Pieces /\ r[2] \in Offsets /\ <<r[1], r[2]>> \in Requests
    BY DEF Offsets, Requests
  <2> QED BY <2>1, <2>2, AddRequestMore
<1> QED BY <1>1, <1>2

\* After RequestAvailable a peer has requests, or nothing that is wanted.
LEMMA RequestAvailableMore ==
    ASSUME NEW b \in BookType, NEW p \in Peers, NEW c \in RequestAvailable(b, p)
    PROVE  /\ More(b, c, p)
           /\ Offers(c, p) = {} \/ \E r \in Requests : c.reqs[p][r] > 0
<1>1. CASE FewerThanTwo(b.reqs[p])
  <2>1. PICK b1 \in AddOne(b, p) : c \in AddOne(b1, p)
    BY <1>1 DEF RequestAvailable
  <2>2. b1 \in BookType /\ c \in BookType
    BY <2>1, AddOneType
  <2>3. More(b, b1, p) /\ More(b1, c, p)
    BY <2>1, <2>2, AddOneMore
  <2>4. Offers(c, p) = {} \/ \E r \in Requests : c.reqs[p][r] > 0
    BY <2>1, <2>2, AddOneMore
  <2> QED BY <2>2, <2>3, <2>4, MoreAndMore
<1>2. CASE ~FewerThanTwo(b.reqs[p])
  <2>1. c = b
    BY <1>2 DEF RequestAvailable
  <2>2. \E r \in Requests : b.reqs[p][r] > 0
    BY <1>2 DEF FewerThanTwo
  <2> QED BY <2>1, <2>2, NoMore
<1> QED BY <1>1, <1>2

\* A slice of every piece that is not complete.
LEMMA AddAllMore ==
    ASSUME NEW b \in BookType, NEW p \in Peers, NEW d \in Choices(b)
    PROVE  More(b, AddAll(b, p, d), p)
<1> DEFINE c == AddAll(b, p, d)
           added == {<<i, d[i]>> : i \in DOMAIN d}
<1>1. DOMAIN d = Open(b) /\ (\A i \in Open(b) : d[i] \in Offsets)
      /\ Open(b) \subseteq Pieces
  BY DEF Choices, Open, Incomplete
<1>2. /\ c.complete = b.complete
      /\ c.requested = [i \in Pieces |-> IF i \in DOMAIN d
                                         THEN SetRequested(b.requested[i], d[i])
                                         ELSE b.requested[i]]
      /\ c.reqs = [b.reqs EXCEPT ![p] = Plus(@, added)]
      /\ c.wire = IF p \in connected
                  THEN [b.wire EXCEPT ![p] = Plus(@, added)] ELSE b.wire
  BY DEF AddAll
<1>3. \A i \in DOMAIN d : <<i, d[i]>> \in added
  OBVIOUS
<1> HIDE DEF c, added
<1>4. \A q \in Peers, r \in Requests :
         /\ c.reqs[q][r] = IF q = p /\ r \in added THEN b.reqs[q][r] + 1
                           ELSE b.reqs[q][r]
         /\ p \in connected =>
               c.wire[q][r] = IF q = p /\ r \in added THEN b.wire[q][r] + 1
                              ELSE b.wire[q][r]
         /\ b.reqs[q][r] \in Nat /\ b.wire[q][r] \in Nat
  BY <1>2 DEF BookType, Plus
<1>5. \A q \in Peers, r \in Requests :
         /\ c.reqs[q][r] >= b.reqs[q][r]
         /\ q # p => c.reqs[q][r] = b.reqs[q][r]
         /\ p \in connected =>
               c.wire[q][r] - b.wire[q][r] = c.reqs[q][r] - b.reqs[q][r]
  BY <1>4
<1>6. \A j \in Pieces :
         /\ b.requested[j] \subseteq c.requested[j]
         /\ c.requested[j] \subseteq
               b.requested[j] \cup (IF j \in DOMAIN d THEN {d[j]} ELSE {})
  BY <1>2 DEF BookType, SetRequested
<1>7. ASSUME NEW j \in Pieces, NEW t \in Slices, t \in c.requested[j],
             t \notin b.requested[j]
      PROVE  c.reqs[p][<<j, t>>] > 0
  <2>1. <<j, t>> \in added
    BY <1>3, <1>6, <1>7
  <2>2. <<j, t>> \in Requests
    BY DEF Requests, Offsets
  <2> QED BY <1>4, <2>1, <2>2
<1> QED BY <1>2, <1>5, <1>6, <1>7 DEF More, c

\* What GenerateRequest asks for.
LEMMA GenerateRequestMore ==
    ASSUME NEW b \in BookType, NEW p \in Peers, NEW c \in GenerateRequest(b, p)
    PROVE  More(b, c, p)
<1>1. CASE c = b
  BY <1>1, NoMore
<1>2. CASE \E r \in Pieces \X Slices : c = AddRequest(b, p, r[1], r[2])
  <2>1. PICK r \in Pieces \X Slices : c = AddRequest(b, p, r[1], r[2])
    BY <1>2
  <2>2. r[1] \in Pieces /\ r[2] \in Offsets
    BY DEF Offsets
  <2> QED BY <2>1, <2>2, AddRequestMore
<1>3. CASE \E d \in Choices(b) : c = AddAll(b, p, d)
  BY <1>3, AddAllMore
<1> QED BY <1>1, <1>2, <1>3 DEF GenerateRequest

\* Further requests leave no slice without one.
LEMMA AskedMore ==
    ASSUME NEW b \in BookType, NEW c \in BookType, NEW p \in Peers,
           NEW I \in SUBSET Pieces, AskedIn(b, I), More(b, c, p)
    PROVE  AskedIn(c, I)
<1> SUFFICES ASSUME NEW i \in I, NEW s \in Slices,
                    s \in c.requested[i], s \notin c.complete[i]
             PROVE  \E q \in Peers : c.reqs[q][<<i, s>>] > 0
  BY DEF AskedIn
<1>1. i \in Pieces /\ <<i, s>> \in Requests
  BY DEF Requests, Offsets
<1>2. CASE c.reqs[p][<<i, s>>] > 0
  BY <1>2
<1>3. CASE s \in b.requested[i]
  <2>1. s \notin b.complete[i]
    BY DEF More
  <2>2. PICK q \in Peers : b.reqs[q][<<i, s>>] > 0
    BY <1>3, <2>1 DEF AskedIn
  <2>3. b.reqs[q][<<i, s>>] \in Nat /\ c.reqs[q][<<i, s>>] \in Nat
    BY <1>1 DEF BookType
  <2>4. c.reqs[q][<<i, s>>] >= b.reqs[q][<<i, s>>]
    BY <1>1 DEF More
  <2> QED BY <2>2, <2>3, <2>4
<1> QED BY <1>1, <1>2, <1>3 DEF More

\* What a slice that arrives changes in the book.
Received(p, i, s) ==
    [complete |-> IF i \in Incomplete THEN [complete EXCEPT ![i] = @ \cup {s}]
                  ELSE complete,
     requested |-> requested,
     reqs |-> GotSlice(p, i, s),
     wire |-> [wire EXCEPT ![p][<<i, s>>] = @ - 1]]

\* A slice that arrives is no longer waited for; the others keep their place.
LEMMA ReceivedBook ==
    ASSUME TypeOK, NEW p \in Peers, NEW i \in Pieces, NEW s \in Slices,
           wire[p][<<i, s>>] > 0
    PROVE  /\ Received(p, i, s) \in BookType
           /\ Asked => AskedIn(Received(p, i, s), Incomplete)
           /\ \A q \in Peers, r \in Requests :
                 /\ Received(p, i, s).reqs[q][r] <= reqs[q][r]
                 /\ reqs[q][r] <= wire[q][r] =>
                       Received(p, i, s).reqs[q][r] <= Received(p, i, s).wire[q][r]
<1> DEFINE e == <<i, s>>
           c == Received(p, i, s)
<1>1. e \in Requests
  BY DEF Requests, Offsets
<1>2. /\ c.complete = IF i \in Incomplete THEN [complete EXCEPT ![i] = @ \cup {s}]
                      ELSE complete
      /\ c.requested = requested
      /\ c.reqs = IF reqs[p][e] > 0 THEN [reqs EXCEPT ![p][e] = @ - 1] ELSE reqs
      /\ c.wire = [wire EXCEPT ![p][e] = @ - 1]
      /\ c = [complete |-> c.complete, requested |-> c.requested,
              reqs |-> c.reqs, wire |-> c.wire]
  BY DEF Received, GotSlice
<1>3. wire[p][e] > 0
  OBVIOUS
<1>4. \A j \in Pieces, t \in Slices : <<j, t>> = e => j = i /\ t = s
  OBVIOUS
<1> HIDE DEF e, c
<1>5. ASSUME NEW q \in Peers, NEW r \in Requests
      PROVE  /\ reqs[q][r] \in Nat /\ wire[q][r] \in Nat
             /\ c.reqs[q][r] = IF q = p /\ r = e /\ reqs[q][r] > 0
                               THEN reqs[q][r] - 1 ELSE reqs[q][r]
             /\ c.wire[q][r] = IF q = p /\ r = e
                               THEN wire[q][r] - 1 ELSE wire[q][r]
  BY <1>1, <1>2 DEF TypeOK
<1>6. c \in BookType
  <2>1. c.complete \in [Pieces -> SUBSET Slices]
    BY <1>2 DEF TypeOK
  <2>2. c.reqs \in [Peers -> [Requests -> Nat]]
    BY <1>1, <1>2 DEF TypeOK
  <2>3. c.wire \in [Peers -> [Requests -> Nat]]
    BY <1>1, <1>2, <1>3 DEF TypeOK
  <2>4. c.requested \in [Pieces -> SUBSET Offsets]
    BY <1>2 DEF TypeOK
  <2> QED BY <1>2, <2>1, <2>2, <2>3, <2>4 DEF BookType
<1>7. ASSUME Asked PROVE AskedIn(c, Incomplete)
  <2> SUFFICES ASSUME NEW j \in Incomplete, NEW t \in Slices,
                      t \in c.requested[j], t \notin c.complete[j]
               PROVE  \E q \in Peers : c.reqs[q][<<j, t>>] > 0
    BY DEF AskedIn
  <2>1. j \in Pieces /\ <<j, t>> \in Requests
    BY DEF Incomplete, Requests, Offsets
  <2>2. <<j, t>> # e /\ t \notin complete[j]
    BY <1>2, <1>4, <2>1 DEF TypeOK
  <2>3. PICK q \in Peers : reqs[q][<<j, t>>] > 0
    BY <1>2, <1>7, <2>2 DEF Asked, AskedIn, Book
  <2>4. c.reqs[q][<<j, t>>] = reqs[q][<<j, t>>]
    BY <1>5, <2>1, <2>2
  <2> QED BY <2>3, <2>4
<1>8. ASSUME NEW q \in Peers, NEW r \in Requests
      PROVE  /\ c.reqs[q][r] <= reqs[q][r]
             /\ reqs[q][r] <= wire[q][r] => c.reqs[q][r] <= c.wire[q][r]
  BY <1>3, <1>5
<1> QED BY <1>6, <1>7, <1>8 DEF c

\* The book after a slice has arrived.
LEMMA RecvPieceBook ==
    ASSUME TypeOK, NEW p \in Peers, NEW i \in Pieces, NEW s \in Slices,
           NEW bytes \in {"good", "bad"}, RecvPiece(p, i, s, bytes)
    PROVE  /\ Book' \in BookType
           /\ More(Received(p, i, s), Book', p)
           /\ wire[p][<<i, s>>] > 0
<1> DEFINE c == Received(p, i, s)
<1>1. wire[p][<<i, s>>] > 0 /\ c \in BookType
  BY ReceivedBook DEF RecvPiece
<1>2. Becomes(c) \/ \E b \in GenerateRequest(c, p) : Becomes(b)
  BY DEF RecvPiece, Received
<1> HIDE DEF c
<1>3. PICK b \in BookType : More(c, b, p) /\ Becomes(b)
  BY <1>1, <1>2, NoMore, GenerateRequestMore, GenerateRequestType
<1>4. Book' = b
  BY <1>3 DEF Becomes, Book, BookType
<1> QED BY <1>1, <1>3, <1>4 DEF c

\* Without chokes and recoveries every step leaves the slices that are marked
\* in somebody's queue.
LEMMA AskedStep ==
    ASSUME TypeOK, Asked, [Next]_vars, ~recover, \A p \in Peers : ~RecvChoke(p)
    PROVE  Asked'
<1>1. /\ Asked' = AskedIn(Book', Incomplete')
      /\ Incomplete' = Pieces \ have' /\ Incomplete \subseteq Pieces
  BY DEF Asked, AskedIn, Incomplete, Pieces, Slices
<1>2. Book \in BookType /\ AskedIn(Book, Incomplete)
  BY BookIsTyped DEF Asked
<1>3. ASSUME UNCHANGED <<book, have>> PROVE Asked'
  BY <1>3 DEF book, Asked, AskedIn, Book, Incomplete
<1>4. ASSUME NEW p \in Peers, NEW b \in BookType, Becomes(b), More(Book, b, p),
             have' = have
      PROVE  Asked'
  <2>1. Book' = b
    BY <1>4 DEF Becomes, Book, BookType
  <2> QED BY <1>1, <1>2, <1>4, <2>1, AskedMore DEF Incomplete
<1>5. ASSUME SuspendDownloading, have' = have PROVE Asked'
  BY <1>5 DEF SuspendDownloading, Asked, AskedIn, Book, Incomplete
<1>6. CASE UpdateBegin
  <2>1. UNCHANGED <<book, have>>
    BY <1>6 DEF UpdateBegin, Book, book
  <2> QED BY <1>3, <2>1
<1>7. ASSUME NEW p \in Peers, UpdateAsk(p) PROVE Asked'
  <2>1. have' = have
    BY <1>7 DEF UpdateAsk
  <2>2. UNCHANGED book \/ \E b \in RequestAvailable(Book, p) : Becomes(b)
    BY <1>7 DEF UpdateAsk
  <2> QED BY <1>2, <1>3, <1>4, <2>1, <2>2, RequestAvailableMore, RequestAvailableType
<1>8. CASE UpdateCheckComplete
  <2> DEFINE done == {i \in Incomplete : checkComplete /\ complete[i] = Slices}
  <2>1. /\ complete' = [i \in Pieces |-> IF i \in done THEN {} ELSE complete[i]]
        /\ requested' = [i \in Pieces |-> IF i \in done THEN {} ELSE requested[i]]
        /\ reqs' = reqs /\ have \subseteq have'
    BY <1>8 DEF UpdateCheckComplete, RequestedAfter
  <2> HIDE DEF done
  <2> QED BY <1>1, <1>2, <2>1 DEF AskedIn, Book, Incomplete
<1>9. ASSUME NEW aged \in SUBSET {t \in Peers \X Requests : reqs[t[1]][t[2]] > 0},
             NEW early \in SUBSET aged, UpdateRetry(aged, early)
      PROVE  Asked'
  <2> DEFINE slicesOf(T, i) == {r[2][2] : r \in {t \in T : t[2][1] = i}}
  <2>1. requested' =
          [i \in Pieces |->
             IF LengthKey \in requested[i] THEN requested[i]
             ELSE IF LengthKey \in slicesOf(aged, i)
                  THEN requested[i] \cup slicesOf(early, i) \cup {LengthKey}
                  ELSE requested[i] \cup slicesOf(aged, i)]
    BY <1>9 DEF UpdateRetry
  <2>2. \A i : slicesOf(early, i) \subseteq slicesOf(aged, i)
    OBVIOUS
  <2>3. ASSUME NEW i, NEW s \in slicesOf(aged, i)
        PROVE  \E p \in Peers : reqs[p][<<i, s>>] > 0
    <3>1. PICK t \in aged : t[2][1] = i /\ s = t[2][2]
      BY <2>3
    <3>2. t[1] \in Peers /\ t[2] \in Pieces \X Offsets /\ reqs[t[1]][t[2]] > 0
      BY DEF Requests
    <3>3. t[2] = <<i, s>>
      BY <3>1, <3>2
    <3> QED BY <3>2, <3>3
  <2>4. UNCHANGED <<have, complete, reqs>>
    BY <1>9 DEF UpdateRetry
  <2> HIDE DEF slicesOf
  <2>5. ASSUME NEW i \in Incomplete, NEW s \in Slices, s \in requested'[i],
               s \notin complete[i]
        PROVE  \E p \in Peers : reqs[p][<<i, s>>] > 0
    <3>1. s \in requested[i] \/ s \in slicesOf(aged, i)
      BY <2>1, <2>2, <2>5, <1>1
    <3>2. CASE s \in requested[i]
      BY <1>2, <2>5, <3>2 DEF AskedIn, Book
    <3> QED BY <2>3, <3>1, <3>2
  <2> QED BY <1>1, <2>4, <2>5 DEF AskedIn, Book, Incomplete
<1>10. CASE UpdateFinish
  <2>1. have' = have
    BY <1>10 DEF UpdateFinish
  <2>2. UNCHANGED book \/ SuspendDownloading
    BY <1>10 DEF UpdateFinish
  <2> QED BY <1>3, <1>5, <2>1, <2>2
<1>11. ASSUME NEW p \in Peers, NEW i \in Pieces, NEW s \in Slices,
              NEW bytes \in {"good", "bad"}, RecvPiece(p, i, s, bytes)
       PROVE  Asked'
  <2> DEFINE c == Received(p, i, s)
  <2>1. Book' \in BookType /\ More(c, Book', p) /\ wire[p][<<i, s>>] > 0
    BY <1>11, RecvPieceBook
  <2>2. c \in BookType /\ AskedIn(c, Incomplete)
    BY <2>1, ReceivedBook
  <2>3. Incomplete' = Incomplete
    BY <1>11 DEF RecvPiece, Incomplete
  <2> HIDE DEF c
  <2> QED BY <1>1, <2>1, <2>2, <2>3, AskedMore
<1>12. ASSUME NEW p \in Peers, RecvUnchoke(p) PROVE Asked'
  <2>1. have' = have
    BY <1>12 DEF RecvUnchoke
  <2>2. \E b \in RequestAvailable(Book, p) : Becomes(b)
    BY <1>12 DEF RecvUnchoke
  <2> QED BY <1>2, <1>4, <2>1, <2>2, RequestAvailableMore, RequestAvailableType
<1>13. ASSUME NEW p \in Peers, NEW i \in Pieces, RecvHave(p, i) PROVE Asked'
  BY <1>3, <1>13 DEF RecvHave
<1>14. ASSUME NEW p \in Peers, Connect(p) PROVE Asked'
  BY <1>3, <1>14 DEF Connect
<1>15. ASSUME NEW p \in Peers, Disconnect(p) PROVE Asked'
  BY <1>15 DEF Disconnect, Asked, AskedIn, Book, Incomplete
<1>16. CASE Suspend
  BY <1>5, <1>16 DEF Suspend
<1>17. CASE Resume
  BY <1>3, <1>17 DEF Resume
<1>18. ASSUME NEW quit \in BOOLEAN, Restart(quit) PROVE Asked'
  BY <1>18 DEF Restart, NoSlices, Asked, AskedIn, Book, Incomplete
<1>19. CASE Deleted \/ UNCHANGED vars
  BY <1>3, <1>19 DEF Deleted, vars, book
<1> QED
  BY <1>6, <1>7, <1>8, <1>9, <1>10, <1>11, <1>12, <1>13, <1>14, <1>15, <1>16,
     <1>17, <1>18, <1>19
     DEF Next, Update, Receive, Network, Process

(* A slice that waits for nobody's answer, the reason of a download that   *)
(* stalls, takes a choke or a recovery: as long as there is none, whatever *)
(* connections break, answers come late or twice, pieces fail, and the     *)
(* session is suspended or restarted, a slice that is marked as requested  *)
(* is in the queue of a peer (Session.cpp:857-895, Peer.cpp).              *)
THEOREM StallNeedsChoke ==
    Spec /\ [][\A p \in Peers : ~RecvChoke(p)]_vars /\ [](~recover) => []Asked
<1>1. Init => Asked
  BY DEF Init, Asked, AskedIn, Book, NoSlices, Incomplete
<1>2. ASSUME UNCHANGED vars, Asked PROVE Asked'
  BY <1>2 DEF vars, Asked, AskedIn, Book, Incomplete
<1>3. TypeOK /\ Asked /\ [Next]_vars /\ ~recover
         /\ [\A p \in Peers : ~RecvChoke(p)]_vars => Asked'
  BY <1>2, AskedStep
<1> QED BY <1>1, <1>3, TypeCorrect, PTL DEF Spec

-----------------------------------------------------------------------------
(* Calm weather.                                                           *)

\* Calm weather is weather: what holds of Spec holds of CalmSpec.
THEOREM CalmIsSpec == CalmSpec => Spec
<1>1. [CalmNext]_vars => [Next]_vars
  BY DEF CalmNext, Next, Receive, Network, Process
<1> QED BY <1>1, PTL DEF CalmSpec, Spec

\* Nobody chokes, nothing is garbled, and every queued request is on the wire
\* of a connection.
Calm ==
    /\ ~recover /\ \A p \in Peers : ~choked[p]
    /\ \A p \in Peers, r \in Requests :
          reqs[p][r] <= wire[p][r] /\ (reqs[p][r] > 0 => p \in connected)

\* A peer that Update has looked at has requests, or nothing that is wanted.
Looked ==
    phase = "ask" /\ ~seeding /\ ~already =>
        \A p \in Unchoked \ todo :
            Offers(Book, p) = {} \/ \E r \in Requests : reqs[p][r] > 0

\* Further requests to a connected peer keep the queues on the wire.
LEMMA CalmMore ==
    ASSUME NEW b \in BookType, NEW c \in BookType, NEW p \in connected,
           p \in Peers, More(b, c, p), NEW q \in Peers, NEW r \in Requests,
           b.reqs[q][r] <= b.wire[q][r], b.reqs[q][r] > 0 => q \in connected
    PROVE  c.reqs[q][r] <= c.wire[q][r] /\ (c.reqs[q][r] > 0 => q \in connected)
<1>1. /\ b.reqs[q][r] \in Nat /\ c.reqs[q][r] \in Nat
      /\ b.wire[q][r] \in Nat /\ c.wire[q][r] \in Nat
  BY DEF BookType
<1>2. /\ c.wire[q][r] - b.wire[q][r] = c.reqs[q][r] - b.reqs[q][r]
      /\ q # p => c.reqs[q][r] = b.reqs[q][r]
  BY DEF More
<1>3. c.reqs[q][r] <= c.wire[q][r]
  BY <1>1, <1>2
<1>4. c.reqs[q][r] > 0 => q \in connected
  <2>1. CASE q = p
    BY <2>1
  <2>2. CASE q # p
    BY <1>2, <2>2
  <2> QED BY <2>1, <2>2
<1> QED BY <1>3, <1>4

\* A step in calm weather keeps it calm.
LEMMA CalmStep ==
    ASSUME TypeOK, Calm, [CalmNext]_vars
    PROVE  Calm'
<1>1. Book \in BookType
  BY BookIsTyped
<1>2. ASSUME NEW p \in connected, p \in Peers, NEW b \in BookType,
             NEW c \in BookType, More(b, c, p), Becomes(c),
             \A q \in Peers, r \in Requests :
                /\ b.reqs[q][r] <= b.wire[q][r]
                /\ b.reqs[q][r] > 0 => q \in connected,
             UNCHANGED <<recover, connected>>,
             \A q \in Peers : ~choked'[q]
      PROVE  Calm'
  <2>1. reqs' = c.reqs /\ wire' = c.wire
    BY <1>2 DEF Becomes
  <2>2. \A q \in Peers, r \in Requests :
           c.reqs[q][r] <= c.wire[q][r] /\ (c.reqs[q][r] > 0 => q \in connected)
    BY <1>2, CalmMore
  <2> QED BY <1>2, <2>1, <2>2 DEF Calm
<1>3. CASE UpdateBegin
  BY <1>3 DEF UpdateBegin, Calm, Book, peerVars
<1>4. ASSUME NEW p \in Peers, UpdateAsk(p) PROVE Calm'
  <2>1. UNCHANGED <<recover, connected, choked>>
    BY <1>4 DEF UpdateAsk, peerVars
  <2>2. CASE UNCHANGED book
    BY <2>1, <2>2 DEF book, Calm
  <2>3. CASE p \in connected /\ \E b \in RequestAvailable(Book, p) : Becomes(b)
    <3>1. PICK c \in RequestAvailable(Book, p) : Becomes(c)
      BY <2>3
    <3>2. c \in BookType /\ More(Book, c, p)
      BY <1>1, <3>1, RequestAvailableType, RequestAvailableMore
    <3>3. \A q \in Peers, r \in Requests :
             /\ Book.reqs[q][r] <= Book.wire[q][r]
             /\ Book.reqs[q][r] > 0 => q \in connected
      BY DEF Calm, Book
    <3> QED BY <1>1, <1>2, <2>1, <2>3, <3>1, <3>2, <3>3 DEF Calm
  <2> QED BY <1>4, <2>2, <2>3 DEF UpdateAsk
<1>5. CASE UpdateCheckComplete
  BY <1>5 DEF UpdateCheckComplete, Calm, peerVars
<1>6. ASSUME NEW aged, NEW early, UpdateRetry(aged, early) PROVE Calm'
  <2>1. /\ wire' = [p \in Peers |-> [r \in Requests |->
                      IF <<p, r>> \in aged /\ p \in connected
                      THEN wire[p][r] + 1 ELSE wire[p][r]]]
        /\ UNCHANGED <<reqs, recover, connected, choked>>
    BY <1>6 DEF UpdateRetry, peerVars
  <2>2. ASSUME NEW p \in Peers, NEW r \in Requests
        PROVE  /\ wire[p][r] \in Nat /\ reqs[p][r] \in Nat
               /\ wire'[p][r] \in {wire[p][r], wire[p][r] + 1}
    <3>1. wire[p][r] \in Nat /\ reqs[p][r] \in Nat
      BY DEF TypeOK
    <3>2. wire'[p][r] \in {wire[p][r], wire[p][r] + 1}
      BY <2>1
    <3> QED BY <3>1, <3>2
  <2> QED BY <2>1, <2>2 DEF Calm
<1>7. CASE UpdateFinish
  <2>1. UNCHANGED <<recover, choked>>
    BY <1>7 DEF UpdateFinish
  <2>2. CASE UNCHANGED <<book, connected>>
    BY <2>1, <2>2 DEF book, Calm
  <2>3. CASE SuspendDownloading
    BY <2>1, <2>3 DEF SuspendDownloading, NoRequests, Calm
  <2> QED BY <1>7, <2>2, <2>3 DEF UpdateFinish
<1>8. ASSUME NEW p \in Peers, Connect(p) PROVE Calm'
  BY <1>8 DEF Connect, book, Calm, TypeOK
<1>9. ASSUME NEW p \in Peers, RecvUnchoke(p) PROVE Calm'
  <2>1. PICK c \in RequestAvailable(Book, p) : Becomes(c)
    BY <1>9 DEF RecvUnchoke
  <2>2. c \in BookType /\ More(Book, c, p)
    BY <1>1, <2>1, RequestAvailableType, RequestAvailableMore
  <2>3. \A q \in Peers, r \in Requests :
           /\ Book.reqs[q][r] <= Book.wire[q][r]
           /\ Book.reqs[q][r] > 0 => q \in connected
    BY DEF Calm, Book
  <2>4. /\ p \in connected /\ UNCHANGED <<recover, connected>>
        /\ \A q \in Peers : ~choked'[q]
    BY <1>9 DEF RecvUnchoke, Calm, TypeOK
  <2> QED BY <1>1, <1>2, <2>1, <2>2, <2>3, <2>4
<1>10. ASSUME NEW p \in Peers, NEW i \in Pieces, NEW s \in Slices,
              NEW bytes \in {"good", "bad"}, RecvPiece(p, i, s, bytes)
       PROVE  Calm'
  <2> DEFINE c == Received(p, i, s)
  <2>1. Book' \in BookType /\ More(c, Book', p) /\ wire[p][<<i, s>>] > 0
    BY <1>10, RecvPieceBook
  <2>2. c \in BookType
        /\ \A q \in Peers, r \in Requests :
              /\ c.reqs[q][r] <= reqs[q][r]
              /\ reqs[q][r] <= wire[q][r] => c.reqs[q][r] <= c.wire[q][r]
    BY <2>1, ReceivedBook
  <2>3. Becomes(Book')
    BY DEF Becomes, Book
  <2>4. /\ p \in connected /\ UNCHANGED <<recover, connected, choked>>
    BY <1>10 DEF RecvPiece, peerVars
  <2> HIDE DEF c
  <2>5. ASSUME NEW q \in Peers, NEW r \in Requests
        PROVE  /\ c.reqs[q][r] <= c.wire[q][r]
               /\ c.reqs[q][r] > 0 => q \in connected
    <3>1. c.reqs[q][r] \in Nat /\ reqs[q][r] \in Nat
      BY <2>2 DEF BookType, TypeOK
    <3> QED BY <2>2, <3>1 DEF Calm
  <2> QED BY <1>2, <2>1, <2>2, <2>3, <2>4, <2>5 DEF Calm
<1>11. CASE Deleted \/ UNCHANGED vars
  BY <1>11 DEF Deleted, vars, Calm
<1> QED
  BY <1>3, <1>4, <1>5, <1>6, <1>7, <1>8, <1>9, <1>10, <1>11 DEF CalmNext, Update

\* What is offered gets no more by further requests.
LEMMA OffersMore ==
    ASSUME NEW b, NEW c, NEW p, NEW q, More(b, c, p)
    PROVE  Offers(c, q) \subseteq Offers(b, q)
<1>1. \A i \in Pieces : FreeSlices(c, i) \subseteq FreeSlices(b, i)
  BY DEF More, FreeSlices
<1> QED BY <1>1 DEF Offers, Incomplete

\* A step in calm weather leaves nobody unlooked at.
LEMMA LookedStep ==
    ASSUME TypeOK, Looked, Calm, [CalmNext]_vars
    PROVE  Looked'
<1>1. CASE UpdateBegin
  BY <1>1 DEF UpdateBegin, Looked, Unchoked, flags, peerVars
<1>2. ASSUME NEW p \in Peers, UpdateAsk(p) PROVE Looked'
  <2> SUFFICES ASSUME ~seeding, ~already, NEW q \in Unchoked \ (todo \ {p})
               PROVE  Offers(Book, q)' = {} \/ \E r \in Requests : reqs'[q][r] > 0
    BY <1>2 DEF UpdateAsk, Looked, Unchoked, flags, peerVars
  <2>1. phase = "ask" /\ UNCHANGED <<have, has, choked, connected>>
    BY <1>2 DEF UpdateAsk, peerVars
  <2>2. Offers(Book, q)' = Offers(Book', q)
    BY <2>1 DEF Offers, Incomplete, IsAbsent, FreeSlices
  <2>3. CASE UNCHANGED book /\ p \notin connected
    <3>1. Book' = Book /\ reqs' = reqs /\ q \in Unchoked \ todo
      BY <2>3 DEF book, Book, Unchoked
    <3> QED BY <2>1, <2>2, <3>1 DEF Looked
  <2>4. CASE p \in connected /\ \E b \in RequestAvailable(Book, p) : Becomes(b)
    <3>1. PICK c \in RequestAvailable(Book, p) : Becomes(c)
      BY <2>4
    <3>2. /\ Book \in BookType /\ c \in BookType /\ More(Book, c, p)
          /\ Offers(c, p) = {} \/ \E r \in Requests : c.reqs[p][r] > 0
      BY <3>1, BookIsTyped, RequestAvailableType, RequestAvailableMore
    <3>3. Book' = c /\ reqs' = c.reqs
      BY <3>1, <3>2 DEF Becomes, Book, BookType
    <3>4. CASE q = p
      BY <2>2, <3>2, <3>3, <3>4
    <3>5. CASE q # p
      <4>1. q \in Peers /\ q \in Unchoked \ todo
        BY <3>5 DEF Unchoked, TypeOK
      <4>2. Offers(Book, q) = {} \/ \E r \in Requests : reqs[q][r] > 0
        BY <2>1, <4>1 DEF Looked
      <4>3. \A r \in Requests : c.reqs[q][r] = reqs[q][r]
        BY <3>2, <3>5, <4>1 DEF More, Book
      <4>4. Offers(c, q) \subseteq Offers(Book, q)
        BY <3>2, OffersMore
      <4> QED BY <2>2, <3>3, <4>2, <4>3, <4>4
    <3> QED BY <3>4, <3>5
  <2> QED BY <1>2, <2>3, <2>4 DEF UpdateAsk
<1>3. ASSUME phase' # "ask" PROVE Looked'
  BY <1>3 DEF Looked
<1>4. CASE UNCHANGED vars
  BY <1>4 DEF vars, Looked, Unchoked, Offers, Book, Incomplete, IsAbsent, FreeSlices
<1>5. CASE UpdateCheckComplete \/ UpdateFinish
  BY <1>3, <1>5 DEF UpdateCheckComplete, UpdateFinish
<1>6. ASSUME NEW aged, NEW early, UpdateRetry(aged, early) PROVE Looked'
  BY <1>3, <1>6 DEF UpdateRetry
<1>7. ASSUME NEW p, Connect(p) \/ RecvUnchoke(p) PROVE Looked'
  BY <1>3, <1>7 DEF Connect, RecvUnchoke, Listening
<1>8. ASSUME NEW p, NEW i, NEW s, NEW bytes, RecvPiece(p, i, s, bytes) PROVE Looked'
  BY <1>3, <1>8 DEF RecvPiece, Listening
<1> QED
  BY <1>1, <1>2, <1>4, <1>5, <1>6, <1>7, <1>8 DEF CalmNext, Update, Deleted

\* Calm, Looked and Asked hold at first.
LEMMA InitCalm == Init => Calm /\ Looked /\ Asked
  BY DEF Init, Calm, Looked, Asked, AskedIn, Book, NoSlices, NoRequests, Incomplete

\* Nobody chokes in calm weather.
LEMMA CalmNoChoke ==
    ASSUME Calm, Calm', TypeOK, NEW p \in Peers
    PROVE  ~RecvChoke(p)
  BY DEF RecvChoke, Calm, TypeOK

\* In calm weather all three hold in every state.
LEMMA CalmInv == CalmSpec => [](TypeOK /\ Calm /\ Looked /\ Asked)
<1>1. TypeOK /\ Calm /\ Looked /\ Asked /\ [CalmNext]_vars
         => (Calm /\ Looked /\ Asked)'
  <2> SUFFICES ASSUME TypeOK, Calm, Looked, Asked, [CalmNext]_vars
               PROVE  (Calm /\ Looked /\ Asked)'
    OBVIOUS
  <2>1. Calm' /\ Looked'
    BY CalmStep, LookedStep
  <2>2. [Next]_vars
    BY DEF CalmNext, Next, Receive, Network, Process
  <2>3. Asked'
    BY <2>1, <2>2, CalmNoChoke, AskedStep DEF Calm
  <2> QED BY <2>1, <2>3
<1>2. CalmSpec => []TypeOK
  BY CalmIsSpec, TypeCorrect, PTL
<1> QED BY <1>1, <1>2, InitCalm, PTL DEF CalmSpec

(* In calm weather a session never stalls: when Update has looked at every *)
(* peer and one in scope has a slice that is missing, an answer is under   *)
(* way or a request will be sent again.  This is what Session.cpp:1051     *)
(* says, and what a choke breaks (the run session_stall).                  *)
THEOREM CalmNeverStalls == CalmSpec => []NeverStalls
<1>1. ASSUME TypeOK, Calm, Looked, Asked PROVE NeverStalls
  <2> SUFFICES ASSUME AllAsked, NEW p \in Unchoked \cap Near,
                      NEW i \in Incomplete, i \in has[p], complete[i] # Slices
               PROVE  \E q \in connected : Live(q)
    BY DEF NeverStalls
  <2>1. ASSUME NEW q \in Peers, NEW r \in Requests, reqs[q][r] > 0
        PROVE  q \in connected /\ Live(q)
    <3>1. reqs[q][r] \in Nat /\ wire[q][r] \in Nat
      BY <1>1 DEF TypeOK
    <3> QED BY <1>1, <2>1, <3>1 DEF Calm, Live
  <2>2. p \in Peers /\ p \in Unchoked \ todo /\ p \in Near /\ i \in Pieces
    BY <1>1 DEF AllAsked, Unchoked, TypeOK, Incomplete
  <2>3. CASE \E r \in Requests : reqs[p][r] > 0
    BY <2>1, <2>2, <2>3
  <2>4. CASE Offers(Book, p) = {}
    <3>1. FreeSlices(Book, i) = {}
      BY <2>2, <2>4 DEF Offers
    <3>2. PICK s \in Slices : s \notin complete[i]
      BY <1>1, <2>2 DEF TypeOK
    <3>3. s \in requested[i]
      BY <3>1, <3>2 DEF FreeSlices, Book
    <3>4. PICK q \in Peers : reqs[q][<<i, s>>] > 0
      BY <1>1, <3>2, <3>3 DEF Asked, AskedIn, Book
    <3>5. <<i, s>> \in Requests
      BY <2>2 DEF Requests, Offsets
    <3> QED BY <2>1, <3>4, <3>5
  <2> QED BY <1>1, <2>2, <2>3, <2>4 DEF Looked, AllAsked
<1> QED BY <1>1, CalmInv, PTL

\* In calm weather nothing is saved.
LEMMA CalmSavesNothing ==
    ASSUME [CalmNext]_vars
    PROVE  UNCHANGED saved
<1>1. CASE Update
  BY <1>1 DEF Update, UpdateBegin, UpdateAsk, UpdateCheckComplete,
              UpdateRetry, UpdateFinish
<1>2. ASSUME NEW p \in Peers, Connect(p) \/ RecvUnchoke(p)
      PROVE  UNCHANGED saved
  BY <1>2 DEF Connect, RecvUnchoke
<1>3. ASSUME NEW p \in Peers, NEW i \in Pieces, NEW s \in Slices,
             NEW bytes \in {"good", "bad"}, RecvPiece(p, i, s, bytes)
      PROVE  UNCHANGED saved
  BY <1>3 DEF RecvPiece
<1>4. CASE Deleted \/ UNCHANGED vars
  BY <1>4 DEF Deleted, vars
<1> QED
  BY <1>1, <1>2, <1>3, <1>4 DEF CalmNext

(* What the run of calm weather checks of the data follows from Spec; and  *)
(* since only a state file lets a wrong piece count, none does.            *)
THEOREM CalmKeepsBytes ==
    CalmSpec => []Intact /\ VerifiedNeverRewritten /\ FirstCopyWins
<1> DEFINE Unsaved == saved.complete = NoSlices
<1>1. Init => Unsaved
  BY DEF Init
<1>2. Unsaved /\ [CalmNext]_vars => Unsaved'
  BY CalmSavesNothing DEF NoSlices
<1>3. Unsaved => Vouched
  <2>1. 0 \in Slices
    BY SessionAssumption DEF Slices
  <2> QED BY <2>1 DEF Vouched, NoSlices
<1>4. CalmSpec => []Vouched
  <2> HIDE DEF Unsaved
  <2> QED BY <1>1, <1>2, <1>3, PTL DEF CalmSpec
<1> QED
  BY <1>4, CalmIsSpec, IntegrityHolds, VerifiedNeverRewrittenHolds,
     FirstCopyWinsHolds, PTL DEF Integrity
=============================================================================
