------------------------------ MODULE Session ------------------------------
(***************************************************************************)
(* One downloading session of the BitHoc client: the lists of complete and *)
(* incomplete pieces and their slices (Session.cpp, Piece.cpp), the        *)
(* requests queued at each peer (Peer.cpp), the handlers that a peer's     *)
(* socket runs (pSocket.cpp), the once-a-second Session::Update, and the   *)
(* state file written by Save and read back by Load.                       *)
(*                                                                         *)
(* Sockets and Tick run in one thread under PeerHandler's mutex, so a      *)
(* socket handler is one action and runs only between two Updates          *)
(* (phase = "idle"); Update itself is cut at the points where another      *)
(* thread (the GUI's Suspend, which takes no mutex) or a crash may come    *)
(* between.  The start-up check at wm-bittorrent.cpp:542-562 admits only   *)
(* pieces that are two or more whole slices long, so an offset is the      *)
(* number of its slice and the slice length, used as a key, is offset 1.   *)
(***************************************************************************)
EXTENDS Integers, FiniteSets

CONSTANTS
    Peers,           \* the peers the tracker names
    NumberOfPieces,  \* m_number_of_pieces
    NumberOfSlices,  \* Piece::NumberOfSlices, the same for every piece
    Near,            \* the peers with GetNumberOfHops() <= iPeersScope
    Owns,            \* the pieces each peer has before it downloads any more
    MaxBad,          \* bound: slices that arrive with wrong bytes
    MaxCopies        \* bound: copies of a request before it is made anew

ASSUME SessionAssumption ==
    /\ IsFiniteSet(Peers)
    /\ NumberOfPieces \in Nat \ {0}
    /\ NumberOfSlices \in Nat \ {0, 1}
    /\ Near \subseteq Peers
    /\ Owns \in [Peers -> SUBSET (0 .. NumberOfPieces - 1)]
    /\ MaxBad \in Nat
    /\ MaxCopies \in Nat

Pieces == 0 .. NumberOfPieces - 1
Slices == 0 .. NumberOfSlices - 1

(* An offset read from an uninitialised local is some slice's offset or    *)
(* Junk, an offset that the remote end refuses.                            *)
Junk      == NumberOfSlices
Offsets   == Slices \cup {Junk}
Requests  == Pieces \X Offsets
LengthKey == 1

VARIABLES
    mode,          \* "running", "suspended" or "deleted"
    phase,         \* how far Update has come: "idle", "ask", "retry", "finish"
    todo,          \* peers that Update has still to ask for slices
    have,          \* m_complete; every other piece is in m_incomplete
    complete,      \* mComplete of each piece: slices received
    requested,     \* mRequested of each piece
    moved,         \* mIncomplete of each piece: what ReChek put aside
    disk,          \* what the data file holds of each slice
    checkComplete, \* m_b_check_complete
    recover,       \* bRecoverFromError
    seeding,       \* bSeeding
    already,       \* bAlreadyDownloaded
    toDelete,      \* bToDelete
    connected,     \* peers with a socket past the handshake
    choked,        \* peer -> IsChoked(): the remote end chokes us
    has,           \* the bitmap we hold of each peer
    reqs,          \* Peer::m_requests, as a bag
    wire,          \* requests on the connection not yet answered, as a bag
    saved,         \* the state file; if there is none, one that names nothing
    badLeft        \* wrong slices still allowed (MaxBad)

book      == <<complete, requested, reqs, wire>>
peerVars  == <<connected, choked, has>>
flags     == <<seeding, already, toDelete>>
vars == <<mode, phase, todo, have, complete, requested, moved, disk,
          checkComplete, recover, seeding, already, toDelete, connected,
          choked, has, reqs, wire, saved, badLeft>>

Incomplete == Pieces \ have
NoRequests == [r \in Requests |-> 0]
NoSlices   == [i \in Pieces |-> {}]

TypeOK ==
    /\ mode \in {"running", "suspended", "deleted"}
    /\ phase \in {"idle", "ask", "retry", "finish"}
    /\ todo \subseteq Peers
    /\ have \subseteq Pieces
    /\ complete \in [Pieces -> SUBSET Slices]
    /\ requested \in [Pieces -> SUBSET Offsets]
    /\ moved \in [Pieces -> SUBSET Offsets]
    /\ disk \in [Pieces -> [Slices -> {"none", "good", "bad"}]]
    /\ checkComplete \in BOOLEAN /\ recover \in BOOLEAN
    /\ seeding \in BOOLEAN /\ already \in BOOLEAN /\ toDelete \in BOOLEAN
    /\ connected \subseteq Peers
    /\ choked \in [Peers -> BOOLEAN]
    /\ has \in [Peers -> SUBSET Pieces]
    /\ reqs \in [Peers -> [Requests -> Nat]]
    /\ wire \in [Peers -> [Requests -> Nat]]
    /\ saved \in [have: SUBSET Pieces, complete: [Pieces -> SUBSET Slices]]
    /\ badLeft \in 0 .. MaxBad

-----------------------------------------------------------------------------
(* The request book: what the operations below read and change together.   *)

Book == [complete |-> complete, requested |-> requested,
         reqs |-> reqs, wire |-> wire]

Becomes(b) ==
    /\ complete' = b.complete
    /\ requested' = b.requested
    /\ reqs' = b.reqs
    /\ wire' = b.wire

(* SetRequested looks the length up, not the offset: once offset LengthKey *)
(* is in the map, no other offset is entered.                              *)
SetRequested(rq, s) == IF LengthKey \in rq THEN rq ELSE rq \cup {s}

(* SetNotRequested erases the entry at the length, whatever the offset.    *)
SetNotRequested(rq) == rq \ {LengthKey}

FreeSlices(b, i) == Slices \ (b.complete[i] \cup b.requested[i])

(* RequestedButIncomplete of one piece.                                    *)
Pending(b, i) == (Slices \cap b.requested[i]) \ b.complete[i]

AddRequest(b, p, i, s) ==
    [complete  |-> b.complete,
     requested |-> [b.requested EXCEPT ![i] = SetRequested(@, s)],
     reqs      |-> [b.reqs EXCEPT ![p][<<i, s>>] = @ + 1],
     wire      |-> IF p \in connected
                   THEN [b.wire EXCEPT ![p][<<i, s>>] = @ + 1] ELSE b.wire]

(* RemoveRequest also sends a cancel, which the other end's cmdCancel      *)
(* ignores; a Junk request has no length that is a key.                    *)
RemoveRequests(b, P) ==
    [complete  |-> b.complete,
     requested |-> [i \in Pieces |->
                      IF i \in Incomplete
                         /\ \E p \in P, s \in Slices : b.reqs[p][<<i, s>>] > 0
                      THEN SetNotRequested(b.requested[i])
                      ELSE b.requested[i]],
     reqs      |-> [p \in Peers |->
                      IF p \in P THEN NoRequests ELSE b.reqs[p]],
     wire      |-> b.wire]

-----------------------------------------------------------------------------
(* RequestAvailable: rarest piece first from a peer in scope, pieces no    *)
(* peer in scope offers from a peer out of scope; at most two requests.    *)

Available(i) ==
    Cardinality({p \in Near : i \in has[p] /\ ~choked[p]})

IsAbsent(i) == \A p \in Near : i \in has[p] => choked[p]

Offers(b, p) ==
    {i \in Incomplete : /\ i \in has[p]
                        /\ FreeSlices(b, i) # {}
                        /\ p \notin Near => IsAbsent(i)}

Before(p, i, j) ==
    IF p \in Near /\ Available(i) # Available(j)
    THEN Available(i) < Available(j)
    ELSE i <= j

AddOne(b, p) ==
    IF Offers(b, p) = {} THEN {b}
    ELSE {AddRequest(b, p, r[1], r[2]) :
             r \in {q \in Pieces \X Slices :
                 /\ q[1] \in Offers(b, p)
                 /\ \A j \in Offers(b, p) : Before(p, q[1], j)
                 /\ q[2] \in FreeSlices(b, q[1])}}

FewerThanTwo(bag) ==
    \A r1, r2 \in Requests :
        bag[r1] > 0 /\ bag[r2] > 0 => r1 = r2 /\ bag[r1] = 1

RequestAvailable(b, p) ==
    IF FewerThanTwo(b.reqs[p])
    THEN UNION {AddOne(b1, p) : b1 \in AddOne(b, p)}
    ELSE {b}

-----------------------------------------------------------------------------
(* GenerateRequest: a slice nobody was asked for; failing that, one slice  *)
(* of every piece that is not yet complete.                                *)

Wanted(b, p) == {i \in Incomplete : i \in has[p] /\ FreeSlices(b, i) # {}}

(* The search by number of requested slices gives up at random on every    *)
(* number but zero.                                                        *)
MayMiss(b, p) == \A i \in Wanted(b, p) : Pending(b, i) # {}

Open(b) == {i \in Incomplete : b.complete[i] # Slices}

(* The result of GetRandomRequestedButIncomplete is not tested: a piece    *)
(* with nothing pending takes the offset chosen for the piece before it,   *)
(* the first one whatever the uninitialised local holds.                   *)
Choices(b) ==
    {c \in [Open(b) -> Offsets] :
        \A i \in Open(b) :
            IF Pending(b, i) # {} THEN c[i] \in Pending(b, i)
            ELSE \A j \in Open(b) :
                    (j < i /\ \A k \in Open(b) : k < i => k <= j)
                        => c[i] = c[j]}

Plus(bag, R) == [r \in Requests |-> IF r \in R THEN bag[r] + 1 ELSE bag[r]]

AddAll(b, p, c) ==
    LET added == {<<i, c[i]>> : i \in DOMAIN c} IN
    [complete  |-> b.complete,
     requested |-> [i \in Pieces |-> IF i \in DOMAIN c
                                     THEN SetRequested(b.requested[i], c[i])
                                     ELSE b.requested[i]],
     reqs      |-> [b.reqs EXCEPT ![p] = Plus(@, added)],
     wire      |-> IF p \in connected
                   THEN [b.wire EXCEPT ![p] = Plus(@, added)] ELSE b.wire]

GenerateRequest(b, p) ==
    {AddRequest(b, p, r[1], r[2]) :
        r \in {q \in Pieces \X Slices :
            q[1] \in Wanted(b, p) /\ q[2] \in FreeSlices(b, q[1])}}
    \cup
    (IF ~MayMiss(b, p) THEN {}
     ELSE IF b.reqs[p] = NoRequests /\ Incomplete # {}
          THEN {AddAll(b, p, c) : c \in Choices(b)}
          ELSE {b})

-----------------------------------------------------------------------------
Init ==
    /\ mode = "running" /\ phase = "idle" /\ todo = {}
    /\ have = {} /\ complete = NoSlices /\ requested = NoSlices
    /\ moved = NoSlices
    /\ disk = [i \in Pieces |-> [s \in Slices |-> "none"]]
    /\ checkComplete = FALSE /\ recover = FALSE
    /\ seeding = FALSE /\ already = FALSE /\ toDelete = FALSE
    /\ connected = {}
    /\ choked = [p \in Peers |-> FALSE]
    /\ has = [p \in Peers |-> {}]
    /\ reqs = [p \in Peers |-> NoRequests]
    /\ wire = [p \in Peers |-> NoRequests]
    /\ saved = [have |-> {}, complete |-> NoSlices]
    /\ badLeft = MaxBad

-----------------------------------------------------------------------------
(* Handlers of the sockets.                                                *)

Listening == mode = "running" /\ phase = "idle"

(* Requests are made anew after a choke, a recovery or an answer that was  *)
(* not waited for; MaxCopies bounds how often before the first is answered. *)
WireBounded(p) == \A r \in Requests : wire[p][r] <= MaxCopies
QueueBounded(p) == \A r \in Requests : reqs[p][r] <= MaxCopies

(* The handshake and the bitfield that follows it.  OnConnect clears the   *)
(* choke of a peer we called; for one that called us it stays what it was. *)
Connect(p) ==
    /\ Listening
    /\ p \notin connected
    /\ connected' = connected \cup {p}
    /\ \E outgoing \in BOOLEAN :
          choked' = IF outgoing THEN [choked EXCEPT ![p] = FALSE] ELSE choked
    /\ has' = [has EXCEPT ![p] = @ \cup Owns[p]]
    /\ UNCHANGED <<mode, phase, todo, have, book, moved, disk, checkComplete,
                   recover, flags, saved, badLeft>>

(* The socket goes; the Peer object keeps its queue.  A stream the parser  *)
(* could not follow also raises bRecoverFromError.                         *)
Disconnect(p) ==
    /\ Listening
    /\ p \in connected
    /\ connected' = connected \ {p}
    /\ wire' = [wire EXCEPT ![p] = NoRequests]
    /\ \E garbled \in BOOLEAN : recover' = (recover \/ garbled)
    /\ UNCHANGED <<mode, phase, todo, have, complete, requested, reqs, moved,
                   disk, checkComplete, flags, choked, has, saved,
                   badLeft>>

RecvChoke(p) ==
    /\ Listening
    /\ p \in connected /\ WireBounded(p)
    /\ choked' = [choked EXCEPT ![p] = TRUE]
    /\ Becomes(RemoveRequests(Book, {p}))
    /\ UNCHANGED <<mode, phase, todo, have, moved, disk, checkComplete,
                   recover, flags, connected, has, saved, badLeft>>

RecvUnchoke(p) ==
    /\ Listening
    /\ p \in connected
    /\ choked' = [choked EXCEPT ![p] = FALSE]
    /\ \E b \in RequestAvailable(Book, p) : Becomes(b)
    /\ UNCHANGED <<mode, phase, todo, have, moved, disk, checkComplete,
                   recover, flags, connected, has, saved, badLeft>>

RecvHave(p, i) ==
    /\ Listening
    /\ p \in connected /\ i \notin has[p]
    /\ has' = [has EXCEPT ![p] = @ \cup {i}]
    /\ UNCHANGED <<mode, phase, todo, have, book, moved, disk, checkComplete,
                   recover, flags, connected, choked, saved, badLeft>>

(* Mutants of SaveSlice: the slice of a complete piece is written too; a   *)
(* later copy replaces the first; only recorded slices are written.        *)
WriteAlways(i, s, bytes) ==
    IF s \notin complete[i] THEN disk' = [disk EXCEPT ![i][s] = bytes]
    ELSE UNCHANGED disk

WriteAgain(i, s, bytes) ==
    IF i \in Incomplete THEN disk' = [disk EXCEPT ![i][s] = bytes]
    ELSE UNCHANGED disk

WriteRequested(i, s, bytes) ==
    IF i \in Incomplete /\ s \notin complete[i] /\ s \in requested[i]
    THEN disk' = [disk EXCEPT ![i][s] = bytes]
    ELSE UNCHANGED disk

(* SaveSlice keeps the first copy of a slice of an incomplete piece.       *)
SaveSlice(i, s, bytes) ==
    IF i \in Incomplete /\ s \notin complete[i]
    THEN disk' = [disk EXCEPT ![i][s] = bytes]
    ELSE UNCHANGED disk

(* Mutant of GotSlice: the queue is not searched first.                    *)
GotSliceBlindly(p, i, s) == [reqs EXCEPT ![p][<<i, s>>] = @ - 1]

(* GotSlice takes the request out of the queue.                            *)
GotSlice(p, i, s) ==
    IF reqs[p][<<i, s>>] > 0 THEN [reqs EXCEPT ![p][<<i, s>>] = @ - 1]
                             ELSE reqs

(* An unrequested slice gets its length from the list of incomplete        *)
(* pieces; without a length the slice is dropped.                          *)
RecvPiece(p, i, s, bytes) ==
    LET queued == reqs[p][<<i, s>>] > 0
        got == [complete |-> IF i \in Incomplete
                             THEN [complete EXCEPT ![i] = @ \cup {s}]
                             ELSE complete,
                requested |-> requested,
                reqs |-> GotSlice(p, i, s),
                wire |-> [wire EXCEPT ![p][<<i, s>>] = @ - 1]]
    IN
    /\ Listening
    /\ p \in connected /\ i \in has[p] /\ wire[p][<<i, s>>] > 0
    /\ bytes = "bad" => badLeft > 0
    /\ badLeft' = IF bytes = "bad" THEN badLeft - 1 ELSE badLeft
    /\ IF queued \/ i \in Incomplete
       THEN /\ queued \/ QueueBounded(p)
            /\ SaveSlice(i, s, bytes)
            /\ checkComplete' = TRUE
            /\ \E b \in GenerateRequest(got, p) : Becomes(b)
       ELSE /\ Becomes(got)
            /\ UNCHANGED <<disk, checkComplete>>
    /\ UNCHANGED <<mode, phase, todo, have, moved, recover, flags, peerVars,
                   saved>>

-----------------------------------------------------------------------------
(* Session::Update, once a second.                                         *)

(* ReChek: nothing moves once mIncomplete holds anything, and the test     *)
(* whether a slice is complete is made at its length.                      *)
ReChek(i) == i \in Incomplete /\ requested[i] # {} /\ moved[i] = {}

UpdateBegin ==
    LET rechecked ==
            [Book EXCEPT !.requested =
                [i \in Pieces |-> IF ReChek(i) THEN {} ELSE requested[i]]]
        b == IF recover THEN RemoveRequests(rechecked, Peers) ELSE Book
    IN
    /\ Listening
    /\ recover => \A p \in Peers : WireBounded(p)
    /\ complete' = complete /\ requested' = b.requested
    /\ reqs' = b.reqs /\ wire' = wire
    /\ moved' = [i \in Pieces |->
                    IF recover /\ ReChek(i) /\ LengthKey \notin complete[i]
                    THEN requested[i] ELSE moved[i]]
    /\ recover' = FALSE
    /\ phase' = "ask"
    /\ todo' = IF seeding \/ already THEN {}
               ELSE {p \in connected : ~choked[p]}
    /\ UNCHANGED <<mode, have, disk, checkComplete, flags, peerVars, saved,
                   badLeft>>

UpdateAsk(p) ==
    /\ phase = "ask" /\ p \in todo
    /\ todo' = todo \ {p}
    /\ IF p \in connected
       THEN \E b \in RequestAvailable(Book, p) : Becomes(b)
       ELSE UNCHANGED book
    /\ UNCHANGED <<mode, phase, have, moved, disk, checkComplete, recover,
                   flags, peerVars, saved, badLeft>>

(* FileManager::Verify of a single-file torrent.                           *)
Verify(i) == \A s \in Slices : disk[i][s] = "good"

(* Mutant of Accepted: the hash is not compared.                           *)
AcceptedUnchecked(done) == done

Accepted(done) == {i \in done : Verify(i)}

(* Mutant of RequestedAfter: a piece that failed keeps its requested map.  *)
RequestedKept(done) ==
    [i \in Pieces |-> IF i \in done /\ Verify(i) THEN {} ELSE requested[i]]

RequestedAfter(done) ==
    [i \in Pieces |-> IF i \in done THEN {} ELSE requested[i]]

UpdateCheckComplete ==
    LET done == {i \in Incomplete : checkComplete /\ complete[i] = Slices}
    IN
    /\ phase = "ask" /\ todo = {}
    /\ phase' = "retry"
    /\ have' = have \cup Accepted(done)
    /\ complete' = [i \in Pieces |-> IF i \in done THEN {} ELSE complete[i]]
    /\ requested' = RequestedAfter(done)
    /\ checkComplete' = FALSE
    /\ UNCHANGED <<mode, todo, reqs, wire, moved, disk, recover, flags,
                   peerVars, saved, badLeft>>

(* CheckRequests: the requests that have grown older than max_request_age  *)
(* are recorded and sent again, in the order of the lists; "early" are the *)
(* ones that come before one for the offset LengthKey.                     *)
UpdateRetry(aged, early) ==
    LET slicesOf(T, i) == {r[2][2] : r \in {t \in T : t[2][1] = i}} IN
    /\ phase = "retry"
    /\ aged = {} \/ ~(already \/ seeding)
    /\ \A t \in aged : t[2][1] \in Incomplete /\ wire[t[1]][t[2]] <= MaxCopies
    /\ requested' =
          [i \in Pieces |->
             LET T == slicesOf(aged, i) IN
             IF LengthKey \in requested[i] THEN requested[i]
             ELSE IF LengthKey \in T
                  THEN requested[i] \cup slicesOf(early, i) \cup {LengthKey}
                  ELSE requested[i] \cup T]
    /\ wire' = [p \in Peers |-> [r \in Requests |->
                  IF <<p, r>> \in aged /\ p \in connected
                  THEN wire[p][r] + 1 ELSE wire[p][r]]]
    /\ phase' = "finish"
    /\ UNCHANGED <<mode, todo, have, complete, reqs, moved, disk,
                   checkComplete, recover, flags, peerVars, saved, badLeft>>

(* What FileManager::IsComplete sees: the file has its full size once the  *)
(* last slice is written.                                                  *)
FullSize == disk[NumberOfPieces - 1][NumberOfSlices - 1] # "none"

(* SuspendDownloading: requests dropped, sockets closed.                   *)
SuspendDownloading ==
    /\ requested' = [i \in Pieces |-> IF i \in Incomplete THEN {}
                                      ELSE requested[i]]
    /\ reqs' = [p \in Peers |-> NoRequests]
    /\ wire' = [p \in Peers |-> NoRequests]
    /\ connected' = {}
    /\ UNCHANGED complete

(* Mutant of Finished: a data file of full size counts as downloaded.      *)
FinishedBySize == FullSize /\ ~seeding /\ ~toDelete

Finished == Incomplete = {} /\ ~seeding /\ ~toDelete

(* Every piece is there: the user is asked whether to seed the file; if    *)
(* not, or if the size of the file is wrong, Tick deletes the session.     *)
UpdateFinish ==
    /\ phase = "finish"
    /\ phase' = "idle"
    /\ IF Finished
       THEN /\ \E seed \in BOOLEAN :
                  /\ seed => FullSize
                  /\ seeding' = seed
                  /\ already' = (already \/ seed)
                  /\ checkComplete' = (checkComplete \/ seed)
                  /\ toDelete' = ~seed
            /\ IF already THEN UNCHANGED <<book, connected>>
               ELSE SuspendDownloading
       ELSE UNCHANGED <<flags, checkComplete, book, connected>>
    /\ mode' = IF mode = "running" /\ toDelete' THEN "deleted" ELSE mode
    /\ UNCHANGED <<todo, have, moved, disk, recover, choked, has,
                   saved, badLeft>>

-----------------------------------------------------------------------------
(* The user, and the life of the process.                                  *)

Snapshot == [have |-> have, complete |-> complete]

(* The threads that suspend and resume wait for the mutex, but no longer   *)
(* than a minute: so they run also inside an Update, which may show a      *)
(* dialog and which then goes on with the suspended session.               *)
Suspend ==
    /\ mode = "running"
    /\ mode' = "suspended"
    /\ saved' = Snapshot
    /\ SuspendDownloading
    /\ UNCHANGED <<phase, todo, have, moved, disk, checkComplete, recover,
                   flags, choked, has, badLeft>>

Resume ==
    /\ mode = "suspended"
    /\ mode' = "running"
    /\ UNCHANGED <<phase, todo, have, book, moved, disk, checkComplete,
                   recover, flags, peerVars, saved, badLeft>>

(* GetTotalBytesR equals m_length when no slice is missing, verified or    *)
(* not.                                                                    *)
AllBytes(h, c) == \A i \in Pieces : i \in h \/ c[i] = Slices

(* Session::Verify.  An incomplete piece whose hash is right gets all its  *)
(* slices; then every piece that has all its slices goes to m_complete,    *)
(* the ones that came out of the state file like that without a hash.      *)
Promoted(state) ==
    {i \in Pieces \ state.have : Verify(i) \/ state.complete[i] = Slices}

(* Mutants of Load: the list of complete pieces is not read back; Verify   *)
(* is not called.                                                          *)
LoadNone(state) ==
    /\ have' = Promoted(state)
    /\ complete' = [i \in Pieces |-> IF i \in Promoted(state) THEN {}
                                                        ELSE state.complete[i]]
    /\ already' = AllBytes(state.have, state.complete)

LoadUnverified(state) ==
    /\ have' = state.have
    /\ complete' = state.complete
    /\ already' = AllBytes(state.have, state.complete)

(* Load, and the Verify that MetainfoSocket::LoadMetaInfoFile calls next  *)
(* (MetaInfoSocket.cpp:329-330); bAlreadyDownloaded is set before Verify.  *)
Load(state) ==
    /\ have' = state.have \cup Promoted(state)
    /\ complete' = [i \in Pieces |-> IF i \in Promoted(state) THEN {}
                                                        ELSE state.complete[i]]
    /\ already' = AllBytes(state.have, state.complete)

(* The process ends and a new one loads the session.  quit: the main loop  *)
(* left normally and saved it; otherwise the process was killed, at any    *)
(* point, or was suspended and so is not saved again.                      *)
Restart(quit) ==
    /\ mode # "deleted"
    /\ quit => Listening
    /\ saved' = IF quit THEN Snapshot ELSE saved
    /\ Load(saved')
    /\ mode' = "running" /\ phase' = "idle" /\ todo' = {}
    /\ requested' = NoSlices /\ moved' = NoSlices
    /\ checkComplete' = FALSE /\ recover' = FALSE
    /\ seeding' = FALSE /\ toDelete' = FALSE
    /\ connected' = {}
    /\ choked' = [p \in Peers |-> FALSE]
    /\ has' = [p \in Peers |-> {}]
    /\ reqs' = [p \in Peers |-> NoRequests]
    /\ wire' = [p \in Peers |-> NoRequests]
    /\ UNCHANGED <<disk, badLeft>>

(* A deleted session stays deleted.                                        *)
Deleted == mode = "deleted" /\ UNCHANGED vars

-----------------------------------------------------------------------------
Update ==
    \/ UpdateBegin
    \/ \E p \in Peers : UpdateAsk(p)
    \/ UpdateCheckComplete
    \/ \E aged \in SUBSET {t \in Peers \X Requests : reqs[t[1]][t[2]] > 0} :
          \E early \in SUBSET aged : UpdateRetry(aged, early)
    \/ UpdateFinish

Receive ==
    \/ \E p \in Peers, i \in Pieces, s \in Slices :
          \E bytes \in {"good", "bad"} : RecvPiece(p, i, s, bytes)
    \/ \E p \in Peers, i \in Pieces : RecvHave(p, i)
    \/ \E p \in Peers : RecvChoke(p) \/ RecvUnchoke(p)

Network == \E p \in Peers : Connect(p) \/ Disconnect(p)

Process == Suspend \/ Resume \/ Deleted \/ \E quit \in BOOLEAN : Restart(quit)

Next == Update \/ Receive \/ Network \/ Process

Spec == Init /\ [][Next]_vars

(* Calm weather: connections last and nobody chokes, suspends or restarts. *)
CalmNext ==
    \/ Update
    \/ \E p \in Peers : Connect(p) \/ RecvUnchoke(p)
    \/ \E p \in Peers, i \in Pieces, s \in Slices :
          \E bytes \in {"good", "bad"} : RecvPiece(p, i, s, bytes)
    \/ Deleted

(* The main loop (wm-bittorrent.cpp:733-768) serves every readable socket  *)
(* before each Tick, so an answer that keeps waiting is read; it ticks as  *)
(* long as it runs; and the peers answer what they are asked for.          *)
CalmSpec ==
    /\ Init /\ [][CalmNext]_vars
    /\ WF_vars(Update)
    /\ \A p \in Peers :
          /\ SF_vars(Connect(p))
          /\ SF_vars(\E i \in Pieces, s \in Slices, bytes \in {"good", "bad"} :
                        RecvPiece(p, i, s, bytes))

-----------------------------------------------------------------------------
(* Intact.  Session.h:293 says of Verify that it verifies the integrity of *)
(* the files we are downloading: what is counted as complete, and so is    *)
(* announced to other peers and served to them, holds the right bytes.     *)
Intact == \A i \in have : Verify(i)

(* A piece that the state file has in full, but not as complete, is right: *)
(* when it was saved between its last slice and a failed verification, it  *)
(* is not.                                                                 *)
Vouched == \A i \in Pieces : saved.complete[i] = Slices => Verify(i)

(* Integrity.  Only through a state file that has, unverified, a piece     *)
(* with wrong bytes can one be counted as complete: otherwise every piece  *)
(* that counts is right, whatever duplicates, late answers, hash failures, *)
(* suspensions, kills and old state files came before (Session.cpp:1096-   *)
(* 1108, 691-716, 749-779, 298-299).                                       *)
Integrity == []Vouched => []Intact

(* NeverForgotten.  What counts as complete, and was announced to the      *)
(* peers, counts for ever: also when the process is killed before it has   *)
(* saved the piece, since the next one hashes what it finds in the data    *)
(* file (Session.cpp:749-779, 298-299, 355-389).                           *)
NeverForgotten == [][have \subseteq have']_vars

(* WrittenBeforeCounted.  A slice counted as received, in memory or in the *)
(* state file, has been written: a restart can never take a hole in the    *)
(* data file for a received slice (Session.cpp:698-703, 298-299).          *)
WrittenBeforeCounted ==
    \A i \in Pieces, s \in Slices :
        s \in complete[i] \cup saved.complete[i] => disk[i][s] # "none"

(* SeedsWholeFile.  A session that went over to seeding has every piece,   *)
(* and no hole in the data file: what a restart counted without a hash was *)
(* written as well (Session.cpp:1184-1216, 1135-1148, 763-778).            *)
SeedsWholeFile ==
    seeding => /\ have = Pieces
               /\ \A i \in Pieces, s \in Slices : disk[i][s] # "none"

(* VerifiedNeverRewritten.  No step writes into a piece once it counts as  *)
(* complete, although slices of it may still be under way from other peers *)
(* (Session.cpp:691-716).                                                  *)
VerifiedNeverRewritten == [][\A i \in have : disk'[i] = disk[i]]_vars

(* FirstCopyWins.  While a slice is counted as received its bytes stay:    *)
(* only a failed verification, which forgets the whole piece, lets another *)
(* copy replace it (Session.cpp:698, 1111-1116).                           *)
FirstCopyWins ==
    [][\A i \in Pieces : \A s \in complete[i] : disk'[i][s] = disk[i][s]]_vars

(* Stores.  The session implements the PieceStore: whatever happens to     *)
(* slices, requests and peers, a running session takes up pieces only when *)
(* they are right, a held piece keeps its bytes, and a restart finds what  *)
(* was saved, what is right and what the state file has in full, and only  *)
(* that (Session.cpp:225-389, 691-716, 749-779, 1081-1125).                *)
Store == INSTANCE PieceStore WITH
            good     <- {i \in Pieces : Verify(i)},
            held     <- have,
            durable  <- saved.have,
            received <- {i \in Pieces : saved.complete[i] = Slices}
Stores == Store!Spec

(* The moment of Update when every unchoked peer has been looked at.       *)
AllAsked == phase = "ask" /\ todo = {} /\ ~seeding /\ ~already
            /\ mode = "running"

Unchoked == {p \in connected : ~choked[p]}

(* A queued request may still bring something: its answer is under way, or *)
(* CheckRequests will send it again.                                       *)
Live(p) == \E r \in Requests :
              reqs[p][r] > 0 /\ (r[1] \in Incomplete \/ wire[p][r] > 0)

(* NeverStalls.  Session.cpp:1051 says of the loop below it that all       *)
(* unchoked sockets have requested data.  Read for the session as a whole: *)
(* while an unchoked peer has a slice that is missing here, something is   *)
(* asked for at some connected peer.                                       *)
NeverStalls ==
    AllAsked /\ (\E p \in Unchoked \cap Near, i \in Incomplete :
                   i \in has[p] /\ complete[i] # Slices)
        => \E p \in connected : Live(p)

(* Downloaded.  In calm weather, with peers that hold every piece, the     *)
(* download ends, although SetRequested records slices under the wrong key *)
(* and slices may arrive corrupted (Session.cpp:857-895, 1046-1125).       *)
Downloaded == <>(have = Pieces)
=============================================================================
