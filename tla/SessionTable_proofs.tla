------------------------ MODULE SessionTable_proofs ------------------------
(* Proofs about the sessions of the client: their types, that each is in   *)
(* one place, that a torrent has one at most and that a paused one keeps   *)
(* its row, while no wait for the mutex lasts its full minute.             *)
EXTENDS SessionTable, TLAPS

\* A torrent is active or paused, not both.
Single == \A t \in Torrents : table[t] = NoSession \/ suspended[t] = NoSession

\* The sessions are numbered as they are made.
Numbered == \A o \in live : o[2] <= made[Torrent(o)]

\* While it has the mutex, Tick finds the sessions where it found them first.
TickKept ==
    /\ main.step \in {"tick", "update"} => \A t \in main.left : table[t] # NoSession
    /\ main.step = "update" => /\ main.object \in live
                               /\ table[Torrent(main.object)] = main.object

\* The list of the window selects a row that it has.
Marked == selected \in Rows \cup {NoTorrent}

\* Where the sessions are; with TypeOK it is inductive.
Placed == Kept /\ Single /\ Numbered /\ Resumable /\ TickKept /\ Marked

\* The connections the type invariant allows.
Conns == [Sockets -> [stage : {"closed", "added", "hello"} \cup Bound,
                      session : Objects \cup {NoSession}, peer : Peers \cup {NoPeer}]]
-----------------------------------------------------------------------------
(* Types.                                                                  *)

\* Initially all variables have their types.
LEMMA InitTyped == Init => TypeOK
  BY TableAssumption DEF Init, TypeOK, Idle, Closed, Objects, Jobs

\* Closing a session's connections leaves connections.
LEMMA WithoutTyped == ASSUME TypeOK, NEW o PROVE Without(conn, o) \in Conns
  BY DEF TypeOK, Without, Closed, Conns, Bound

\* A button keeps the types.
LEMMA StartTyped ==
  ASSUME TypeOK, NEW job \in Jobs,
         NEW status \in {"Downloading", "Paused", "Deleting"}, Start(job, status)
  PROVE TypeOK'
<1>1. waiting' \in [Jobs -> 0 .. MaxWaiting]
  BY TableAssumption DEF Start, TypeOK
<1>2. row' \in [Torrents -> {"none", "Downloading", "Seeding", "Paused", "Deleting"}]
  BY DEF Start, TypeOK
<1> QED BY <1>1, <1>2 DEF Start, TypeOK, sessions, Bound

\* A thread that ends leaves the count of those that wait in its bounds.
LEMMA RunTyped ==
  ASSUME TypeOK, NEW job \in Jobs, Run(job) PROVE waiting' \in [Jobs -> 0 .. MaxWaiting]
  BY TableAssumption DEF Run, TypeOK

\* Deleting sessions keeps the flags among the sessions that live.
LEMMA DeletedTyped ==
  ASSUME TypeOK, NEW gone, Deleted(gone)
  PROVE live' \subseteq Objects /\ paused' \subseteq live' /\ seeding' \subseteq live'
        /\ toDelete' \subseteq live'
  BY DEF TypeOK, Deleted

\* A row that goes leaves typed rows and a typed selection.
LEMMA RowGoneTyped ==
  ASSUME TypeOK, NEW t \in Torrents, RowGone(t)
  PROVE /\ row' \in [Torrents -> {"none", "Downloading", "Seeding", "Paused", "Deleting"}]
        /\ selected' \in Torrents \cup {NoTorrent}
  BY DEF TypeOK, RowGone, Rows

\* The user and the threads keep the types.
LEMMA UserTyped == ASSUME TypeOK, User PROVE TypeOK'
<1>1. CASE PressPause BY <1>1, StartTyped DEF PressPause, Jobs
<1>2. CASE PressResume BY <1>2, StartTyped DEF PressResume, Jobs
<1>3. CASE PressDelete BY <1>3, StartTyped DEF PressDelete, Jobs
<1>4. CASE MenuOpen
  <2>1. waiting' \in [Jobs -> 0 .. MaxWaiting]
    BY <1>4, TableAssumption DEF MenuOpen, TypeOK, Jobs
  <2> QED BY <1>4, <2>1 DEF MenuOpen, TypeOK, sessions, list, Bound
<1>5. ASSUME NEW t \in Torrents, SelectRow(t) PROVE TypeOK'
  BY <1>5 DEF SelectRow, TypeOK, sessions, Bound
<1> QED BY <1>1, <1>2, <1>3, <1>4, <1>5 DEF User

\* A thread of a button keeps the types.
LEMMA ThreadsTyped == ASSUME TypeOK, Kept, Threads PROVE TypeOK'
<1>1. ASSUME NEW job \in Jobs, Nothing(job) PROVE TypeOK'
  <2>1. waiting' \in [Jobs -> 0 .. MaxWaiting] BY <1>1, RunTyped DEF Nothing
  <2> QED BY <1>1, <2>1 DEF Nothing, TypeOK, sessions, list, Bound
<1>2. ASSUME NEW t \in Torrents, SuspendSession(t) PROVE TypeOK'
  <2>1. waiting' \in [Jobs -> 0 .. MaxWaiting] BY <1>2, RunTyped DEF SuspendSession, Jobs
  <2>2. conn' \in Conns BY <1>2, WithoutTyped DEF SuspendSession
  <2>3. table[t] \in live BY <1>2 DEF SuspendSession, Kept
  <2>4. paused' \subseteq live BY <1>2, <2>3 DEF SuspendSession, TypeOK
  <2>5. suspended' \in [Torrents -> Objects \cup {NoSession}]
        /\ table' \in [Torrents -> Objects \cup {NoSession}]
    BY <1>2 DEF SuspendSession, TypeOK
  <2> QED BY <1>2, <2>1, <2>2, <2>4, <2>5 DEF SuspendSession, TypeOK, list, Conns, Bound
<1>3. ASSUME NEW t \in Torrents, ResumeSession(t) PROVE TypeOK'
  <2>1. waiting' \in [Jobs -> 0 .. MaxWaiting] BY <1>3, RunTyped DEF ResumeSession, Jobs
  <2>2. suspended' \in [Torrents -> Objects \cup {NoSession}]
        /\ table' \in [Torrents -> Objects \cup {NoSession}]
    BY <1>3 DEF ResumeSession, TypeOK
  <2> QED BY <1>3, <2>1, <2>2 DEF ResumeSession, TypeOK, list, Bound
<1>4. ASSUME NEW t \in Torrents, DeleteTorrent(t) PROVE TypeOK'
  <2> DEFINE o == IF table[t] # NoSession THEN table[t] ELSE suspended[t]
             left == IF table[t] # NoSession THEN Without(conn, o) ELSE conn
  <2>1. waiting' \in [Jobs -> 0 .. MaxWaiting] BY <1>4, RunTyped DEF DeleteTorrent, Jobs
  <2>2. live' \subseteq Objects /\ paused' \subseteq live' /\ seeding' \subseteq live'
        /\ toDelete' \subseteq live'
    BY <1>4, DeletedTyped DEF DeleteTorrent
  <2>3. left \in Conns BY WithoutTyped DEF TypeOK, Conns
  <2>4. Without(left, o) \in Conns BY <2>3 DEF Without, Closed, Conns, Bound
  <2>5. conn' \in Conns BY <1>4, <2>4 DEF DeleteTorrent, TypeOK, Conns
  <2>6. suspended' \in [Torrents -> Objects \cup {NoSession}]
        /\ table' \in [Torrents -> Objects \cup {NoSession}]
    BY <1>4 DEF DeleteTorrent, TypeOK
  <2>7. /\ row' \in [Torrents -> {"none", "Downloading", "Seeding", "Paused", "Deleting"}]
        /\ selected' \in Torrents \cup {NoTorrent}
    BY <1>4, RowGoneTyped DEF DeleteTorrent
  <2>8. made' = made /\ main' = main /\ known' = known BY <1>4 DEF DeleteTorrent
  <2> QED BY <2>1, <2>2, <2>5, <2>6, <2>7, <2>8 DEF TypeOK, Conns, Bound
<1>5. ASSUME NEW t \in Torrents, OpenTorrent(t) PROVE TypeOK'
  <2>1. waiting' \in [Jobs -> 0 .. MaxWaiting] BY <1>5, RunTyped DEF OpenTorrent, Jobs
  <2>2. PICK status \in {"Downloading", "Seeding"} :
          /\ row' = [row EXCEPT ![t] = status]
          /\ IF SessionExists(t) THEN UNCHANGED sessions ELSE NewSession(t, status)
    BY <1>5 DEF OpenTorrent
  <2>3. row' \in [Torrents -> {"none", "Downloading", "Seeding", "Paused", "Deleting"}]
    BY <2>2 DEF TypeOK
  <2>4. /\ selected' = selected /\ main' = main /\ known' = known /\ conn' = conn
    BY <1>5 DEF OpenTorrent
  <2>5. CASE SessionExists(t)
    BY <2>1, <2>2, <2>3, <2>4, <2>5 DEF TypeOK, sessions, Bound
  <2>6. CASE ~SessionExists(t)
    <3>1. NewSession(t, status) BY <2>2, <2>6
    <3>2. made' \in [Torrents -> 0 .. Loads] /\ <<t, made[t] + 1>> \in Objects
      BY <3>1, TableAssumption DEF NewSession, TypeOK, Objects
    <3>3. /\ live' \subseteq Objects /\ paused' \subseteq live' /\ seeding' \subseteq live'
          /\ toDelete' \subseteq live'
      BY <3>1, <3>2 DEF NewSession, TypeOK
    <3>4. suspended' = suspended /\ table' \in [Torrents -> Objects \cup {NoSession}]
      BY <3>1, <3>2 DEF NewSession, TypeOK
    <3> QED BY <2>1, <2>3, <2>4, <3>2, <3>3, <3>4 DEF TypeOK, Bound
  <2> QED BY <2>5, <2>6
<1> QED
  BY <1>1, <1>2, <1>3, <1>4, <1>5
     DEF Threads, PauseNone, ResumeNone, DeleteNone, OpenNone, Jobs

\* What a connection does keeps the types.
LEMMA NetworkTyped == ASSUME TypeOK, Network PROVE TypeOK'
<1> DEFINE Known == [Objects -> [Peers -> {"no", "new", "tried"}]]
<1>1. ASSUME UNCHANGED <<sessions, list, waiting, main>>, conn' \in Conns, known' \in Known
      PROVE TypeOK'
  BY <1>1 DEF TypeOK, sessions, list, Conns, Bound
<1>2. known \in Known /\ conn \in Conns BY DEF TypeOK, Conns
<1>3. ASSUME NEW t \in Torrents, GetSession(t) # NoSession PROVE GetSession(t) \in Objects
  BY <1>3 DEF GetSession, SessionExists, TypeOK
<1>4. ASSUME NEW c \in Sockets, OnAccept(c) PROVE TypeOK'
  <2>2. PICK p \in Peers :
           conn' = [conn EXCEPT ![c] = [Closed EXCEPT !.stage = "hello", !.peer = p]]
    BY <1>4 DEF OnAccept
  <2> DEFINE r == [Closed EXCEPT !.stage = "hello", !.peer = p]
  <2>3. r \in [stage : {"closed", "added", "hello"} \cup Bound,
               session : Objects \cup {NoSession}, peer : Peers \cup {NoPeer}]
    BY DEF Closed
  <2>4. conn' = [conn EXCEPT ![c] = r] BY <2>2
  <2> HIDE DEF r
  <2>1. conn' \in Conns BY <1>2, <2>3, <2>4 DEF Conns
  <2> QED BY <1>1, <1>2, <1>4, <2>1 DEF OnAccept, Event
<1>5. ASSUME NEW c \in Sockets, OnConnect(c) PROVE TypeOK'
  <2>2. conn' = [conn EXCEPT ![c].stage = "named"] BY <1>5 DEF OnConnect
  <2>1. conn' \in Conns BY <1>2, <2>2 DEF Conns, Bound
  <2> QED BY <1>1, <1>2, <1>5, <2>1 DEF OnConnect, Event
<1>6. ASSUME NEW c \in Sockets, OnClose(c) PROVE TypeOK'
  <2>2. conn' = [conn EXCEPT ![c] = Closed] BY <1>6 DEF OnClose
  <2>1. conn' \in Conns BY <1>2, <2>2 DEF Conns, Closed, Bound
  <2> QED BY <1>1, <1>2, <1>6, <2>1 DEF OnClose, Event
<1>7. ASSUME NEW c \in Sockets, AcceptPeerId(c) PROVE TypeOK'
  <2>1. conn' \in Conns BY <1>2, <1>7 DEF AcceptPeerId, Conns, Bound
  <2>2. known' \in Known BY <1>2, <1>7 DEF AcceptPeerId
  <2> QED BY <1>1, <1>7, <2>1, <2>2 DEF AcceptPeerId, Event
<1>8. ASSUME NEW c \in Sockets, NEW t \in Torrents, AcceptHash(c, t) PROVE TypeOK'
  <2>1. GetSession(t) \in Objects BY <1>3, <1>8 DEF AcceptHash
  <2>2. conn' = [conn EXCEPT ![c] = [[@ EXCEPT !.stage = "named"] EXCEPT !.session = GetSession(t)]]
    BY <1>8 DEF AcceptHash
  <2>3. conn' \in Conns BY <1>2, <2>1, <2>2 DEF Conns, Bound
  <2> QED BY <1>1, <1>2, <1>8, <2>3 DEF AcceptHash, Event
<1>9. ASSUME NEW t \in Torrents, NEW p \in Peers, Answer(t, p) PROVE TypeOK'
  <2>1. known' \in Known BY <1>2, <1>9 DEF Answer
  <2> QED BY <1>1, <1>2, <1>9, <2>1 DEF Answer
<1> QED BY <1>4, <1>5, <1>6, <1>7, <1>8, <1>9 DEF Network

\* Calling a peer keeps the types.
LEMMA AddConnectTyped ==
  ASSUME TypeOK, NEW o \in Objects, AddConnect(o)
  PROVE known' \in [Objects -> [Peers -> {"no", "new", "tried"}]] /\ conn' \in Conns
<1>1. CASE TryAgain(o)
  <2>1. known' \in [Objects -> [Peers -> {"no", "new", "tried"}]]
    BY <1>1 DEF TryAgain, TypeOK
  <2> QED BY <1>1, <2>1 DEF TryAgain, TypeOK, Conns
<1>2. ASSUME NEW p \in Available(o), Dial(o, p)
      PROVE known' \in [Objects -> [Peers -> {"no", "new", "tried"}]] /\ conn' \in Conns
  <2>1. p \in Peers BY DEF Available
  <2>2. known' \in [Objects -> [Peers -> {"no", "new", "tried"}]]
    BY <1>2, <2>1 DEF Dial, TypeOK
  <2>3. conn' \in Conns
    <3>1. conn \in Conns BY DEF TypeOK, Conns
    <3>2. CASE FreeSockets = {} BY <1>2, <3>1, <3>2 DEF Dial
    <3>3. CASE FreeSockets # {}
      <4>1. PICK c \in Sockets : conn' = [conn EXCEPT ![c] =
                [stage |-> "added", session |-> o, peer |-> p]]
        BY <1>2, <3>3 DEF Dial, FreeSockets
      <4>2. [stage |-> "added", session |-> o, peer |-> p]
               \in [stage : {"closed", "added", "hello"} \cup Bound,
                   session : Objects \cup {NoSession}, peer : Peers \cup {NoPeer}]
        BY <2>1
      <4> QED BY <3>1, <4>1, <4>2 DEF Conns
    <3> QED BY <3>2, <3>3
  <2> QED BY <2>2, <2>3
<1> QED BY <1>1, <1>2 DEF AddConnect

\* The main loop keeps the types.
LEMMA LoopTyped ==
  ASSUME TypeOK, TickKept, Select \/ Tick \/ \E tick \in BOOLEAN : SelectDone(tick)
  PROVE TypeOK'
<1> DEFINE Main == [step : {"idle", "select", "tick", "update"}, left : SUBSET Torrents,
                    object : Objects \cup {NoSession}, remove : BOOLEAN]
<1>1. main \in Main /\ Idle \in Main BY DEF TypeOK, Idle
<1>2. CASE Select
  <2>1. conn' \in Conns BY <1>2 DEF Select, TypeOK, Conns, Bound
  <2>2. main' \in Main BY <1>1, <1>2 DEF Select
  <2> QED BY <1>2, <2>1, <2>2 DEF Select, TypeOK, sessions, list, Conns, Bound
<1>3. ASSUME NEW tick \in BOOLEAN, SelectDone(tick) PROVE TypeOK'
  <2>1. main' \in Main BY <1>1, <1>3 DEF SelectDone, Active
  <2> QED BY <1>3, <2>1 DEF SelectDone, TypeOK, sessions, list, Bound
<1>4. ASSUME NEW t \in Torrents, Visit(t) PROVE TypeOK'
  <2>1. main' \in Main BY <1>1, <1>4 DEF Visit, TypeOK
  <2> QED BY <1>4, <2>1 DEF Visit, TypeOK, sessions, list, Bound
<1>5. ASSUME NEW deleted \in BOOLEAN, Updated(deleted) PROVE main' \in Main
  BY <1>1, <1>5 DEF Updated
<1>6. ASSUME NEW o \in Objects, Update(o) PROVE TypeOK'
  <2>0. (o \in toDelete) \in BOOLEAN OBVIOUS
  <2>1. main' \in Main
    <3>1. Updated(o \in toDelete) BY <1>6 DEF Update
    <3> HIDE DEF Main
    <3> QED BY <1>5, <2>0, <3>1, Zenon
  <2>2. known' \in [Objects -> [Peers -> {"no", "new", "tried"}]] /\ conn' \in Conns
    BY <1>6, AddConnectTyped DEF Update, TypeOK, Conns
  <2>3. paused' \subseteq live BY <1>6 DEF Update, TypeOK
  <2> QED BY <1>6, <2>1, <2>2, <2>3 DEF Update, TypeOK, list, Conns, Bound
<1>7. ASSUME NEW o \in Objects, FinishSeed(o) PROVE TypeOK'
  <2>1. main' \in Main BY <1>5, <1>7 DEF FinishSeed
  <2>2. o \in live BY <1>7 DEF FinishSeed, MayFinish, TickKept
  <2>3. conn' \in Conns BY <1>7, WithoutTyped DEF FinishSeed, TypeOK, Conns
  <2>4. row' \in [Torrents -> {"none", "Downloading", "Seeding", "Paused", "Deleting"}]
    BY <1>7 DEF FinishSeed, TypeOK
  <2>5. paused' \subseteq live /\ seeding' \subseteq live
    BY <1>7, <2>2 DEF FinishSeed, TypeOK
  <2> QED BY <1>7, <2>1, <2>3, <2>4, <2>5 DEF FinishSeed, TypeOK, Conns, Bound
<1>8. ASSUME NEW o \in Objects, FinishDelete(o) PROVE TypeOK'
  <2>1. main' \in Main BY <1>5, <1>8 DEF FinishDelete
  <2>2. o \in live BY <1>8 DEF FinishDelete, MayFinish, TickKept
  <2>3. conn' \in Conns BY <1>8, WithoutTyped DEF FinishDelete, TypeOK, Conns
  <2>4. Torrent(o) \in Torrents BY DEF Torrent, Objects
  <2>5. /\ row' \in [Torrents -> {"none", "Downloading", "Seeding", "Paused", "Deleting"}]
        /\ selected' \in Torrents \cup {NoTorrent}
    BY <1>8, <2>4, RowGoneTyped DEF FinishDelete
  <2>6. paused' \subseteq live /\ toDelete' \subseteq live
    BY <1>8, <2>2 DEF FinishDelete, TypeOK
  <2> QED BY <1>8, <2>1, <2>3, <2>5, <2>6 DEF FinishDelete, TypeOK, Conns, Bound
<1>9. ASSUME NEW gone \in SUBSET ToClean, Clean(gone) PROVE TypeOK'
  <2>1. main' \in Main BY <1>1, <1>9 DEF Clean
  <2>2. conn' \in Conns BY <1>9 DEF Clean, TypeOK, Conns, Closed, Bound
  <2>3. live' \subseteq Objects /\ paused' \subseteq live' /\ seeding' \subseteq live'
        /\ toDelete' \subseteq live'
    BY <1>9, DeletedTyped DEF Clean
  <2>4. table' \in [Torrents -> Objects \cup {NoSession}] BY <1>9 DEF Clean, TypeOK
  <2> QED BY <1>9, <2>1, <2>2, <2>3, <2>4 DEF Clean, TypeOK, list, Conns, Bound
<1>10. CASE TickDone
  <2>1. main' \in Main BY <1>1, <1>10 DEF TickDone
  <2> QED BY <1>10, <2>1 DEF TickDone, TypeOK, sessions, list, Bound
<1> QED BY <1>2, <1>3, <1>4, <1>6, <1>7, <1>8, <1>9, <1>10 DEF Tick
-----------------------------------------------------------------------------
(* Where the sessions are.  The other steps change neither the sessions    *)
(* nor the list, and leave the main loop or move it on.                    *)

\* Initially there is no session.
LEMMA InitPlaced == Init => Placed
  BY TableAssumption
     DEF Init, Placed, Kept, Single, Numbered, Resumable, TickKept, Marked, Idle, Rows, Listed

\* A step that leaves tables, rows and the main loop alone keeps the places.
LEMMA Unmoved ==
  ASSUME Placed, UNCHANGED <<table, suspended, made, live, row, selected, main>>
  PROVE Placed'
  BY DEF Placed, Kept, Single, Numbered, Resumable, TickKept, Marked, Rows, Listed

\* A step of the main loop that only says where it is now.
LEMMA LoopMoved ==
  ASSUME TypeOK, Placed, UNCHANGED <<table, suspended, made, live, row, selected>>, TickKept'
  PROVE Placed'
  BY DEF Placed, Kept, Single, Numbered, Resumable, Marked, Rows, Listed

\* A button gives a row that is there another status.
LEMMA StartPlaced ==
  ASSUME TypeOK, Placed, NEW job, NEW status \in {"Downloading", "Paused", "Deleting"},
         Start(job, status)
  PROVE Placed'
<1>1. \A t \in Torrents : row[t] # "none" <=> row'[t] # "none"
  BY DEF Start, TypeOK, Placed, Marked, Rows
<1>2. UNCHANGED <<table, suspended, made, live, selected, main>> BY DEF Start, sessions
<1> QED BY <1>1, <1>2
    DEF Placed, Kept, Single, Numbered, Resumable, TickKept, Marked, Rows, Listed

\* What the user does at the list keeps the invariant.
LEMMA UserPlaced == ASSUME TypeOK, Placed, User PROVE Placed'
<1>1. CASE PressPause BY <1>1, StartPlaced DEF PressPause
<1>2. CASE PressResume BY <1>2, StartPlaced DEF PressResume
<1>3. CASE PressDelete BY <1>3, StartPlaced DEF PressDelete
<1>4. CASE MenuOpen BY <1>4, Unmoved DEF MenuOpen, sessions, list
<1>5. ASSUME NEW t \in Torrents, SelectRow(t) PROVE Placed'
  BY <1>5 DEF SelectRow, sessions, Placed, Kept, Single, Numbered, Resumable, TickKept,
              Marked, Rows, Listed
<1> QED BY <1>1, <1>2, <1>3, <1>4, <1>5 DEF User

\* The threads move sessions while no Tick is under way.
LEMMA ThreadsPlaced == ASSUME ~Late, TypeOK, Placed, Threads PROVE Placed'
<1>1. ASSUME NEW job, Nothing(job) PROVE Placed'
  BY <1>1, Unmoved DEF Nothing, sessions, list
<1>2. ASSUME NEW job, Run(job), main' = main PROVE TickKept'
  BY <1>2 DEF Run, WaitOver, MutexFree, TickKept
<1>3. ASSUME NEW t \in Torrents, SuspendSession(t) PROVE Placed'
  <2>1. TickKept' BY <1>2, <1>3 DEF SuspendSession
  <2>2. Listed(t) BY <1>3, TableAssumption DEF SuspendSession, Placed, Marked, Rows, Listed
  <2>3. /\ row' = row /\ selected' = selected /\ live' = live /\ made' = made
        /\ table' = [table EXCEPT ![t] = NoSession]
        /\ suspended' = [suspended EXCEPT ![t] = table[t]]
        /\ table[t] # NoSession
    BY <1>3 DEF SuspendSession, list
  <2>4. Kept'
    BY <2>3, TableAssumption DEF TypeOK, Placed, Kept, Single, Torrent, Objects
  <2>5. Single' BY <2>3 DEF TypeOK, Placed, Single
  <2>6. Resumable' /\ Marked' /\ Numbered'
    BY <2>2, <2>3 DEF TypeOK, Placed, Resumable, Marked, Numbered, Rows, Listed
  <2> QED BY <2>1, <2>4, <2>5, <2>6 DEF Placed
<1>4. ASSUME NEW t \in Torrents, ResumeSession(t) PROVE Placed'
  <2>1. TickKept' BY <1>2, <1>4 DEF ResumeSession
  <2>2. /\ row' = row /\ selected' = selected /\ live' = live /\ made' = made
        /\ suspended' = [suspended EXCEPT ![t] = NoSession]
        /\ table' = [table EXCEPT ![t] = suspended[t]]
        /\ suspended[t] # NoSession
    BY <1>4 DEF ResumeSession, list
  <2>3. Kept'
    BY <2>2, TableAssumption DEF TypeOK, Placed, Kept, Single, Torrent, Objects
  <2>4. Single' BY <2>2 DEF TypeOK, Placed, Single
  <2>5. Resumable' /\ Marked' /\ Numbered'
    BY <2>2 DEF TypeOK, Placed, Resumable, Marked, Numbered, Rows, Listed
  <2> QED BY <2>1, <2>3, <2>4, <2>5 DEF Placed
<1>5. ASSUME NEW t \in Torrents, DeleteTorrent(t) PROVE Placed'
  <2> DEFINE o == IF table[t] # NoSession THEN table[t] ELSE suspended[t]
  <2>1. TickKept' BY <1>2, <1>5 DEF DeleteTorrent
  <2>2. /\ live' = live \ {o} /\ made' = made
        /\ row' = [row EXCEPT ![t] = "none"]
        /\ selected' \in (Rows \ {t}) \cup {NoTorrent}
        /\ suspended' = [suspended EXCEPT ![t] = NoSession]
        /\ table' = [table EXCEPT ![t] = NoSession]
    BY <1>5 DEF DeleteTorrent, Deleted, RowGone
  <2>3. \A p \in live : Torrent(p) = t => p = o
    BY TableAssumption DEF TypeOK, Placed, Kept, Single, Objects
  <2>4. \A p \in live' : Torrent(p) \in Torrents /\ Torrent(p) # t
    BY <2>2, <2>3 DEF TypeOK, Torrent, Objects
  <2>5. o # NoSession => Torrent(o) = t BY DEF Placed, Kept
  <2>6. Kept'
    <3>1. \A p \in live' : (table'[Torrent(p)] = p) # (suspended'[Torrent(p)] = p)
      BY <2>2, <2>4 DEF TypeOK, Placed, Kept
    <3>2. \A u \in Torrents :
            /\ table'[u] \in {p \in live' : Torrent(p) = u} \cup {NoSession}
            /\ suspended'[u] \in {p \in live' : Torrent(p) = u} \cup {NoSession}
      BY <2>2, <2>5 DEF TypeOK, Placed, Kept
    <3> QED BY <3>1, <3>2 DEF Kept
  <2>7. Single' BY <2>2 DEF TypeOK, Placed, Single
  <2>8. Resumable' /\ Marked' /\ Numbered'
    BY <2>2 DEF TypeOK, Placed, Resumable, Marked, Numbered, Rows, Listed
  <2> QED BY <2>1, <2>6, <2>7, <2>8 DEF Placed
<1>6. ASSUME NEW t \in Torrents, OpenTorrent(t) PROVE Placed'
  <2>1. TickKept' BY <1>2, <1>6 DEF OpenTorrent
  <2>2. PICK status \in {"Downloading", "Seeding"} :
          /\ row' = [row EXCEPT ![t] = status]
          /\ IF SessionExists(t) THEN UNCHANGED sessions ELSE NewSession(t, status)
    BY <1>6 DEF OpenTorrent
  <2>3. selected' = selected BY <1>6 DEF OpenTorrent
  <2>4. CASE SessionExists(t)
    BY <2>1, <2>2, <2>3, <2>4
       DEF sessions, TypeOK, Placed, Kept, Single, Numbered, Resumable, Marked, Rows, Listed
  <2>5. CASE ~SessionExists(t)
    <3> DEFINE o == <<t, made[t] + 1>>
    <3>1. /\ live' = live \cup {o} /\ suspended' = suspended
          /\ made' = [made EXCEPT ![t] = @ + 1] /\ table' = [table EXCEPT ![t] = o]
      BY <2>2, <2>5 DEF NewSession
    <3>2. table[t] = NoSession BY <2>5 DEF SessionExists
    <3>3. suspended[t] = NoSession BY <1>6 DEF OpenTorrent, Placed, Resumable
    <3>4. made[t] \in Nat /\ o \notin live /\ Torrent(o) = t
      BY DEF Placed, Numbered, TypeOK, Torrent
    <3>5. \A p \in live : Torrent(p) \in Torrents /\ Torrent(p) # t
      BY <3>2, <3>3, TableAssumption DEF TypeOK, Placed, Kept, Torrent, Objects
    <3>6. o # NoSession
      BY <2>2, <2>5, <3>4, TableAssumption DEF NewSession, TypeOK, Objects
    <3> HIDE DEF o
    <3>7. Kept'
      <4>1. \A p \in live' : (table'[Torrent(p)] = p) # (suspended'[Torrent(p)] = p)
        BY <3>1, <3>3, <3>4, <3>5, <3>6 DEF TypeOK, Placed, Kept
      <4>2. \A u \in Torrents :
              /\ table'[u] \in {p \in live' : Torrent(p) = u} \cup {NoSession}
              /\ suspended'[u] \in {p \in live' : Torrent(p) = u} \cup {NoSession}
        BY <3>1, <3>4 DEF TypeOK, Placed, Kept
      <4> QED BY <4>1, <4>2 DEF Kept
    <3>8. Single' BY <3>1, <3>3 DEF TypeOK, Placed, Single
    <3>9. Numbered'
      <4>1. \A p \in live : p[2] \in Nat BY DEF TypeOK, Objects
      <4> QED BY <3>1, <3>4, <3>5, <4>1 DEF TypeOK, Placed, Numbered, Torrent, o
    <3>10. Resumable' /\ Marked'
      BY <2>2, <2>3, <3>1 DEF TypeOK, Placed, Resumable, Marked, Rows, Listed
    <3> QED BY <2>1, <3>7, <3>8, <3>9, <3>10 DEF Placed
  <2> QED BY <2>4, <2>5
<1> QED
  BY <1>1, <1>3, <1>4, <1>5, <1>6 DEF Threads, PauseNone, ResumeNone, DeleteNone, OpenNone

\* Connections move no session.
LEMMA NetworkPlaced == ASSUME Placed, Network PROVE Placed'
<1>1. UNCHANGED <<sessions, list, main>>
  BY DEF Network, OnAccept, OnConnect, OnClose, AcceptPeerId, AcceptHash, Event, Answer
<1> QED BY <1>1, Unmoved DEF sessions, list

\* The main loop moves sessions when it cleans, and rows when one is finished.
LEMMA LoopPlaced ==
  ASSUME TypeOK, Placed, Select \/ Tick \/ \E tick \in BOOLEAN : SelectDone(tick)
  PROVE Placed'
<1>1. CASE Select
  <2>1. TickKept' BY <1>1 DEF Select, Idle, TickKept, TypeOK
  <2> QED BY <1>1, <2>1, LoopMoved DEF Select, sessions, list
<1>2. ASSUME NEW tick \in BOOLEAN, SelectDone(tick) PROVE Placed'
  <2>1. TickKept' BY <1>2 DEF SelectDone, Idle, TickKept, TypeOK, Active, sessions
  <2> QED BY <1>2, <2>1, LoopMoved DEF SelectDone, sessions, list
<1>3. ASSUME NEW t \in Torrents, Visit(t) PROVE Placed'
  <2>1. table[t] \in live /\ Torrent(table[t]) = t
    BY <1>3 DEF Visit, Placed, TickKept, Kept
  <2>2. TickKept'
    BY <1>3, <2>1 DEF Visit, Placed, TickKept, TypeOK, sessions
  <2> QED BY <1>3, <2>2, LoopMoved DEF Visit, sessions, list
<1>4. ASSUME NEW deleted, Updated(deleted), main.step = "update", table' = table
      PROVE TickKept'
  BY <1>4 DEF Updated, Placed, TickKept, TypeOK
<1>5. ASSUME NEW o \in Objects, Update(o) PROVE Placed'
  <2>1. TickKept' BY <1>4, <1>5 DEF Update
  <2> QED BY <1>5, <2>1, LoopMoved DEF Update, list
<1>6. ASSUME NEW o \in Objects, FinishSeed(o) PROVE Placed'
  <2>1. TickKept' BY <1>4, <1>6 DEF FinishSeed, MayFinish
  <2>2. \A t \in Torrents : row[t] # "none" <=> row'[t] # "none"
    BY <1>6 DEF FinishSeed, TypeOK, Listed
  <2>3. UNCHANGED <<table, suspended, made, live, selected>> BY <1>6 DEF FinishSeed
  <2> QED BY <2>1, <2>2, <2>3
      DEF Placed, Kept, Single, Numbered, Resumable, Marked, Rows, Listed
<1>7. ASSUME NEW o \in Objects, FinishDelete(o) PROVE Placed'
  <2>1. TickKept' BY <1>4, <1>7 DEF FinishDelete, MayFinish
  <2>2. o \in live /\ table[Torrent(o)] = o /\ Torrent(o) \in Torrents
    BY <1>7 DEF FinishDelete, MayFinish, Placed, TickKept, Torrent, Objects
  <2>3. suspended[Torrent(o)] = NoSession
    BY <2>2, TableAssumption DEF Placed, Single
  <2>4. UNCHANGED <<table, suspended, made, live>> BY <1>7 DEF FinishDelete
  <2>5. /\ row' = [row EXCEPT ![Torrent(o)] = "none"]
        /\ selected' \in (Rows \ {Torrent(o)}) \cup {NoTorrent}
    BY <1>7 DEF FinishDelete, RowGone
  <2>6. Resumable' /\ Marked'
    BY <2>2, <2>3, <2>4, <2>5 DEF TypeOK, Placed, Resumable, Marked, Rows, Listed
  <2> QED BY <2>1, <2>4, <2>6 DEF Placed, Kept, Single, Numbered
<1>8. ASSUME NEW gone \in SUBSET ToClean, Clean(gone) PROVE Placed'
  <2>1. /\ live' = live \ gone /\ suspended' = suspended /\ made' = made
        /\ table' = [t \in Torrents |-> IF table[t] \in gone THEN NoSession ELSE table[t]]
        /\ row' = row /\ selected' = selected /\ main' = Idle
    BY <1>8 DEF Clean, Deleted, list
  <2>2. \A o \in gone : table[Torrent(o)] = o /\ Torrent(o) \in Torrents
    BY DEF ToClean, TypeOK, Torrent, Objects
  <2>3. Kept'
    <3>1. \A o \in live' : Torrent(o) \in Torrents BY <2>1 DEF TypeOK, Torrent, Objects
    <3>2. \A o \in live' : (table'[Torrent(o)] = o) # (suspended'[Torrent(o)] = o)
      BY <2>1, <3>1, TableAssumption DEF TypeOK, Placed, Kept
    <3>3. \A u \in Torrents :
            /\ table'[u] \in {p \in live' : Torrent(p) = u} \cup {NoSession}
            /\ suspended'[u] \in {p \in live' : Torrent(p) = u} \cup {NoSession}
      BY <2>1, <2>2, TableAssumption DEF TypeOK, Placed, Kept, Single, ToClean
    <3> QED BY <3>2, <3>3 DEF Kept
  <2>4. Single' /\ Resumable' /\ Marked' /\ Numbered'
    BY <2>1 DEF Placed, Single, Resumable, Marked, Numbered, Rows, Listed
  <2>5. TickKept' BY <2>1 DEF Idle, TickKept
  <2> QED BY <2>3, <2>4, <2>5 DEF Placed
<1>9. CASE TickDone
  <2>1. TickKept' BY <1>9 DEF TickDone, Idle, TickKept
  <2> QED BY <1>9, <2>1, LoopMoved DEF TickDone, sessions, list
<1> QED BY <1>1, <1>2, <1>3, <1>5, <1>6, <1>7, <1>8, <1>9 DEF Tick
-----------------------------------------------------------------------------
(* The theorems.  They hold while no message box keeps the mutex for a     *)
(* minute: SetPaused would let a thread go on without it.                  *)

\* The invariant is inductive.
LEMMA InductiveInv == ASSUME ~Late PROVE Spec => [](TypeOK /\ Placed)
<1>1. Init => TypeOK /\ Placed BY InitTyped, InitPlaced
<1>2. ASSUME TypeOK /\ Placed, [Next]_vars PROVE (TypeOK /\ Placed)'
  <2>1. CASE User BY <1>2, <2>1, UserTyped, UserPlaced
  <2>2. CASE Threads BY <1>2, <2>2, ThreadsTyped, ThreadsPlaced DEF Placed
  <2>3. CASE Network BY <1>2, <2>3, NetworkTyped, NetworkPlaced
  <2>4. CASE Select \/ Tick \/ \E tick \in BOOLEAN : SelectDone(tick)
    BY <1>2, <2>4, LoopTyped, LoopPlaced DEF Placed
  <2>5. CASE UNCHANGED vars
    <3>1. TypeOK' BY <1>2, <2>5 DEF vars, sessions, list, TypeOK, Bound
    <3>2. Placed' BY <1>2, <2>5, Unmoved DEF vars, sessions, list
    <3> QED BY <3>1, <3>2
  <2> QED BY <1>2, <2>1, <2>2, <2>3, <2>4, <2>5 DEF Next
<1> QED BY <1>1, <1>2, PTL DEF Spec

\* Every variable of the table of sessions keeps its type.
THEOREM TableTyped == ASSUME ~Late PROVE Spec => []TypeOK
  BY InductiveInv, PTL

\* A session that exists is in the map of the PeerHandler or among the paused
\* ones, whatever the threads of the list, Tick and Clean do to it when.
THEOREM SessionsKept == ASSUME ~Late PROVE Spec => []Kept
<1>1. TypeOK /\ Placed => Kept BY DEF Placed
<1> QED BY <1>1, InductiveInv, PTL

\* A torrent has one session at most: IsItInTheDownloadList and SessionExists
\* together keep a second one from being made.
THEOREM OneSessionEach == ASSUME ~Late PROVE Spec => []OneSession
<1>1. TypeOK /\ Placed => OneSession
  BY TableAssumption DEF TypeOK, Placed, Kept, Single, OneSession, Torrent, Objects
<1> QED BY <1>1, InductiveInv, PTL

\* A paused torrent stays in the download list until it is resumed or deleted.
THEOREM PausedResumable == ASSUME ~Late PROVE Spec => []Resumable
<1>1. TypeOK /\ Placed => Resumable BY DEF Placed
<1> QED BY <1>1, InductiveInv, PTL
=============================================================================
