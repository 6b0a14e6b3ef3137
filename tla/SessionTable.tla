---------------------------- MODULE SessionTable ----------------------------
(* The sessions of the client as the program keeps them: the map of the    *)
(* PeerHandler, the map of paused sessions, the rows of the download list, *)
(* the main loop, the threads the user starts, and the connections, which  *)
(* hold a pointer to the session they serve.                               *)
EXTENDS Integers, FiniteSets, FiniteSetsExt

CONSTANTS Torrents,   \* torrents the user may open, one file name for each
          Loads,      \* bound: how often a torrent is opened
          Peers,      \* addresses of other clients
          Sockets,    \* bound: connections at a time, ordered as their handles
          MinPeers,   \* a session with fewer connections looks for more
          MaxWaiting, \* bound: threads of one kind that wait for the mutex
          Late,       \* whether Update may keep the mutex for a full minute
          NoTorrent, NoSession, NoPeer

Objects == Torrents \X (1 .. Loads)

ASSUME TableAssumption ==
    /\ Loads \in Nat \ {0} /\ MinPeers \in Nat /\ MaxWaiting \in Nat \ {0}
    /\ Sockets \in SUBSET Nat /\ IsFiniteSet(Sockets) /\ Late \in BOOLEAN
    /\ NoTorrent \notin Torrents /\ NoSession \notin Objects /\ NoPeer \notin Peers

VARIABLES table,     \* m_sessions of the PeerHandler
          suspended, \* mSuspendedSession, by file name
          made,      \* how often a torrent was opened
          live,      \* the sessions that are constructed and not deleted
          paused,    \* those with iPaused = 1
          seeding, toDelete, \* those with bSeeding, bToDelete
          row,       \* the status in the download list
          selected,  \* the row the user has selected
          waiting,   \* the threads that wait for the mutex, by what they do
          main,      \* where the main loop is; it has the mutex unless "idle"
          known,     \* the peers of a session
          conn       \* the connections

sessions == <<table, suspended, made, live, paused, seeding, toDelete>>
list == <<row, selected>>
vars == <<sessions, list, waiting, main, known, conn>>

Torrent(o) == o[1]
Rows == {t \in Torrents : row[t] # "none"}
Jobs == {"pause", "resume", "delete", "open"}

Idle == [step |-> "idle", left |-> {}, object |-> NoSession, remove |-> FALSE]
Closed == [stage |-> "closed", session |-> NoSession, peer |-> NoPeer]
Bound == {"dialled", "named", "open"}

TypeOK ==
    /\ table \in [Torrents -> Objects \cup {NoSession}]
    /\ suspended \in [Torrents -> Objects \cup {NoSession}]
    /\ made \in [Torrents -> 0 .. Loads]
    /\ live \subseteq Objects /\ paused \subseteq live
    /\ seeding \subseteq live /\ toDelete \subseteq live
    /\ row \in [Torrents -> {"none", "Downloading", "Seeding", "Paused", "Deleting"}]
    /\ selected \in Torrents \cup {NoTorrent}
    /\ waiting \in [Jobs -> 0 .. MaxWaiting]
    /\ main \in [step : {"idle", "select", "tick", "update"}, left : SUBSET Torrents,
                 object : Objects \cup {NoSession}, remove : BOOLEAN]
    /\ known \in [Objects -> [Peers -> {"no", "new", "tried"}]]
    /\ conn \in [Sockets -> [stage : {"closed", "added", "hello"} \cup Bound,
                             session : Objects \cup {NoSession}, peer : Peers \cup {NoPeer}]]

Init ==
    /\ table = [t \in Torrents |-> NoSession]
    /\ suspended = [t \in Torrents |-> NoSession]
    /\ made = [t \in Torrents |-> 0]
    /\ live = {} /\ paused = {} /\ seeding = {} /\ toDelete = {}
    /\ row = [t \in Torrents |-> "none"]
    /\ selected = NoTorrent
    /\ waiting = [j \in Jobs |-> 0]
    /\ main = Idle
    /\ known = [o \in Objects |-> [p \in Peers |-> "no"]]
    /\ conn = [c \in Sockets |-> Closed]
-----------------------------------------------------------------------------
(* What the sessions do with their connections.                            *)

\* PeerSocket looks for the hash and the address among the sockets the
\* handler has taken over, in the order of their handles.
Found(con, o, p) == {c \in Sockets : /\ con[c].stage \in Bound
                                     /\ Torrent(con[c].session) = Torrent(o)
                                     /\ con[c].peer = p}

First(con, o) == {Min(Found(con, o, p)) :
                    p \in {q \in Peers : known[o][q] # "no" /\ Found(con, o, q) # {}}}

\* SuspendDownloading and the destructor of a peer close one connection of
\* each peer of the session, the first.
Without(con, o) == [c \in Sockets |-> IF c \in First(con, o) THEN Closed ELSE con[c]]

Connected(o, p) == /\ Found(conn, o, p) # {}
                   /\ conn[Min(Found(conn, o, p))].stage = "open"

PeerCount(o) == Cardinality({c \in Sockets : /\ conn[c].stage \in Bound
                                             /\ Torrent(conn[c].session) = Torrent(o)})

FreeSockets == {c \in Sockets : conn[c].stage = "closed"}

\* AddConnect calls a peer it has not tried, or lets all be tried again.  No
\* peer is ever Failed: OnConnectFailed asks a socket for its peer that has
\* it only from OnConnect on.
Available(o) == {p \in Peers : known[o][p] = "new" /\ ~Connected(o, p)}

Dial(o, p) ==
    /\ known' = [known EXCEPT ![o][p] = "tried"]
    /\ IF FreeSockets = {} THEN UNCHANGED conn
       ELSE \E c \in FreeSockets :
              conn' = [conn EXCEPT ![c] = [stage |-> "added", session |-> o, peer |-> p]]

\* Mutant: the peers that were tried are not called again.
NeverAgain(o) == Available(o) = {} /\ UNCHANGED <<known, conn>>

TryAgain(o) ==
    /\ Available(o) = {}
    /\ known' = [known EXCEPT ![o] = [p \in Peers |-> IF @[p] = "tried" THEN "new" ELSE @[p]]]
    /\ UNCHANGED conn

AddConnect(o) == TryAgain(o) \/ \E p \in Available(o) : Dial(o, p)
-----------------------------------------------------------------------------
(* The user and the threads of the download list.                          *)

SelectRow(t) ==
    /\ row[t] # "none" /\ t # selected
    /\ selected' = t
    /\ UNCHANGED <<sessions, row, waiting, main, known, conn>>

\* A button starts a thread and sets the status of the selected row.
Start(job, status) ==
    /\ waiting[job] < MaxWaiting
    /\ waiting' = [waiting EXCEPT ![job] = @ + 1]
    /\ row' = IF selected = NoTorrent THEN row ELSE [row EXCEPT ![selected] = status]
    /\ UNCHANGED <<sessions, selected, main, known, conn>>

PressPause == selected # NoTorrent /\ row[selected] = "Downloading" /\ Start("pause", "Paused")
PressResume == selected # NoTorrent /\ row[selected] = "Paused" /\ Start("resume", "Downloading")
PressDelete == selected # NoTorrent /\ waiting["delete"] = 0 /\ Start("delete", "Deleting")
MenuOpen == /\ waiting["open"] < MaxWaiting
            /\ waiting' = [waiting EXCEPT !["open"] = @ + 1]
            /\ UNCHANGED <<sessions, list, main, known, conn>>

\* SetPaused waits a minute for the mutex, which the main loop has for most
\* of the time, and goes on without it then.  Update has it while the user
\* reads a message box.  A thread does its work in one go.
MutexFree == main.step = "idle"
WaitOver == MutexFree \/ (Late /\ main.step = "update")

Run(job) ==
    /\ waiting[job] > 0
    /\ WaitOver
    /\ waiting' = [waiting EXCEPT ![job] = @ - 1]

\* The thread reads which row is selected when it has the mutex.
Nothing(job) == Run(job) /\ UNCHANGED <<sessions, list, main, known, conn>>

PauseNone == Nothing("pause") /\ (selected # NoTorrent => table[selected] = NoSession)

SuspendSession(t) ==
    LET o == table[t] IN
    /\ selected = t /\ o # NoSession
    /\ Run("pause")
    /\ table' = [table EXCEPT ![t] = NoSession]
    /\ suspended' = [suspended EXCEPT ![t] = o]
    /\ paused' = paused \cup {o}
    /\ conn' = Without(conn, o)
    /\ UNCHANGED <<made, live, seeding, toDelete, list, main, known>>

ResumeNone == Nothing("resume") /\ (selected # NoTorrent => suspended[selected] = NoSession)

\* Mutant: the session stays among the paused ones.
ResumeKeeps(t) ==
    /\ selected = t /\ suspended[t] # NoSession
    /\ Run("resume")
    /\ table' = [table EXCEPT ![t] = suspended[t]]
    /\ UNCHANGED <<suspended, made, live, paused, seeding, toDelete, list, main, known, conn>>

ResumeSession(t) ==
    /\ selected = t /\ suspended[t] # NoSession
    /\ Run("resume")
    /\ table' = [table EXCEPT ![t] = suspended[t]]
    /\ suspended' = [suspended EXCEPT ![t] = NoSession]
    /\ UNCHANGED <<made, live, paused, seeding, toDelete, list, main, known, conn>>

DeleteNone == Nothing("delete") /\ selected = NoTorrent

\* Mutant: the flag of a session outlives it.
DeletedButPaused(gone) ==
    /\ live' = live \ gone /\ UNCHANGED paused
    /\ seeding' = seeding \ gone /\ toDelete' = toDelete \ gone

\* A session is gone, with what the program keeps of it; its connections
\* may still point to it.
Deleted(gone) ==
    /\ live' = live \ gone /\ paused' = paused \ gone
    /\ seeding' = seeding \ gone /\ toDelete' = toDelete \ gone

RowGone(t) ==
    /\ row' = [row EXCEPT ![t] = "none"]
    /\ selected' \in (Rows \ {t}) \cup {NoTorrent}

\* Mutant: only an active torrent is deleted, the row goes in any case.
DeleteActive(t) ==
    /\ selected = t
    /\ Run("delete")
    /\ Deleted({table[t]})
    /\ conn' = IF table[t] = NoSession THEN conn ELSE Without(conn, table[t])
    /\ table' = [table EXCEPT ![t] = NoSession]
    /\ RowGone(t)
    /\ UNCHANGED <<suspended, made, main, known>>

\* The torrent is suspended if it is active, and then deleted.
DeleteTorrent(t) ==
    LET o == IF table[t] # NoSession THEN table[t] ELSE suspended[t]
        left == IF table[t] # NoSession THEN Without(conn, o) ELSE conn
    IN
    /\ selected = t
    /\ Run("delete")
    /\ Deleted({o})
    /\ conn' = IF o = NoSession THEN conn ELSE Without(left, o)
    /\ table' = [table EXCEPT ![t] = NoSession]
    /\ suspended' = [suspended EXCEPT ![t] = NoSession]
    /\ RowGone(t)
    /\ UNCHANGED <<made, main, known>>

\* Mutant: the row of a paused torrent is passed over.
ListedActive(t) == row[t] \notin {"none", "Paused"}

\* A torrent is opened unless the list has it; a session is made unless the
\* map has one.
Listed(t) == row[t] # "none"
SessionExists(t) == table[t] # NoSession

NewSession(t, status) ==
    LET o == <<t, made[t] + 1>> IN
    /\ made[t] < Loads
    /\ made' = [made EXCEPT ![t] = @ + 1]
    /\ live' = live \cup {o}
    /\ table' = [table EXCEPT ![t] = o]
    /\ seeding' = IF status = "Seeding" THEN seeding \cup {o} ELSE seeding
    /\ UNCHANGED <<suspended, paused, toDelete>>

OpenNone == Nothing("open") /\ \E t \in Torrents : Listed(t) \/ made[t] = Loads

OpenTorrent(t) ==
    /\ ~Listed(t)
    /\ Run("open")
    /\ \E status \in {"Downloading", "Seeding"} :
          /\ row' = [row EXCEPT ![t] = status]
          /\ IF SessionExists(t) THEN UNCHANGED sessions ELSE NewSession(t, status)
    /\ UNCHANGED <<selected, main, known, conn>>
-----------------------------------------------------------------------------
(* The main loop.  It leaves everything alone while no torrent is active.  *)

Active == {t \in Torrents : table[t] # NoSession}

\* Select first takes over the sockets that were added since.
Select ==
    /\ MutexFree /\ Active # {}
    /\ main' = [Idle EXCEPT !.step = "select"]
    /\ conn' = [c \in Sockets |-> IF conn[c].stage = "added"
                                  THEN [conn[c] EXCEPT !.stage = "dialled"] ELSE conn[c]]
    /\ UNCHANGED <<sessions, list, waiting, known>>

Event(c, stages) ==
    /\ main.step = "select" /\ conn[c].stage \in stages
    /\ UNCHANGED <<sessions, list, waiting, main>>

OnAccept(c) ==
    /\ Event(c, {"closed"})
    /\ \E p \in Peers : conn' = [conn EXCEPT ![c] = [Closed EXCEPT !.stage = "hello", !.peer = p]]
    /\ UNCHANGED known

OnConnect(c) ==
    /\ Event(c, {"dialled"})
    /\ conn' = [conn EXCEPT ![c].stage = "named"]
    /\ UNCHANGED known

\* A connection fails, is closed by the peer, or does not follow the protocol.
OnClose(c) ==
    /\ Event(c, Bound \cup {"hello"})
    /\ conn' = [conn EXCEPT ![c] = Closed]
    /\ UNCHANGED known

\* GetSession also finds the torrents that are paused.
GetSession(t) == IF SessionExists(t) THEN table[t] ELSE suspended[t]

AcceptHash(c, t) ==
    /\ Event(c, {"hello"})
    /\ GetSession(t) # NoSession
    /\ conn' = [conn EXCEPT ![c].stage = "named", ![c].session = GetSession(t)]
    /\ UNCHANGED known

\* The session gets a peer for one that called us and that it does not know.
AcceptPeerId(c) ==
    /\ Event(c, {"named"})
    /\ conn' = [conn EXCEPT ![c].stage = "open"]
    /\ known' = IF known[conn[c].session][conn[c].peer] # "no" THEN known
                ELSE [known EXCEPT ![conn[c].session][conn[c].peer] = "new"]

\* The answer to an announce goes to the session that has the hash by then.
Answer(t, p) ==
    /\ main.step = "select"
    /\ GetSession(t) # NoSession /\ known[GetSession(t)][p] = "no"
    /\ known' = [known EXCEPT ![GetSession(t)][p] = "new"]
    /\ UNCHANGED <<sessions, list, waiting, main, conn>>

SelectDone(tick) ==
    /\ main.step = "select"
    /\ main' = IF tick THEN [main EXCEPT !.step = "tick", !.left = Active] ELSE Idle
    /\ UNCHANGED <<sessions, list, waiting, known, conn>>

Visit(t) ==
    /\ main.step = "tick" /\ t \in main.left
    /\ main' = [main EXCEPT !.step = "update", !.left = @ \ {t}, !.object = table[t]]
    /\ UNCHANGED <<sessions, list, waiting, known, conn>>

\* Mutant: Tick does not look at bToDelete.
UpdatedKeeps(deleted) == main' = [main EXCEPT !.step = "tick", !.object = NoSession]

\* Update of the session that is visited; then Tick looks at bToDelete.
Updated(deleted) ==
    main' = [main EXCEPT !.step = "tick", !.object = NoSession, !.remove = @ \/ deleted]

\* A session with few connections, or one that was resumed, calls a peer; it
\* is resumed for good when a peer can be asked.
Update(o) ==
    /\ main.step = "update" /\ o = main.object
    /\ IF PeerCount(o) < MinPeers \/ o \in paused THEN AddConnect(o)
       ELSE UNCHANGED <<known, conn>>
    /\ \/ UNCHANGED paused
       \/ /\ o \notin seeding /\ \E p \in Peers : Connected(o, p)
          /\ paused' = paused \ {o}
    /\ Updated(o \in toDelete)
    /\ UNCHANGED <<table, suspended, made, live, seeding, toDelete, list, waiting>>

\* All pieces are there: the user is asked whether to seed, or the torrent
\* leaves the list.
MayFinish(o) == main.step = "update" /\ o = main.object /\ o \notin seeding \cup toDelete

FinishSeed(o) ==
    /\ MayFinish(o)
    /\ seeding' = seeding \cup {o}
    /\ row' = IF Listed(Torrent(o)) THEN [row EXCEPT ![Torrent(o)] = "Seeding"] ELSE row
    /\ \/ paused' = paused \cup {o} /\ conn' = Without(conn, o)
       \/ UNCHANGED <<paused, conn>>
    /\ Updated(FALSE)
    /\ UNCHANGED <<table, suspended, made, live, toDelete, selected, waiting, known>>

FinishDelete(o) ==
    /\ MayFinish(o)
    /\ toDelete' = toDelete \cup {o}
    /\ RowGone(Torrent(o))
    /\ \/ paused' = paused \cup {o} /\ conn' = Without(conn, o)
       \/ UNCHANGED <<paused, conn>>
    /\ Updated(TRUE)
    /\ UNCHANGED <<table, suspended, made, live, seeding, waiting, known>>

\* Clean erases a session and goes on from the iterator that is no more: it
\* may leave others for the next Tick.
Ticked == main.step = "tick" /\ main.left = {}

ToClean == {o \in toDelete : table[Torrent(o)] = o}

Clean(gone) ==
    /\ Ticked /\ main.remove /\ gone # {}
    /\ Deleted(gone)
    /\ table' = [t \in Torrents |-> IF table[t] \in gone THEN NoSession ELSE table[t]]
    /\ conn' = [c \in Sockets |-> IF \E o \in gone : c \in First(conn, o)
                                  THEN Closed ELSE conn[c]]
    /\ main' = Idle
    /\ UNCHANGED <<suspended, made, list, waiting, known>>

TickDone ==
    /\ Ticked /\ ~main.remove
    /\ main' = Idle
    /\ UNCHANGED <<sessions, list, waiting, known, conn>>
-----------------------------------------------------------------------------
User == PressPause \/ PressResume \/ PressDelete \/ MenuOpen \/ \E t \in Torrents : SelectRow(t)

Threads ==
    \/ PauseNone \/ ResumeNone \/ DeleteNone \/ OpenNone
    \/ \E t \in Torrents :
          SuspendSession(t) \/ ResumeSession(t) \/ DeleteTorrent(t) \/ OpenTorrent(t)

Network ==
    \/ \E c \in Sockets : \/ OnAccept(c) \/ OnConnect(c) \/ OnClose(c) \/ AcceptPeerId(c)
                          \/ \E t \in Torrents : AcceptHash(c, t)
    \/ \E t \in Torrents, p \in Peers : Answer(t, p)

Tick ==
    \/ \E t \in Torrents : Visit(t)
    \/ \E o \in Objects : Update(o) \/ FinishSeed(o) \/ FinishDelete(o)
    \/ \E gone \in SUBSET ToClean : Clean(gone)
    \/ TickDone

Next == User \/ Threads \/ Network \/ Select \/ Tick \/ \E tick \in BOOLEAN : SelectDone(tick)

Spec == Init /\ [][Next]_vars

\* The main loop goes on, and the clock with it; threads get the mutex.
FairSpec == Spec /\ WF_vars(Select) /\ SF_vars(SelectDone(TRUE)) /\ WF_vars(Tick)
-----------------------------------------------------------------------------
\* A session is in one place: in the map of its torrent or among the paused
\* ones, never in both, never in none, and a place holds no session that
\* was deleted.
Kept ==
    /\ \A o \in live : (table[Torrent(o)] = o) # (suspended[Torrent(o)] = o)
    /\ \A t \in Torrents : /\ table[t] \in {o \in live : Torrent(o) = t} \cup {NoSession}
                           /\ suspended[t] \in {o \in live : Torrent(o) = t} \cup {NoSession}

\* A torrent has one session at most, although opening it looks for one in
\* the map only: the paused ones are kept out by their row.
OneSession == \A o1, o2 \in live : Torrent(o1) = Torrent(o2) => o1 = o2

\* SetPaused is to "wait for the aquisition of a Mutex" (PeerHandler.h): a
\* session that Tick updates is not deleted under it by a thread.  It is, by
\* one that has waited for a minute.
InUse == main.step = "update" => main.object \in live

\* A paused torrent keeps its row: it can be resumed or deleted.
Resumable == \A t \in Torrents : suspended[t] # NoSession => Listed(t)

\* A session that is to be deleted leaves the map, whatever Clean skips.
Cleaned == \A t \in Torrents : table[t] \in toDelete ~> table[t] \notin toDelete

\* A peer that a session knows, and has no connection to, is not left alone
\* for ever while the session looks for more: others take their turn, and all
\* are tried again.
Lacks(o) == table[Torrent(o)] = o /\ (PeerCount(o) < MinPeers \/ o \in paused)

Alone(o, p) == known[o][p] # "no" /\ \A c \in Sockets : conn[c].session = o => conn[c].peer # p

Called == \A o \in Objects, p \in Peers :
             []<>~(Lacks(o) /\ Alone(o, p) /\ FreeSockets # {})
=============================================================================
