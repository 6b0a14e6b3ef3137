# BitHoc: verification project

BitHoc is BitTorrent for mobile ad hoc networks: no server, every node runs a
client, a tracker and a search engine, and nodes that are few hops away are
preferred. This directory holds TLA+ modules of its core logic, TLC runs that
check them on small instances and TLAPS proofs for all instances.

Paths below are relative to `src/`: **C/** stands for
`BitHoc Client/BitHoc Client/WM-BITTORRENT/`, **T/** for
`BitHoc Tracker/WM-ADHOC-TRACKER/`, **S/** for `BitHoc Search Engine/TorrentF/`.

## Inventory

### Client (C/, C++)

| part | state | operations | what must hold |
|---|---|---|---|
| download session (`Session.cpp`, `Piece.cpp`, `Peer.cpp`) | complete and incomplete pieces; for each piece its complete and requested slices; a queue of requests per peer; flags | slices arrive, `Update` once a second, `Save`, `Load`, suspend and resume | what counts as complete was verified and stays, through crashes (a restart breaks the first, `session_load`); a download does not stall |
| connection to a peer (`pSocket.cpp`) | parser state, choke and interest flags, the bitmap of the peer | the `cmd...` handlers and the `Send...` functions | messages are handled as they were sent |
| choke policy (`Session::Update` 1299-1409, `CheckDownloadRate`) | who is choked, the peer chosen last, one counter of turns for all sessions | every `choke_timer` seconds | turns fill no more than the places; a choked peer gets its turn |
| peer handler, main loop (`PeerHandler.cpp`, `wm-bittorrent.cpp`) | the map of sessions, the map of paused ones, the rows of the download list, a mutex | Tick, Clean, the threads of the buttons | a session is in one map; a torrent has one session; Tick and the threads exclude each other (until a wait of a minute is over); every known peer is called |
| file manager (`FileManager.cpp`) | the data files | read, write, verify a piece | a byte is read back where it was written |
| announce and synchronisation (`tSocket.cpp`, `SyncServer.cpp`) | | HTTP requests | |

Sockets and Tick run in one thread under `PeerHandler`'s mutex. The buttons of
the download list start threads that wait for it, for a minute at most.

### Tracker (T/, C++)

| part | state | operations | what must hold |
|---|---|---|---|
| registry (`PeersManager`, `TorrentManager`) | peer id -> peer; torrent -> list of peer ids | announce, information from other trackers | a client that was answered stays registered (a late thread of its predecessor breaks it); pointers are valid; listed nodes are not forgotten |
| search for peers and for torrent files (`WM-ADHOC-TRACKERDlg.cpp` 1438-2542) | an event, a counter, a status, shared by threads | start searchers, wait for the first answer | the waiter wakes exactly when an answer is there or all have failed |
| flooding control (`BlackIpList`) | trackers already asked | add, format | a request is not forwarded to a tracker that has it |
| neighbours, routing tables (`NeighborsManager`, `WMRoutingTable`) | neighbour trackers, hop counts, one-hop neighbours with a time stamp | update from OLSR, expiry | locks are released; stale neighbours go |
| torrent files (`TorrentStorageManager`) | published files | add, look up | |

The tracker runs one thread per HTTP request and one per search.

### Search engine (S/, C#)

| part | state | operations | what must hold |
|---|---|---|---|
| files (`FilesManager.cs`) | a dictionary of found, downloading and published files, three lists in the window | find, select, publish, delete | dictionary and lists agree; a finished download is not forgotten |
| downloads (`DownloadManager.cs`, `FileDownloadingThreadParam.cs`) | the list of downloads, the folder | start, end of a thread | what counts as downloaded is there, all of it |
| lookup, publishing, uploading | worker threads | ask trackers, announce files, serve them | |

### Vendored

`SocketLibCE` (an event-driven socket library) and `OpenSSL ARM Lib` are third
party code.

## Hard behaviours

Late, duplicate and corrupted slices; connections that break with requests
outstanding; a thread of a button that comes between two steps of `Update`, or
acts on a row selected since; a process killed at any point; turns shared by
sessions; windows that read a dictionary worker threads change; requests that
stay in queues; framing of a byte stream; threads that share an event and a
counter; locks on early returns; counters and clocks that wrap.

## Modules

| module | models | proofs |
|---|---|---|
| `PieceStore` | the abstract promise of a download: a running session takes up what is good, what is held keeps its bytes, a restart finds what was saved, what is good, and what was saved as received | |
| `Session` | one download of the client, through suspensions and restarts of its process; implements `PieceStore` | `Session_proofs` |
| `Wire` | one direction of a connection between two clients, byte by byte | `Wire_proofs` |
| `FileManager` | the data files of a session: slices written and pieces read back over the borders of files; implements `PieceStore` | `FileManager_proofs` |
| `SessionTable` | the sessions of a client: maps, download list, main loop, threads, connections | `SessionTable_proofs` |
| `ChokePolicy` | whom a client's sessions choke and unchoke | `ChokePolicy_proofs` |
| `SearchEngine` | files and downloads of the search engine, its window and threads | `SearchEngine_proofs` |
| `FileSearch` | a tracker's search for a file: handler, launcher, searchers | `FileSearch_proofs` |
| `Registry` | the peers that trackers know, and how trackers tell each other | `Registry_proofs` |

Each `MC...` module gives the constants of one of them; each `.cfg` belongs to
one run. `Session` and `Wire` meet in the handlers (`cmd...`): `Wire` shows that
a message is handled as it was sent, `Session` starts from the handled message.
`SessionTable` says which sessions exist and which connections serve them, and
leaves the pieces to `Session`: its `SuspendSession`, `ResumeSession` and
`Update` are the `Suspend`, `Resume` and `Update...` of one session there.
`Session` sees of the data files whether the bytes of a slice are right;
`FileManager` shows that they are where they are looked for, in torrents of one
file; those are what `Session` is about.
`ChokePolicy` is the part of `Update` after the pieces; a choke of a remote peer
is an input of `Session`.
`FileSearch` and `Registry` meet in the searcher that enters peers
(`LinePeers`, `Hops` in the one; `Answer`, `Merge`, `Add` in the other) and in
the lock `exploration_map_sync`.

### Session

State: `have` is `m_complete`, the rest of the pieces is `m_incomplete`;
`complete`, `requested` and `moved` are the three slice maps of a `Piece`; `disk`
is what the data file holds of a slice (`none`, `good`, `bad`); `reqs` is
`Peer::m_requests` and `wire` the requests on the connection, both bags; `saved`
is the state file. The flags keep their names.

Sockets and `Tick` run in one thread, so that a handler is one action and runs
when no `Update` does. `Update` is four actions (`UpdateBegin`, `UpdateAsk`,
`UpdateRetry` with the verification `UpdateCheckComplete`, `UpdateFinish`),
because a thread whose wait for the mutex is over suspends the session between
any two of them, and a process may be killed anywhere. No peer is ever `Failed`:
`OnConnectFailed` asks for a peer that the socket gets in `OnConnect`, so that
`AddConnect` never erases one, and neither is in the model. `Restart(quit)` ends the
process, with the orderly `Save` or without, and starts it with `Load`, which stands for `Load` and the `Session::Verify` that
`MetainfoSocket::LoadMetaInfoFile` calls after it: `Promoted` are the pieces that
it moves to `m_complete`, those whose hash is right and those that the state file
has in full, whatever their hash.

Faults of the code that the model keeps: `SetRequested` looks slices up by their
length (`LengthKey`); an offset read without having been written is any offset
(`Junk`); `Load` sets `bAlreadyDownloaded` for bytes that are not verified, and
`Verify` takes pieces for complete that it has just found wrong.
The data of a slice is right or wrong; the order of lists is left open, as the
code picks at random; times (`AgeOfRequest`) are nondeterministic.

### Wire

`stream` is a sequence of bytes; the `Send...` operators give the bytes of a
message and `ReadLength` ... `ReadSlice` are the states of `OnRead`. `sent` and
`got` are history variables. The network cuts the stream where it likes; as
`OnRead` waits for a whole field, one field is one step. Cut off: integers above
255.

### FileManager

`files` is `m_files`, as `AddFile` makes it (`Laid`); `data` are the bytes of the
files; a byte of the torrent is its position, so that a byte in the wrong place is
seen. `Turn` is one turn of the loop over the files that `Write` and `ReadPiece`
share, `Loop` all of them; `Put` and `Fread` are `fseek` with `fwrite` and
`fread`. `complete` are the pieces of `m_complete`, `received` the slices of the
others, `saved` is both in the state file; `content` is a history variable: what
was written last at each position. A hash is right if every byte is. `OpenFiles`
starts a process, with `Load` and `Session::Verify` as in `Session`; `Save` may come
at any time (a suspension saves), `Close` ends the process, in order or killed.
`SaveSlice` writes a slice of an incomplete piece that is not there yet,
`CheckComplete` is the verification in `Update`. Reading into a buffer that is too
short, which `ReadPiece` does for the last piece of several files, is not followed
further than to `Verify`, which then fails.

### SessionTable

`table` is `m_sessions`, `suspended` is `mSuspendedSession`, `row` and `selected`
are the list of the window. A session is the pair of its torrent and the number
of its opening; `live` are those that are constructed and not deleted. File names
and hashes are taken to be one to one. The user presses buttons, which start
threads (`waiting`); a thread waits for the mutex (`WaitOver`), reads which row is
selected by then, and does its work in one action. `main` is the main loop:
`Select` with the events of connections, then, when a second is over, `Visit` and
`Update` of each session, and `Clean` or `TickDone`. `Clean` goes on from an
erased iterator, so that it deletes some of the sessions it should, one at least.

`conn` are the connections: `added` by `AddConnect` but not taken over by
`Select`, `dialled`, `hello` (accepted, no hash yet), `named` (it has a session),
`open`. `First` is what `PeerSocket` finds: the first connection for the hash and
the address. Constant `Late` says whether `Update` may keep the mutex for a full
minute, which it does while the user does not answer its message box; a thread that
waits then goes on without it. What follows is the end of the model: `Update` goes
on in an object that may be deleted. So `Late` is false in the runs and in the proofs,
which say what the maps keep as long as message boxes are answered in time.

Kept out: the time a peer that was choked is left alone; the check of peer
identifiers (part of `OnClose`); that Tick may be left out by a message box of a
thread; reads of the maps by the details windows; the start of the client and the
saving at its end.

### ChokePolicy

`choked` is our choke of a connection, `granted` those a turn has unchoked,
`iCount` and `iQ` the globals, `last` is `pLastChoosedPeer`. `Update` compares the
rates (`Rechoked`, any order of rates) and gives a turn (`Turn`) to a near or a
far peer, as `FarTurn` says. Peers connect, shake hands, send a bitmap, close, and
come nearer or go away; the user enters `iQ`. One connection per peer; the random
choice of protocol version 1 is not in it.

### SearchEngine

`dict` has an entry per file name, of one of the classes `FoundFile`,
`DownloadFile`, `PublishedFile`; `shown` counts its items in the three lists of
the window, `list` is the list of downloads, `disk` the bytes in the folder. The
window (`gui`) and the threads (`loader`, `publisher`) have places. An operation
of the dictionary is one step, and so is a call of the window; a thread can come
between any two. `down` names what has thrown an exception that ends the process;
a restart keeps `disk` only. Counters of downloads, lists of hosts and texts are
left out.

### FileSearch

Threads have places. The handler (`Ask`, `Launch`, `Wake`, `Timeout`), the
launcher (`Enter` ... `LauncherSignal`) and a searcher per tracker (`Start` ...
`SearcherSignal`) share the number of searchers, the status, the event, the
black list and the lock. The increment of the number by the launcher comes after
the start of the thread, so the number can be negative. When the handler has
returned, the black list, a local variable of it, may hold anything
(`BlackListsSeen`). Merges of two searchers into one `std::list` are taken to be
done one at a time; the code has no lock there.

### Registry

A thread of a tracker goes through `Eliminate`, `Drop`, `Find`, `Record`, `Join`
(the sections of `peers_map_cs` and `torrent_peers_cs` in the handlers of
`/announce` and `/t2t-info`) and, for an announce, `Send` (the answer and the
thread `T2T_Info_to_all`); a searcher goes through `Merge` and `Add`. `victim` is
what `eliminate_confusion` has deleted from `peers_map` and must still take off a
list; `pi` is the identifier of the object a pointer refers to, `NoId` for a null
pointer and `Freed` once another thread has deleted the object. Identifiers are
drawn once per start of a client, and are never drawn twice. A client may start
again at any time; `late` is a history variable: the clients that started while a
thread of an announce of their node was still before its elimination (`Begun` is
false). `stuck` says that `exploration_map_sync` was left entered
(`WMRoutingTable.cpp:760`).

Kept out: ports, `numwant` and the text and length of an answer; seeders and
leechers; `DeleteOutOfDatePeers` (commented out in the code); pointers that live
for a few statements only (`add_torrent_of_interest`). `check_info_hash` and
`send_t2t_request` change nothing of this state: `T2T_Request` never rewinds its
iterator, starts no searcher and ends.

## Runs

Runs that pass:

| run | bounds | shows |
|---|---|---|
| `session` | one peer that has nothing at first and announces what it gets, 1 piece of 2 slices, 1 corrupted slice, 1 further copy of a request | `TypeOK`, `Integrity` (only a state file with a piece received in full, wrong and not yet verified, lets a wrong piece count), `NeverForgotten`, `WrittenBeforeCounted`, `SeedsWholeFile`, `FirstCopyWins`, and `Stores`, the refinement of `PieceStore` |
| `calm` | two peers (one in scope with everything, one out of it), 2 pieces of 2 slices, 1 corrupted slice; connections last, no chokes | `Downloaded`, `NeverStalls`, `VerifiedNeverRewritten`, `FirstCopyWins` |
| `wire` | every sequence of 3 messages out of 7, no choke, whole slices | `TypeOK`, `InOrder`, `AllArrive` |
| `files` | torrents of 7 bytes in 17 layouts: one file, every division into two, three with a file of one byte or an empty one in the middle; pieces of 4 and 3 bytes, slices of 2, 2, 2 and 1 | `InPlace`, `ReadsBack` |
| `search` | 2 trackers, 1 search, answers with and without peers, peers in the routing table or not | `TypeOK`, `NumberExact`, `NoLostWakeUp`, `NamesAll`, `Answered` |
| `registry` | 2 nodes, 1 torrent, a client that starts twice, 2 threads, no peer in the routing table beforehand | `TypeOK`, `OwnClientKnown`, `PointerValid`, `NotForgotten`, `Served` |
| `engine` | 1 file of 2 parts, 2 download threads, 1 publishing thread, an item per list and file | `TypeOK`, `FetchedComplete`, `ListsAgree`, `DownloadKept` |
| `choke` | 1 session of 3 peers with 2 places, `iQ` up to 1, 3 chokes by rate, 1 change of distance, 1 entry of `iQ` | `TypeOK`, `GrantsWithinLimit`, `Unchoked` |
| `table` | 2 torrents, each opened twice, a thread of each kind, no connections | `TypeOK`, `Kept`, `OneSession`, `Resumable`, `Cleaned` |
| `calls` | 1 torrent opened once, 2 peers, 2 connections | `Called` |

Why these bounds are enough to see the hazards. A corrupted slice and a further
copy give a failed verification with a second answer on its way; two slices let a
piece be half there; in `calm` the two copies of a slice come from different
peers, and the first piece is verified while the session still runs. Two trackers
give a searcher that ends before the other is counted. Two threads give one that
deletes and one that has just found; two identifiers give a client that comes back
while the old one is served. Two torrents give a thread that acts on another row
than the one its button was pressed for, and a `Clean` that skips one; a second
opening gives a session while an older one of the same name is paused or not yet
deleted. Two peers of one session let one be called while the other waits. Two
download threads of one file are what `DownloadFile` lets through. Three peers and
two places give a turn with a choice, and `iQ` of one gives turns of both kinds. The
layouts of 7 bytes have borders inside a slice, between two slices and between two
pieces, a file inside a slice, and an empty file first, last and in the middle.

Bounds in the guards are `MaxBad`, `MaxCopies` (how often a request may be
repeated, in a queue or on the wire), `MaxMessages`, `Loads`, `MaxWaiting` and the set `Sockets` in `SessionTable`, `MaxBytes`
and `MaxItems` in `SearchEngine`, `MaxChokes`, `MaxHops`, `MaxConfigs` and `MaxQ`
in `ChokePolicy`.

Two pieces with crashes have several million states and take longer than a run
should; what `session` checks with one piece is proved for any number of them.

Deadlock is not checked in `wire` (the sender may be done), `search` (a search
ends) and `registry` (the client may be closed for good, and nothing is left to serve).

Runs that are violated, each by what the code does:

| run | property | what happens |
|---|---|---|
| `session_stall` | `NeverStalls` | a choke drops the requests of a peer but leaves slices marked as requested, for `SetNotRequested` looks under the wrong key: nothing is asked for any more |
| `session_load` | `Intact` | a corrupted slice completes a piece and the session is saved before it is hashed; the next process finds the hash wrong and moves the piece to `m_complete` all the same (`Session.cpp:763-778`), announces and serves it |

Seen in the models and not made runs, each with what leads to it:

- `Wire`: `SendChoke` sends no command byte, so that the reader takes the next
  length for it; `InOrder` fails with a choke among the messages.
- `FileSearch`: a searcher that connects while the launcher still loops rewrites
  the black list, and the launcher skips the trackers it has not come to. Two
  searches at a time share one number of searchers; `NoLostWakeUp` fails with two.
- `Registry`: a thread that serves the last announce of a client that was closed,
  and has yet to run `eliminate_confusion`, deletes the client that has started
  since (`PeersManager.cpp:336`), possibly after that one had its answer, so that it
  is not listed until it announces again. With the constants of `MCRegistry.cfg`
  `ClientStays` fails; without `late`, `OwnClientKnown` and `PointerValid` do.
- `SessionTable`: a message box of `Update` keeps the mutex for more than a minute; a
  thread gives up waiting (`PeerHandler.h:168`) and deletes the session that is
  updated. `InUse` fails with `Late` true.
- `Registry`: the second `/t2t-info` about a peer that the routing table has finds
  `exploration_map_sync` entered: its handler has deleted the peer and blocks for
  ever (`stuck`, the exception of `Served`).
- `Session`: a connection that breaks leaves its requests in the queue of the peer,
  so that their slices are asked of nobody else until it is back; `NeverStalls`
  fails without a choke, too, when the peer is out of scope. `Asked` still holds.
- `ChokePolicy`: the counter of turns is one for all sessions. With `iQ` 1 and two
  sessions one gets all turns for near peers and may have only far ones, the other
  the reverse; `Unchoked` fails. With the default 3, four sessions do the same. A
  user who enters an `iQ` the counter is past ends the turns for far peers;
  `Unchoked` names the case.
- `SearchEngine`: a download that was cut short never leaves the list of downloads
  and cannot be asked for again. A file of our own that is found and published
  again has an entry of the wrong class: the thread throws, and its catch block too.
- `SessionTable`: a connection that `AddConnect` has opened and `Select` has not
  taken over is not closed with its session, and keeps a pointer to it; so does
  one that accepted the hash and has no peer yet. When the torrent is opened again
  (`Loads` 2 in `calls`) it
  stands for the connection of the new session to that peer, which is then not
  called: `Called` fails. A thread acts on the row that is
  selected when it gets the mutex.
- `FileManager`: over several files `ReadPiece` counts pieces of 16 bytes
  (`piecestrcat_length`) where `Write` counts pieces of their length. Only the first
  piece can pass its verification; `ReadsBack` names the case, and fails without.
- read in the code only: `GetHashFronFileName` compares an iterator it has not
  set (`PeerHandler.cpp:472`); `Clean` reads the name of a session it has deleted
  (`PeerHandler.cpp:254`).

Two more of `Registry`. `eliminate_confusion` takes the old identifier off the
list of one torrent only, so that in the others it stays as a ghost that
`check_info_hash` counts as another interested peer. Two threads that handle
information about the same client may delete each other's entry as long as both go on; that is why `NotForgotten` lets a thread that serves the node stand
for the entry.

### Fairness

- `calm` (`CalmSpec`): weak fairness of `Update`, since the main loop ticks as
  long as it runs; strong fairness of `Connect` and of the arrival of slices,
  since the main loop serves every readable socket before a tick. It assumes that
  the remote peers answer and that nobody chokes, and says so in its name: with a
  choke the download may stall (`session_stall`).
- `wire`: `OnRead` runs while there are bytes.
- `search` (`FairSpec`): threads run; a remote tracker answers or closes the
  connection, as sockets have their own timeouts. The handler's wait is never
  assumed to time out, so that `Answered` is about the wake-up. The one way never
  to be answered that is left is the lock that `GetNumberOfHops` keeps entered,
  and `Answered` names it (`LockLeft`).
- `registry` (`FairSpec`): threads run. A thread that needs a lock that was left has
  no step, and `Served` names it; with no peer in the routing table, as in the run,
  the lock is never left. (With both, liveness takes longer than a run should; the
  safety properties are proved for both.)
- `choke` (`FairSpec`): the main loop updates every session again and again, and
  the time of a turn comes again.
- `table`, `calls` (`FairSpec`): the main loop selects and ticks for as long as a
  torrent is active (weak fairness of `Select` and `Tick`), and a second passes
  again and again (strong fairness of `SelectDone(TRUE)`). Nothing is assumed of
  the user, the threads and the connections.

## Proofs

All theorems are about the specifications with all constants arbitrary, under
the named assumptions of the modules.

**Session_proofs.** `TypeCorrect` has one lemma per action. `IInv` is `TypeOK` with
`SafeData` and `SeedsAll`. The parts of `SafeData`: `SavedBehind`, the pieces of the
state file are still in `m_complete`; `FoundAgain`, a piece of `m_complete` is right,
or the state file has it as complete or as received in full, so that the next
process finds it again; `WrittenBeforeCounted`; `HaveWritten`. `NextData` shows that
every action is one of a few things that can happen to the bytes (`DataStep`), and
`DataStepSafe` that these keep the invariant. `StepIntact`: a step that starts with
every complete piece right ends so, unless the state file then has a wrong piece as
received in full; `IntegrityHolds` says that of behaviours, and is as much as the
code gives (`session_load`). `NeverForgottenHolds` rests on `FoundAgain`.
`SeedsWholeFileHolds` is about slices that are there, not about their hash. From
`StepKeepsBytes` follow `VerifiedNeverRewrittenHolds` and `FirstCopyWinsHolds`.
`StoresHolds` is the refinement.

What it takes to stall is proved too. `Asked`: a slice that is marked as requested
and has not come is in the queue of some peer. `StallNeedsChoke` shows that it
holds as long as no choke arrives and no recovery is pending, whatever else
happens; with a choke it fails (`session_stall`). `CalmNeverStalls` is
`NeverStalls` for the behaviours of the run `calm`: besides `Asked` it needs that a
queued request is on the wire of a connection (`Calm`), and that a peer `Update`
has been through has requests or nothing that is wanted (`Looked`). By
`CalmIsSpec` these are behaviours of `Spec`, so that what is proved of the bytes
holds in them (`CalmKeepsBytes`). Nothing is saved in them, so that there every
piece of `m_complete` is right (`Intact`).

**FileSearch_proofs.** `Places` says where the threads of a search can be in
relation to each other; `ListInv`, what the two lists hold of the trackers
searched. `ForwardedOnce` follows for any searches. The number is exact only with
one search at a time, so `OneSearchNumber` and `OneSearchWakes`
assume `Alone`. The wake-up needs `WakeInv`: somebody on the way to set the event
exists as long as it is not set.

**Registry_proofs.** `IType` adds to the types what a place says of the request
(`ShapeOf`): an announce is of the node's own client, information and findings
are of others. `IOwn` is why a client that has its answer stays: identifiers not
drawn yet occur nowhere (`Drawn`); a thread that is still to choose whom to delete
serves an announce of the client that runs, and nobody has chosen that client
(`Spared`); and an announce of it has, step by step, what `told` promises
(`Recorded`). The clients in `late` are the exception to both: for them the code
breaks it (`ClientStays`), and that they are the only ones is what is proved.
`OwnKnown` and `PointersValid` follow. `IKept` is the invariant of
`NotForgotten`: whoever is listed, or counted on by a thread about to list it
(`Counting`), is known, or a thread is on its way to enter it (`Adding`).
`KeptGoes` reduces a step to what its one thread does.

**SessionTable_proofs.** `Placed` is the invariant: `Kept`; `Single`, a torrent is
active or paused, not both; `Numbered`, sessions are numbered as they are made, so
that a new one is new; `Resumable`; `Marked`, the selected row exists, without
which a torrent could be paused that has no row; and `TickKept`, while Tick has the
mutex it finds the sessions where it found them first. `OneSession` needs them
together: a torrent is opened when it has no row, then it is not paused, and then
`SessionExists` sees the session it may have. All four theorems assume `~Late`:
that every message box is answered within the minute that threads wait. Without
it `InUse` fails, and the model ends there.

**ChokePolicy_proofs.** `PolicyWithinLimit` counts: a turn is given only while a
place is free, and a rate comparison that unchokes also takes back what turns
gave.

**SearchEngine_proofs.** `EngineTyped`, then two invariants over the places of the
threads: one for `FetchedComplete` (who has checked the size of a file may write
its entry), one for `ListsAgree` and `DownloadKept` (between two steps of a thread
or the window an entry and its items differ by what is still to be done).

**Wire_proofs.** `WInv` says where the reader is. `Inside`: what it has read of the
message that comes next (`Current`) is what was written into it. `Framed`: the
bytes on the stream are the rest of that message and the messages after it. To
say so without recursion, a function `at` gives for every message how far into
the stream it ends; `Frames` relates neighbours. `SendFramed` extends it by the
new message, `Advance` shifts it by the bytes read. `ProperShape` says once, for
each kind of message, what the reader will find in its bytes. `WireTyped`,
`SentInOrder` and `ReaderNeverBreaks` follow, and `ReaderNeverStarves`: the field
the reader waits for is on the stream (`Fed`), because what is unread of `Current`
is there (`Unread`) and the field is part of it (`FieldUnread`). With the fairness
of `OnRead` that is why `AllArrive` holds for any messages. They assume `Messages \subseteq
Proper`: slices are whole, requests are within a piece, and nobody chokes, which
is the case that breaks the framing.

**FileManager_proofs.** The loop over the files is a recursive function. What it
computes for any number of files is proved without the induction theorems of the
library, whose parameter is an operator: a set of numbers that has 0 and with
every number the next is everything (`Induct`), because what is missing of it
would have a least element (`Least`, from `WFMin`); `Recursion` gives the function.
`LoopInv` says where the loop is after each file, and `IsPart` what it finds: of
the bytes to be written those that lie in the file, at their place. The invariant
`FilesInv` is `FilesTyped`, `InPlace`, and `Backed`: what counts, in the session or in
the state file, was written: a slice received has no hole, nor has a complete
piece, and both stay so, as a slice goes into an incomplete piece and pieces do not
overlap (`PiecesApart`); `InPlace` says nothing of what counts. `BytesInPlace` and
`PiecesReadBack` follow: what is read for a peer is what was written last, right or
not. `OnlyFirstVerifies` is the fault of `ReadPiece` as a theorem: over several files
no piece but the first ever passes `Verify`. `FilesImplementStore` maps to
`PieceStore`, with the pieces that pass `Verify` as the good ones, `m_complete` as
what is held, and from the state file its complete pieces and those it has every
slice of.
`AddFileLays` shows that the assumption on the files is what `AddFile` makes.

Only model-checked: liveness (`Downloaded`, `AllArrive`, `Answered`, `Served`,
`Unchoked`, `Cleaned`, `Called`), which rests on fairness and ENABLED. Every safety
property of every passing run is stated by a theorem.

## Not modelled, and the plan

Done: `Session`, `PieceStore`, `Wire`, `FileManager`, `FileSearch`, `Registry`,
`SearchEngine`, `ChokePolicy`, `SessionTable`, with their runs and proofs. Next, in this order:

1. The answering of requests (`SendPiece` in `pSocket.cpp`), which would join
   `Wire` and `FileManager`.
2. The storage of published files of a tracker, and flooding over several
   trackers, on top of `FileSearch`; the expiry of one-hop neighbours.
3. `SessionTable` with several steps for a thread, so that the message box of a
   deletion lets Tick in.

The models stand for a small share of the repository's lines. Two thirds of them
are headers of OpenSSL and the socket library; most of the programs' own code is
windows, configuration, logs, parsing and formatting. What keeps state that
several threads, messages or crashes can disturb is what is modelled.

Left out for good: parsing and formatting of bencoded and HTTP text, GUI,
configuration, logs, OLSR (an external daemon) and the vendored libraries.
