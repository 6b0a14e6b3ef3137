----------------------------- MODULE FileSearch -----------------------------
(***************************************************************************)
(* How a tracker looks for a torrent file that it does not know: the       *)
(* handler of GET /GetTorrentOwner starts a launcher thread                *)
(* (T2T_tf_Request) and waits for an event; the launcher starts a searcher *)
(* thread (T2T_tf_Request_known_host) for each tracker of the exploration  *)
(* map; a counter, a status and a black list are shared by these threads.  *)
(* A search is one such request; FileOf says which file it is for.  Two    *)
(* searches at a time are common: trackers forward to each other.          *)
(*                                                                         *)
(* The order of the exploration map is left open.  The answer of a remote  *)
(* tracker is a sequence of lines: at most one with the peers that share   *)
(* the file, then at most one that names an owner.                         *)
(***************************************************************************)
EXTENDS Integers, Sequences, FiniteSets

CONSTANTS
    Trackers,    \* trackers that can be in the exploration map
    Self,        \* stands for the local search engine as a requester
    Searches,    \* requests handled by this tracker
    Files,       \* names looked for
    FileOf,      \* the name that a search is for
    Lists,       \* the black lists a request may carry
    Answers,     \* what a remote tracker may answer
    PeerKnown    \* whether the peers of an answer are in the exploration map

ASSUME SearchAssumption ==
    /\ IsFiniteSet(Trackers) /\ Self \notin Trackers
    /\ FileOf \in [Searches -> Files]
    /\ Lists \subseteq SUBSET Trackers
    /\ Answers \subseteq Seq({"peers", "owner"})
    /\ PeerKnown \subseteq BOOLEAN

VARIABLES
    number,        \* number_of_tf_thread_searchers
    status,        \* tf_search_status: a search for the file goes on
    files,         \* files_map: the trackers known to own a file
    lock,          \* the thread that owns exploration_map_sync
    handler,       \* where the handler of a request is
    event,         \* torrent_files_search_event is set
    from,          \* source_ip: who sent the request
    listed,        \* the black list of the request
    black,         \* blackList: trackers named in what we send
    future,        \* tmpBlackList: trackers to be added to it
    launcher,      \* where T2T_tf_Request is
    known,         \* the exploration map when it started
    todo,          \* what is left of it
    current,       \* the tracker it is at
    searcher,      \* where the T2T_tf_Request_known_host of a tracker is
    rest,          \* lines it has not received yet
    getting_data,  \* its local variable
    sent           \* history: the black list of the request it sent

handlerVars  == <<handler, from, listed>>
listVars     == <<black, future>>
launcherVars == <<launcher, known, todo, current>>
searcherVars == <<searcher, rest, getting_data, sent>>
vars == <<number, status, files, lock, event,
          handlerVars, listVars, launcherVars, searcherVars>>

HandlerPlaces  == {"idle", "asking", "waiting", "answered", "late"}
LauncherPlaces == {"none", "enter", "list", "look", "begin", "count", "end",
                   "off", "signal", "done"}
SearcherPlaces == {"none", "begun", "connect", "read", "line", "hops", "drop",
                   "last", "off", "signal", "done"}

Free == <<>>
NoTracker == Self

Init ==
    /\ number = 0
    /\ status = [f \in Files |-> FALSE]
    /\ files = [f \in Files |-> {}]
    /\ lock = Free
    /\ handler = [s \in Searches |-> "idle"]
    /\ event = [s \in Searches |-> FALSE]
    /\ from = [s \in Searches |-> Self]
    /\ listed = [s \in Searches |-> {}]
    /\ black = [s \in Searches |-> {}]
    /\ future = [s \in Searches |-> {}]
    /\ launcher = [s \in Searches |-> "none"]
    /\ known = [s \in Searches |-> {}]
    /\ todo = [s \in Searches |-> {}]
    /\ current = [s \in Searches |-> NoTracker]
    /\ searcher = [s \in Searches |-> [t \in Trackers |-> "none"]]
    /\ rest = [s \in Searches |-> [t \in Trackers |-> <<>>]]
    /\ getting_data = [s \in Searches |-> [t \in Trackers |-> FALSE]]
    /\ sent = [s \in Searches |-> [t \in Trackers |-> {}]]

SetStatus(s, on) == status' = [status EXCEPT ![FileOf[s]] = on]

Searching(s) == status[FileOf[s]]

(* SetEvent.  When the handler has gone the handle is closed.              *)
SetEvent(s) == event' = [event EXCEPT ![s] = handler[s] = "waiting"]

(* IsIpInTheBlackList looks in the main list only.  The list is a local    *)
(* variable of the handler: once that has returned a thread that looks at  *)
(* it may find anything.                                                   *)
BlackListsSeen(s) ==
    IF handler[s] = "waiting" THEN {black[s]} ELSE SUBSET Trackers

(* AddIpToBlackList: an address that is in neither list goes to the future *)
(* one.  GetFormattedList: the two lists become one.                       *)
WithAdded(s, l, ips) == future[s] \cup (ips \ l)
Merged(s, l) == l \cup future[s]

-----------------------------------------------------------------------------
(* The handler of a request for a file that is not in the local database.  *)

Ask(s) ==
    /\ handler[s] = "idle"
    /\ files[FileOf[s]] = {}
    /\ \E r \in Trackers \cup {Self}, l \in Lists :
          /\ from' = [from EXCEPT ![s] = r]
          /\ listed' = [listed EXCEPT ![s] = l]
          /\ black' = [black EXCEPT ![s] = l]
    /\ SetStatus(s, TRUE)
    /\ handler' = [handler EXCEPT ![s] = "asking"]
    /\ UNCHANGED <<number, files, lock, event, future, launcherVars,
                   searcherVars>>

(* send_t2t_torrent_file_request up to its wait.                           *)
Launch(s) ==
    /\ handler[s] = "asking"
    /\ number' = 0
    /\ handler' = [handler EXCEPT ![s] = "waiting"]
    /\ launcher' = [launcher EXCEPT ![s] = "enter"]
    /\ UNCHANGED <<status, files, lock, event, from, listed, listVars,
                   known, todo, current, searcherVars>>

(* The wait ends because the event, which resets itself, is set ...        *)
Wake(s) ==
    /\ handler[s] = "waiting" /\ event[s]
    /\ event' = [event EXCEPT ![s] = FALSE]
    /\ handler' = [handler EXCEPT ![s] = "answered"]
    /\ UNCHANGED <<number, status, files, lock, from, listed, listVars,
                   launcherVars, searcherVars>>

(* ... or after TORRENT_FILES_LOOKUP_WAITING_TIME.                         *)
Timeout(s) ==
    /\ handler[s] = "waiting"
    /\ event' = [event EXCEPT ![s] = FALSE]
    /\ handler' = [handler EXCEPT ![s] = "late"]
    /\ UNCHANGED <<number, status, files, lock, from, listed, listVars,
                   launcherVars, searcherVars>>

-----------------------------------------------------------------------------
(* The launcher, T2T_tf_Request.  It owns exploration_map_sync from Enter  *)
(* to Leave.                                                               *)

LauncherAt(s, place) == launcher[s] = place
LauncherTo(s, place) == launcher' = [launcher EXCEPT ![s] = place]

Enter(s) ==
    /\ LauncherAt(s, "enter") /\ lock = Free
    /\ lock' = <<s>>
    /\ \E m \in SUBSET Trackers :
          /\ known' = [known EXCEPT ![s] = m]
          /\ todo' = [todo EXCEPT ![s] = m]
          /\ LauncherTo(s, IF m = {} THEN "look" ELSE "list")
    /\ UNCHANGED <<number, status, files, event, handlerVars, listVars,
                   current, searcherVars>>

(* Mutant of MakeList: the test of the black list is inverted.             *)
MakeListInverted(s) ==
    /\ LauncherAt(s, "list")
    /\ \E l \in BlackListsSeen(s) :
          future' = [future EXCEPT ![s] = WithAdded(s, l, todo[s] \cap l)]
    /\ number' = 0
    /\ LauncherTo(s, "look")
    /\ UNCHANGED <<status, files, lock, event, handlerVars, black, known,
                   todo, current, searcherVars>>

(* "Creating the future black Ips list", then init_tf_thread_searcher.     *)
MakeList(s) ==
    /\ LauncherAt(s, "list")
    /\ \E l \in BlackListsSeen(s) :
          future' = [future EXCEPT ![s] =
                          WithAdded(s, l, todo[s] \ ({from[s]} \cup l))]
    /\ number' = 0
    /\ LauncherTo(s, "look")
    /\ UNCHANGED <<status, files, lock, event, handlerVars, black, known,
                   todo, current, searcherVars>>

(* The condition of the loops.                                             *)
Look(s) ==
    /\ LauncherAt(s, "look")
    /\ Searching(s)
    /\ \E t \in todo[s] :
          /\ current' = [current EXCEPT ![s] = t]
          /\ todo' = [todo EXCEPT ![s] = @ \ {t}]
    /\ LauncherTo(s, "begin")
    /\ UNCHANGED <<number, status, files, lock, event, handlerVars, listVars,
                   known, searcherVars>>

Leave(s) ==
    /\ LauncherAt(s, "look")
    /\ ~Searching(s) \/ todo[s] = {}
    /\ lock' = Free
    /\ LauncherTo(s, "end")
    /\ UNCHANGED <<number, status, files, event, handlerVars, listVars,
                   known, todo, current, searcherVars>>

(* The body: a searcher is begun first and counted afterwards.             *)
Begin(s) ==
    /\ LauncherAt(s, "begin")
    /\ \E l \in BlackListsSeen(s) :
          IF current[s] = from[s] \/ current[s] \in l
          THEN /\ LauncherTo(s, "look")
               /\ UNCHANGED searcher
          ELSE /\ LauncherTo(s, "count")
               /\ searcher' = [searcher EXCEPT ![s][current[s]] = "begun"]
    /\ UNCHANGED <<number, status, files, lock, event, handlerVars, listVars,
                   known, todo, current, rest, getting_data, sent>>

Count(s) ==
    /\ LauncherAt(s, "count")
    /\ number' = number + 1
    /\ LauncherTo(s, "look")
    /\ UNCHANGED <<status, files, lock, event, handlerVars, listVars,
                   known, todo, current, searcherVars>>

(* Mutant of End: the launcher leaves the waking to the searchers.         *)
EndSilent(s) ==
    /\ LauncherAt(s, "end")
    /\ LauncherTo(s, "done")
    /\ UNCHANGED <<number, status, files, lock, event, handlerVars, listVars,
                   known, todo, current, searcherVars>>

(* "Ending the thread": get_tf_thread_searchers_number, and when it is     *)
(* zero LauncherOff and LauncherSignal.                                    *)
End(s) ==
    /\ LauncherAt(s, "end")
    /\ LauncherTo(s, IF number = 0 THEN "off" ELSE "done")
    /\ UNCHANGED <<number, status, files, lock, event, handlerVars, listVars,
                   known, todo, current, searcherVars>>

LauncherOff(s) ==
    /\ LauncherAt(s, "off")
    /\ SetStatus(s, FALSE)
    /\ LauncherTo(s, "signal")
    /\ UNCHANGED <<number, files, lock, event, handlerVars, listVars,
                   known, todo, current, searcherVars>>

LauncherSignal(s) ==
    /\ LauncherAt(s, "signal")
    /\ SetEvent(s)
    /\ LauncherTo(s, "done")
    /\ UNCHANGED <<number, status, files, lock, handlerVars, listVars,
                   known, todo, current, searcherVars>>

-----------------------------------------------------------------------------
(* A searcher, T2T_tf_Request_known_host.                                  *)

SearcherAt(s, t, place) == searcher[s][t] = place
SearcherTo(s, t, place) == searcher' = [searcher EXCEPT ![s][t] = place]

(* The first condition; the local address is never in the exploration map. *)
Start(s, t) ==
    /\ SearcherAt(s, t, "begun")
    /\ SearcherTo(s, t, IF Searching(s) THEN "connect" ELSE "drop")
    /\ UNCHANGED <<number, status, files, lock, event, handlerVars, listVars,
                   launcherVars, rest, getting_data, sent>>

(* Mutant of Fail: the handler of the exception does not drop the searcher *)
(* from the number.                                                        *)
FailUncounted(s, t) ==
    /\ SearcherAt(s, t, "connect")
    /\ SearcherTo(s, t, "done")
    /\ UNCHANGED <<number, status, files, lock, event, handlerVars, listVars,
                   launcherVars, rest, getting_data, sent>>

(* The SocketClient constructor throws.                                    *)
Fail(s, t) ==
    /\ SearcherAt(s, t, "connect")
    /\ SearcherTo(s, t, "drop")
    /\ UNCHANGED <<number, status, files, lock, event, handlerVars, listVars,
                   launcherVars, rest, getting_data, sent>>

(* The request is sent with GetFormattedList(), which moves the future     *)
(* list into the black list that the threads of the search share.          *)
Connect(s, t) ==
    /\ SearcherAt(s, t, "connect")
    /\ \E l \in BlackListsSeen(s), answer \in Answers :
          /\ sent' = [sent EXCEPT ![s][t] = Merged(s, l)]
          /\ black' = [black EXCEPT ![s] = Merged(s, l)]
          /\ rest' = [rest EXCEPT ![s][t] = answer]
    /\ future' = [future EXCEPT ![s] = {}]
    /\ SearcherTo(s, t, "read")
    /\ UNCHANGED <<number, status, files, lock, event, handlerVars,
                   launcherVars, getting_data>>

(* The condition of the loop that reads the answer.                        *)
Read(s, t) ==
    /\ SearcherAt(s, t, "read")
    /\ SearcherTo(s, t, IF Searching(s) \/ getting_data[s][t]
                        THEN "line" ELSE "drop")
    /\ UNCHANGED <<number, status, files, lock, event, handlerVars, listVars,
                   launcherVars, rest, getting_data, sent>>

(* ReceiveLine returns an empty line at the end of the message and when    *)
(* the connection has ended, which it may at any time.                     *)
LineEnd(s, t) ==
    /\ SearcherAt(s, t, "line")
    /\ SearcherTo(s, t, "last")
    /\ UNCHANGED <<number, status, files, lock, event, handlerVars, listVars,
                   launcherVars, rest, getting_data, sent>>

(* Mutant of LineOwner: the file is stored as one of the requester's.      *)
LineOwnerOfRequester(s, t) ==
    /\ SearcherAt(s, t, "line")
    /\ rest[s][t] # <<>> /\ Head(rest[s][t]) = "owner"
    /\ rest' = [rest EXCEPT ![s][t] = Tail(@)]
    /\ getting_data' = [getting_data EXCEPT ![s][t] = TRUE]
    /\ files' = [files EXCEPT ![FileOf[s]] = @ \cup {from[s]}]
    /\ SearcherTo(s, t, "read")
    /\ UNCHANGED <<number, status, lock, event, handlerVars, listVars,
                   launcherVars, sent>>

LineOwner(s, t) ==
    /\ SearcherAt(s, t, "line")
    /\ rest[s][t] # <<>> /\ Head(rest[s][t]) = "owner"
    /\ rest' = [rest EXCEPT ![s][t] = Tail(@)]
    /\ getting_data' = [getting_data EXCEPT ![s][t] = TRUE]
    /\ files' = [files EXCEPT ![FileOf[s]] =
                                IF Searching(s) THEN @ \cup {t} ELSE @]
    /\ SearcherTo(s, t, "read")
    /\ UNCHANGED <<number, status, lock, event, handlerVars, listVars,
                   launcherVars, sent>>

LinePeers(s, t) ==
    /\ SearcherAt(s, t, "line")
    /\ rest[s][t] # <<>> /\ Head(rest[s][t]) = "peers"
    /\ rest' = [rest EXCEPT ![s][t] = Tail(@)]
    /\ SearcherTo(s, t, "hops")
    /\ UNCHANGED <<number, status, files, lock, event, handlerVars, listVars,
                   launcherVars, getting_data, sent>>

(* GetNumberOfHops enters exploration_map_sync, which a thread may enter   *)
(* again, and returns without leaving it when it finds the address.        *)
LockAfterHops(s, t, found) == IF found THEN <<s, t>> ELSE lock

Hops(s, t) ==
    /\ SearcherAt(s, t, "hops")
    /\ lock \in {Free, <<s, t>>}
    /\ \E found \in PeerKnown : lock' = LockAfterHops(s, t, found)
    /\ SearcherTo(s, t, "read")
    /\ UNCHANGED <<number, status, files, event, handlerVars, listVars,
                   launcherVars, rest, getting_data, sent>>

(* Mutant of Drop: only the end of an answer sets the event.               *)
DropSilent(s, t) ==
    /\ SearcherAt(s, t, "drop") \/ SearcherAt(s, t, "last")
    /\ number' = number - 1
    /\ SearcherTo(s, t, IF number' = 0 /\ SearcherAt(s, t, "last")
                        THEN "off" ELSE "done")
    /\ UNCHANGED <<status, files, lock, event, handlerVars, listVars,
                   launcherVars, rest, getting_data, sent>>

(* drop_tf_thread_searcher.  The searcher that brings the number to zero   *)
(* sets the event; only after the end of an answer does it first set the   *)
(* status.                                                                 *)
Drop(s, t) ==
    /\ SearcherAt(s, t, "drop") \/ SearcherAt(s, t, "last")
    /\ number' = number - 1
    /\ SearcherTo(s, t, IF number' # 0 THEN "done"
                        ELSE IF SearcherAt(s, t, "last") THEN "off"
                        ELSE "signal")
    /\ UNCHANGED <<status, files, lock, event, handlerVars, listVars,
                   launcherVars, rest, getting_data, sent>>

SearcherOff(s, t) ==
    /\ SearcherAt(s, t, "off")
    /\ SetStatus(s, FALSE)
    /\ SearcherTo(s, t, "signal")
    /\ UNCHANGED <<number, files, lock, event, handlerVars, listVars,
                   launcherVars, rest, getting_data, sent>>

SearcherSignal(s, t) ==
    /\ SearcherAt(s, t, "signal")
    /\ SetEvent(s)
    /\ SearcherTo(s, t, "done")
    /\ UNCHANGED <<number, status, files, lock, handlerVars, listVars,
                   launcherVars, rest, getting_data, sent>>

-----------------------------------------------------------------------------
Handler(s) == Ask(s) \/ Launch(s) \/ Wake(s)

Launcher(s) ==
    \/ Enter(s) \/ MakeList(s) \/ Look(s) \/ Begin(s) \/ Count(s) \/ Leave(s)
    \/ End(s) \/ LauncherOff(s) \/ LauncherSignal(s)

Searcher(s, t) ==
    \/ Start(s, t) \/ Fail(s, t) \/ Connect(s, t) \/ Read(s, t)
    \/ LineEnd(s, t) \/ LineOwner(s, t) \/ LinePeers(s, t) \/ Hops(s, t)
    \/ Drop(s, t) \/ SearcherOff(s, t) \/ SearcherSignal(s, t)

Next ==
    \E s \in Searches :
        \/ Ask(s) \/ Launch(s) \/ Wake(s) \/ Timeout(s)
        \/ Enter(s) \/ MakeList(s) \/ Look(s) \/ Begin(s) \/ Count(s)
        \/ Leave(s) \/ End(s) \/ LauncherOff(s) \/ LauncherSignal(s)
        \/ \E t \in Trackers :
              \/ Start(s, t) \/ Fail(s, t) \/ Connect(s, t) \/ Read(s, t)
              \/ LineEnd(s, t) \/ LineOwner(s, t) \/ LinePeers(s, t)
              \/ Hops(s, t) \/ Drop(s, t) \/ SearcherOff(s, t)
              \/ SearcherSignal(s, t)

Spec == Init /\ [][Next]_vars

(* Every thread that can run does; a connection is made or refused and a   *)
(* line or the end of the connection arrives, as the sockets have their    *)
(* own timeouts.  The wait is never assumed to time out.                   *)
FairSpec ==
    /\ Spec
    /\ \A s \in Searches :
          /\ WF_vars(Handler(s)) /\ WF_vars(Launcher(s))
          /\ \A t \in Trackers : WF_vars(Searcher(s, t))

-----------------------------------------------------------------------------
Begun(s) == {t \in Trackers : searcher[s][t] # "none"}

(* Searchers that the launcher has added to the number, and those that     *)
(* have taken themselves off it.                                           *)
Counted(s) == Begun(s) \ (IF launcher[s] = "count" THEN {current[s]} ELSE {})
Dropped(s) == {t \in Trackers : searcher[s][t] \in {"off", "signal", "done"}}

Launching(s) == launcher[s] \in {"list", "look", "begin", "count"}

(* Trackers the launcher has yet to come to.                               *)
Ahead(s) ==
    todo[s] \cup (IF launcher[s] = "begin" THEN {current[s]} ELSE {})

(* The threads of a search and the data they share stay what they are.     *)
TypeOK ==
    /\ number \in Int
    /\ status \in [Files -> BOOLEAN]
    /\ files \in [Files -> SUBSET Trackers]
    /\ lock \in {Free} \cup {<<s>> : s \in Searches} \cup (Searches \X Trackers)
    /\ handler \in [Searches -> HandlerPlaces]
    /\ event \in [Searches -> BOOLEAN]
    /\ from \in [Searches -> Trackers \cup {Self}]
    /\ listed \in [Searches -> SUBSET Trackers]
    /\ black \in [Searches -> SUBSET Trackers]
    /\ future \in [Searches -> SUBSET Trackers]
    /\ launcher \in [Searches -> LauncherPlaces]
    /\ known \in [Searches -> SUBSET Trackers]
    /\ todo \in [Searches -> SUBSET Trackers]
    /\ current \in [Searches -> Trackers \cup {Self}]
    /\ searcher \in [Searches -> [Trackers -> SearcherPlaces]]
    /\ rest \in [Searches -> [Trackers -> Seq({"peers", "owner"})]]
    /\ getting_data \in [Searches -> [Trackers -> BOOLEAN]]
    /\ sent \in [Searches -> [Trackers -> SUBSET Trackers]]

(* The number that decides who wakes the handler is the number of          *)
(* searchers counted and not yet dropped.  It goes below zero when a       *)
(* searcher ends before the launcher has counted it.                       *)
NumberExact ==
    \A s \in Searches :
        number = Cardinality(Counted(s)) - Cardinality(Dropped(s))

(* No wake-up is lost: when the launcher and all searchers of a search     *)
(* have ended, its handler does not wait for an event that nobody is left  *)
(* to set.                                                                 *)
NoLostWakeUp ==
    \A s \in Searches :
        /\ handler[s] = "waiting" /\ launcher[s] = "done"
        /\ \A t \in Trackers : searcher[s][t] \in {"none", "done"}
        => event[s]

(* Trackers that a search forwards to are named in each request it sends,  *)
(* so that none of them forwards to another: this ends the flooding.       *)
NamesAll ==
    \A s \in Searches : \A t, u \in Trackers :
        /\ handler[s] = "waiting"
        /\ searcher[s][t] \in {"read", "line", "hops"}
        /\ u \in Begun(s)
        => u \in sent[s][t]

(* A searcher has ended without leaving exploration_map_sync.              *)
LockLeft == \E s \in Searches, t \in Trackers :
                lock = <<s, t>> /\ searcher[s][t] = "done"

(* A handler that waits is woken; it need not time out.  Only the lock     *)
(* that GetNumberOfHops has not left (WMRoutingTable.cpp:760) may keep it  *)
(* waiting.                                                                *)
Answered ==
    \A s \in Searches : handler[s] = "waiting" ~> handler[s] # "waiting" \/ LockLeft
=============================================================================
