---------------------------- MODULE SearchEngine ----------------------------
(***************************************************************************)
(* The files of the search engine: the dictionary of FilesManager, the     *)
(* three lists of the window, the list of downloads and the threads that   *)
(* download, publish, look up and upload.  The handlers of the window run  *)
(* one at a time on the thread of the window; the other threads run        *)
(* between any two of them, and while the window waits for a dialog or for *)
(* the lookup thread.  One call of the dictionary is one step: the         *)
(* dictionary is taken to do each of its operations whole.                 *)
(***************************************************************************)
EXTENDS Integers

CONSTANTS
    Files,        \* names of files
    Downloaders,  \* threads that run StartDownloading
    Publishers,   \* threads that run PublishFile
    Size,         \* the size the tracker gave for a file
    MaxBytes,     \* bound: what a remote host sends at most
    MaxItems      \* bound: items of one file in one list of the window

ASSUME SizeAssumption == Size \in Nat /\ MaxBytes \in Nat /\ MaxItems \in Nat

VARIABLES
    dict,         \* mainFilesDic: the entry of each file
    shown,        \* how many items of a file each list of the window has
    list,         \* downloadList: how often each file is in it
    loader,       \* the download threads
    publisher,    \* the publishing threads
    gui,          \* what the thread of the window is doing
    disk,         \* bytes of the file in the folder of downloads
    announced,    \* files some tracker or the DHT names us an owner of
    down,         \* "no", or the part whose exception ended the process
    tried         \* history: files we were asked to publish since the start

vars == <<dict, shown, list, loader, publisher, gui, disk, announced, down, tried>>

\* The lists of the window; found items of our own address are kept apart.
Views == {"found", "here", "download", "published"}

Kinds == {"none", "found", "here", "download", "publish"}

\* done is Downloaded of a FileDownloadStatus, Published of a
\* FilePublishingStatus; path is where LocalFilePath leads.
Entry == [kind : Kinds, done : BOOLEAN, path : {"none", "chosen", "fetched"}]

NoEntry == [kind |-> "none", done |-> FALSE, path |-> "none"]
Found(k) == [kind |-> k, done |-> FALSE, path |-> "none"]

\* mine: the object the thread holds is still the one in the dictionary.
Loader == [at : {"idle", "begin", "enter", "connect", "receive", "tell", "check", "log", "leave", "path"},
           file : Files, mine : BOOLEAN, got : 0 .. MaxBytes]

\* trying: the thread has not yet come to its catch block.
Publisher == [at : {"idle", "send", "update", "add"}, file : Files,
              trying : BOOLEAN, path : {"none", "chosen", "fetched"}]

Idle(f) == [at |-> "idle", file |-> f, mine |-> FALSE, got |-> 0]
IdleP(f) == [at |-> "idle", file |-> f, trying |-> FALSE, path |-> "none"]

\* ask: the lookup thread runs; add: its answer is here; describe: the dialog
\* of a description is open; enter: the publisher runs, AddFile is yet to come.
Gui == [at : {"idle", "ask", "add", "describe", "enter"}, files : SUBSET Files, kind : {"found", "here"}]
GuiIdle == [at |-> "idle", files |-> {}, kind |-> "found"]

Fresh(f) ==
    /\ dict = [g \in Files |-> NoEntry]
    /\ shown = [v \in Views |-> [g \in Files |-> 0]]
    /\ list = [g \in Files |-> 0]
    /\ loader = [t \in Downloaders |-> Idle(f)]
    /\ publisher = [t \in Publishers |-> IdleP(f)]
    /\ gui = GuiIdle
    /\ down = "no"
    /\ tried = {}

Init ==
    /\ \E f \in Files : Fresh(f)
    /\ disk = [f \in Files |-> 0]
    /\ announced = {}
-----------------------------------------------------------------------------
\* One more or one less item of f in list v; the caps are bounds of the model.
Show(v, f) == shown' = [shown EXCEPT ![v][f] = @ + 1]
Hide(v, f) == shown' = [shown EXCEPT ![v][f] = @ - 1]

\* Replacing or removing an entry leaves the threads with the old object.
Replace(f, e) ==
    /\ dict' = [dict EXCEPT ![f] = e]
    /\ loader' = [t \in Downloaders |-> IF loader[t].file = f THEN [loader[t] EXCEPT !.mine = FALSE] ELSE loader[t]]

\* An exception nobody catches ends the process.
Crash(part) ==
    /\ down' = part
    /\ UNCHANGED <<dict, shown, list, loader, publisher, gui, disk, announced, tried>>

Running == down = "no"
Clickable == Running /\ gui.at = "idle"
Pumping == gui.at \in {"idle", "describe"}

\* PublishFile of a known file: a publishing thread starts.
StartPublisher(f) ==
    /\ tried' = tried \cup {f}
    /\ \E p \in Publishers :
        /\ publisher[p].at = "idle"
        /\ publisher' = [publisher EXCEPT ![p] = [at |-> "send", file |-> f, trying |-> TRUE, path |-> "none"]]
-----------------------------------------------------------------------------
\* buttonFind: the window waits in Join for the lookup thread.
Find ==
    /\ Clickable
    /\ gui' = [gui EXCEPT !.at = "ask"]
    /\ UNCHANGED <<dict, shown, list, loader, publisher, disk, announced, down, tried>>

\* Mutant of Lookup: files are results whether the dictionary has them or not.
LookupAnew ==
    /\ Running
    /\ gui.at = "ask"
    /\ \E named \in SUBSET Files :
        /\ \A f \in named : shown["found"][f] < MaxItems
        /\ gui' = [at |-> "add", files |-> named, kind |-> "found"]
    /\ UNCHANGED <<dict, shown, list, loader, publisher, disk, announced, down, tried>>

\* RequestSingleFile: no handler for a tracker that does not answer; files
\* the dictionary has get hosts only, the others become results.
Lookup ==
    /\ Running
    /\ gui.at = "ask"
    /\ \/ Crash("lookup")
       \/ \E named \in SUBSET Files, k \in {"found", "here"} :
            /\ k = "here" => named \subseteq announced
            /\ \A f \in named : shown[k][f] < MaxItems
            /\ gui' = [at |-> "add", files |-> {f \in named : dict[f].kind = "none"}, kind |-> k]
            /\ UNCHANGED <<dict, shown, list, loader, publisher, disk, announced, down, tried>>

\* FindAndAddFile and the list of found files.
AddFound ==
    /\ Running
    /\ gui.at = "add"
    /\ dict' = [f \in Files |-> IF f \in gui.files /\ dict[f].kind = "none" THEN Found(gui.kind) ELSE dict[f]]
    /\ shown' = [shown EXCEPT ![gui.kind] = [f \in Files |-> IF f \in gui.files THEN @[f] + 1 ELSE @[f]]]
    /\ gui' = GuiIdle
    /\ UNCHANGED <<list, loader, publisher, disk, announced, down, tried>>

\* Mutant of Select: the item stays in the list of found files.
SelectStays(f) ==
    /\ Clickable
    /\ shown["found"][f] > 0 /\ dict[f].kind # "none"
    /\ shown["download"][f] < MaxItems
    /\ Show("download", f)
    /\ Replace(f, [kind |-> "download", done |-> FALSE, path |-> dict[f].path])
    /\ UNCHANGED <<list, publisher, gui, disk, announced, down, tried>>

\* buttonSelectFileForDownloading and MoveFileToDownloadList.
Select(f) ==
    /\ Clickable
    /\ shown["found"][f] > 0
    /\ \/ /\ dict[f].kind = "none"
          /\ Hide("found", f)
          /\ UNCHANGED <<dict, loader>>
       \/ /\ dict[f].kind # "none"
          /\ shown["download"][f] < MaxItems
          /\ shown' = [shown EXCEPT !["found"][f] = @ - 1, !["download"][f] = @ + 1]
          /\ Replace(f, [kind |-> "download", done |-> FALSE, path |-> dict[f].path])
    /\ UNCHANGED <<list, publisher, gui, disk, announced, down, tried>>

\* Mutant of Delete: the selection is not tested.
DeleteUnselected(v, f) ==
    /\ Clickable
    /\ v \in Views \ {"download"}
    /\ Hide(v, f)
    /\ Replace(f, NoEntry)
    /\ UNCHANGED <<list, publisher, gui, disk, announced, down, tried>>

\* menuItemFDDelete and menuItemDelete: the entry goes, whatever its kind.
Delete(v, f) ==
    /\ Clickable
    /\ v \in Views \ {"download"}
    /\ shown[v][f] > 0
    /\ Hide(v, f)
    /\ Replace(f, NoEntry)
    /\ UNCHANGED <<list, publisher, gui, disk, announced, down, tried>>

\* buttonRemoveFile: the cast, the test of Downloaded, the entry.
Remove(f) ==
    /\ Clickable
    /\ shown["download"][f] > 0
    /\ \/ dict[f].kind # "download" /\ Crash("window")
       \/ /\ dict[f].kind = "download" /\ dict[f].done
          /\ Hide("download", f)
          /\ Replace(f, NoEntry)
          /\ UNCHANGED <<list, publisher, gui, disk, announced, down, tried>>

\* The menus that cast the entry: the path, the related data, the hosts and
\* the publication of a download, the status of a published file.  When the
\* cast holds they only show something, or go on to PublishKnown.
Inspect(f) ==
    /\ Clickable
    /\ \/ shown["download"][f] > 0 /\ dict[f].kind # "download"
       \/ shown["published"][f] > 0 /\ dict[f].kind \notin {"none", "publish"}
    /\ Crash("window")
-----------------------------------------------------------------------------
\* buttonDownloadFile and DownloadFile: the list is asked here, and entered
\* by the thread later.
Download(f) ==
    /\ Clickable
    /\ shown["download"][f] > 0
    /\ list[f] = 0
    /\ \E t \in Downloaders :
        /\ loader[t].at = "idle"
        /\ loader' = [loader EXCEPT ![t] = [at |-> "begin", file |-> f, mine |-> FALSE, got |-> 0]]
    /\ UNCHANGED <<dict, shown, list, publisher, gui, disk, announced, down, tried>>

Loading(t, from) == Running /\ loader[t].at = from

Goto(t, to) == loader' = [loader EXCEPT ![t].at = to]
Ended(t) == loader' = [loader EXCEPT ![t] = Idle(loader[t].file)]

\* GetFileDetails and the cast to FileDownloadStatus.
Begin(t) ==
    LET e == dict[loader[t].file] IN
    /\ Loading(t, "begin")
    /\ \/ e.kind # "download" /\ Crash("download")
       \/ /\ e.kind = "download"
          /\ e.done => Pumping
          /\ IF e.done THEN Ended(t) ELSE loader' = [loader EXCEPT ![t].at = "enter", ![t].mine = TRUE]
          /\ UNCHANGED <<dict, shown, list, publisher, gui, disk, announced, down, tried>>

\* AddDownloadingFile.
Enter(t) ==
    /\ Loading(t, "enter")
    /\ list' = [list EXCEPT ![loader[t].file] = @ + 1]
    /\ Goto(t, "connect")
    /\ UNCHANGED <<dict, shown, publisher, gui, disk, announced, down, tried>>

\* RemoveDownloadFile takes one occurrence of the name out of the list.
Leave(f) == list' = [list EXCEPT ![f] = IF @ > 0 THEN @ - 1 ELSE 0]

\* The connection, the request and the local file: a SocketException is
\* caught; a broken write, or a file another thread has open, is not.
Connect(t) ==
    LET open == \E u \in Downloaders : loader[u].at = "receive" /\ loader[u].file = loader[t].file IN
    /\ Loading(t, "connect")
    /\ \/ /\ Leave(loader[t].file)
          /\ Ended(t)
          /\ UNCHANGED <<dict, shown, publisher, gui, disk, announced, down, tried>>
       \/ Crash("download")
       \/ /\ ~open
          /\ loader' = [loader EXCEPT ![t].at = "receive", ![t].got = 0]
          /\ UNCHANGED <<dict, shown, list, publisher, gui, disk, announced, down, tried>>

\* Bytes come in and are written from the start of the file, which is neither
\* truncated nor deleted; a broken read is not caught.
Receive(t) ==
    LET f == loader[t].file IN
    /\ Loading(t, "receive")
    /\ \/ Crash("download")
       \/ /\ loader[t].got < MaxBytes
          /\ loader' = [loader EXCEPT ![t].got = @ + 1]
          /\ disk' = [disk EXCEPT ![f] = IF @ > loader[t].got THEN @ ELSE loader[t].got + 1]
          /\ UNCHANGED <<dict, shown, list, publisher, gui, announced, down, tried>>
       \/ /\ Goto(t, "tell")
          /\ UNCHANGED <<dict, shown, list, publisher, gui, disk, announced, down, tried>>

\* UpdateDownloadingStatus waits for the window and looks for the item.
Tell(t) ==
    /\ Loading(t, "tell")
    /\ Pumping
    /\ \/ shown["download"][loader[t].file] = 0 /\ Crash("download")
       \/ /\ shown["download"][loader[t].file] > 0
          /\ Goto(t, "check")
          /\ UNCHANGED <<dict, shown, list, publisher, gui, disk, announced, down, tried>>

\* Mutant of Check: the file that is deleted is the one that was written.
CheckDeletes(t) ==
    LET f == loader[t].file
        whole == loader[t].got = Size IN
    /\ Loading(t, "check")
    /\ dict' = IF whole /\ loader[t].mine THEN [dict EXCEPT ![f].done = TRUE] ELSE dict
    /\ disk' = IF whole THEN disk ELSE [disk EXCEPT ![f] = 0]
    /\ IF whole THEN Goto(t, "log") ELSE Ended(t)
    /\ UNCHANGED <<shown, list, publisher, gui, announced, down, tried>>

\* The whole file came: Downloaded.  Else File.Delete with a name that is not
\* the path of the file, and the name stays in the list.
Check(t) ==
    LET f == loader[t].file IN
    /\ Loading(t, "check")
    /\ \/ /\ loader[t].got = Size
          /\ dict' = IF loader[t].mine THEN [dict EXCEPT ![f].done = TRUE] ELSE dict
          /\ loader' = [loader EXCEPT ![t].at = "log", ![t].got = 0]
       \/ /\ loader[t].got # Size
          /\ Ended(t)
          /\ UNCHANGED dict
    /\ UNCHANGED <<shown, list, publisher, gui, disk, announced, down, tried>>

\* The message, AppendToLogDialog.
Log(t) ==
    /\ Loading(t, "log")
    /\ Pumping
    /\ Goto(t, "leave")
    /\ UNCHANGED <<dict, shown, list, publisher, gui, disk, announced, down, tried>>

\* RemoveDownloadFile of a complete download.
LeaveList(t) ==
    /\ Loading(t, "leave")
    /\ Leave(loader[t].file)
    /\ Goto(t, "path")
    /\ UNCHANGED <<dict, shown, publisher, gui, disk, announced, down, tried>>

\* The last step: the entry learns where the file is.
SetPath(t) ==
    LET f == loader[t].file IN
    /\ Loading(t, "path")
    /\ dict' = IF loader[t].mine THEN [dict EXCEPT ![f].path = "fetched"] ELSE dict
    /\ Ended(t)
    /\ UNCHANGED <<shown, list, publisher, gui, disk, announced, down, tried>>
-----------------------------------------------------------------------------
\* publishFile and PublishFile, the file is not in the dictionary: the dialog.
Describe(f) ==
    /\ Clickable
    /\ dict[f].kind = "none"
    /\ shown["published"][f] < MaxItems
    /\ gui' = [gui EXCEPT !.at = "describe", !.files = {f}]
    /\ tried' = tried \cup {f}
    /\ UNCHANGED <<dict, shown, list, loader, publisher, disk, announced, down>>

\* The dialog closes: the thread starts before the entry is added.
Described(f) ==
    /\ Running
    /\ gui.at = "describe" /\ f \in gui.files
    /\ StartPublisher(f)
    /\ gui' = [gui EXCEPT !.at = "enter"]
    /\ UNCHANGED <<dict, shown, list, loader, disk, announced, down>>

\* AddFile and the item of the list.
AddPublished(f) ==
    /\ Running
    /\ gui.at = "enter" /\ f \in gui.files
    /\ dict' = IF dict[f].kind = "none"
               THEN [dict EXCEPT ![f] = [kind |-> "publish", done |-> FALSE, path |-> "chosen"]]
               ELSE dict
    /\ Show("published", f)
    /\ gui' = GuiIdle
    /\ UNCHANGED <<list, loader, publisher, disk, announced, down, tried>>

\* publishFile of a file the dictionary has, or menuItemPublish of a download.
PublishKnown(f) ==
    /\ Clickable
    /\ dict[f].kind # "none"
    /\ shown["published"][f] < MaxItems
    /\ Show("published", f)
    /\ StartPublisher(f)
    /\ UNCHANGED <<dict, list, loader, gui, disk, announced, down>>

\* menuItemRePublish: a found file of our own.
RePublish(f) ==
    /\ Clickable
    /\ shown["here"][f] > 0
    /\ \/ dict[f].kind = "none" /\ Crash("window")
       \/ /\ dict[f].kind # "none"
          /\ shown["published"][f] < MaxItems
          /\ shown' = [shown EXCEPT !["here"][f] = @ - 1, !["published"][f] = @ + 1]
          /\ StartPublisher(f)
          /\ UNCHANGED <<dict, list, loader, gui, disk, announced, down>>

\* menuItemRetryPublishing: the name without its folder is no path.
Retry(f) ==
    /\ Clickable
    /\ shown["published"][f] > 0
    /\ \/ dict[f].kind = "none" /\ Crash("window")
       \/ /\ dict[f].kind # "none"
          /\ StartPublisher(f)
          /\ UNCHANGED <<dict, shown, list, loader, gui, disk, announced, down>>

\* PublishFileViaDHT: no thread, no dialog.
PublishViaDht(f) ==
    /\ Clickable
    /\ shown["published"][f] < MaxItems
    /\ dict' = IF dict[f].kind = "none"
               THEN [dict EXCEPT ![f] = [kind |-> "publish", done |-> FALSE, path |-> "chosen"]]
               ELSE dict
    /\ Show("published", f)
    /\ announced' = announced \cup {f}
    /\ tried' = tried \cup {f}
    /\ UNCHANGED <<list, loader, publisher, gui, disk, down>>

Publishing(p, from) == Running /\ publisher[p].at = from

\* The request to the tracker, or an exception on the way.
Send(p) ==
    /\ Publishing(p, "send")
    /\ \/ /\ announced' = announced \cup {publisher[p].file}
          /\ publisher' = [publisher EXCEPT ![p].at = "update"]
       \/ /\ publisher' = [publisher EXCEPT ![p].at = "update", ![p].trying = FALSE]
          /\ UNCHANGED announced
    /\ UNCHANGED <<dict, shown, list, loader, gui, disk, down, tried>>

\* An exception in UpdateFilePublishingStatus: the catch block calls it again.
Throw(p) ==
    \/ ~publisher[p].trying /\ Crash("publish")
    \/ /\ publisher[p].trying
       /\ publisher' = [publisher EXCEPT ![p].at = "update", ![p].trying = FALSE]
       /\ UNCHANGED <<dict, shown, list, loader, gui, disk, announced, down, tried>>

\* UpdateFilePublishingStatus: a download is taken out and will be added anew;
\* the cast of any other entry must be to FilePublishingStatus.
Update(p) ==
    LET f == publisher[p].file
        e == dict[f] IN
    /\ Publishing(p, "update")
    /\ \/ e.kind \in {"found", "here"} /\ Throw(p)
       \/ /\ e.kind = "download"
          /\ Replace(f, NoEntry)
          /\ publisher' = [publisher EXCEPT ![p].at = "add", ![p].path = e.path]
          /\ UNCHANGED <<shown, list, gui, disk, announced, down, tried>>
       \/ /\ e.kind \in {"none", "publish"}
          /\ dict' = IF e.kind = "none" THEN dict ELSE [dict EXCEPT ![f].done = publisher[p].trying]
          /\ publisher' = [publisher EXCEPT ![p] = IdleP(f)]
          /\ UNCHANGED <<shown, list, loader, gui, disk, announced, down, tried>>

\* The second half: Add throws when the name is there again.
AddStatus(p) ==
    LET f == publisher[p].file IN
    /\ Publishing(p, "add")
    /\ \/ dict[f].kind # "none" /\ Throw(p)
       \/ /\ dict[f].kind = "none"
          /\ dict' = [dict EXCEPT ![f] = [kind |-> "publish", done |-> publisher[p].trying, path |-> publisher[p].path]]
          /\ publisher' = [publisher EXCEPT ![p] = IdleP(f)]
          /\ UNCHANGED <<shown, list, loader, gui, disk, announced, down, tried>>

\* ThreadUploadingFunction: the entry may be of another kind, without a path,
\* or of a file that a second download has open for writing, and the remote
\* host may break off a read or a write.  No handler catches any of these.
Upload(f) ==
    /\ Running
    /\ f \in announced
    /\ Crash("upload")

\* The user closes the program, or starts it again; files and what trackers
\* know stay.
Quit == Clickable /\ Crash("quit")

Restart ==
    /\ ~Running
    /\ dict' = [f \in Files |-> NoEntry]
    /\ shown' = [v \in Views |-> [f \in Files |-> 0]]
    /\ list' = [f \in Files |-> 0]
    /\ loader' = [t \in Downloaders |-> Idle(loader[t].file)]
    /\ publisher' = [p \in Publishers |-> IdleP(publisher[p].file)]
    /\ gui' = GuiIdle
    /\ down' = "no"
    /\ tried' = {}
    /\ UNCHANGED <<disk, announced>>
-----------------------------------------------------------------------------
LoaderStep(t) ==
    \/ Begin(t) \/ Enter(t) \/ Connect(t) \/ Receive(t) \/ Tell(t)
    \/ Check(t) \/ Log(t) \/ LeaveList(t) \/ SetPath(t)

PublisherStep(p) == Send(p) \/ Update(p) \/ AddStatus(p)

WindowStep(f) ==
    \/ Select(f) \/ Remove(f) \/ Inspect(f) \/ Download(f)
    \/ \E v \in Views : Delete(v, f)
    \/ Describe(f) \/ Described(f) \/ AddPublished(f) \/ PublishKnown(f)
    \/ RePublish(f) \/ Retry(f) \/ PublishViaDht(f)

Next ==
    \/ Find \/ Lookup \/ AddFound \/ Quit \/ Restart
    \/ \E f \in Files : WindowStep(f) \/ Upload(f)
    \/ \E t \in Downloaders : LoaderStep(t)
    \/ \E p \in Publishers : PublisherStep(p)

Spec == Init /\ [][Next]_vars
-----------------------------------------------------------------------------
\* Every variable has its type.
TypeOK ==
    /\ dict \in [Files -> Entry]
    /\ shown \in [Views -> [Files -> Nat]]
    /\ list \in [Files -> Nat]
    /\ loader \in [Downloaders -> Loader]
    /\ publisher \in [Publishers -> Publisher]
    /\ gui \in Gui
    /\ disk \in [Files -> 0 .. MaxBytes]
    /\ announced \subseteq Files
    /\ down \in {"no", "quit", "lookup", "window", "download", "publish", "upload"}
    /\ tried \subseteq Files

\* What is offered as downloaded (FileDownloadStatus.Downloaded) or published
\* from the folder of downloads is there with all its bytes, whatever a second
\* download of the file, one cut short, or a crash did to the folder.
FetchedComplete ==
    \A f \in Files :
        (dict[f].kind = "download" /\ dict[f].done) \/ dict[f].path = "fetched" => disk[f] >= Size

\* The lists of the window and the dictionary agree on every file that was
\* not published: one item, in the list its entry belongs to.
ListsAgree ==
    \A f \in Files \ tried, v \in {"found", "here", "download"} :
        shown[v][f] = IF dict[f].kind = v THEN 1 ELSE 0

\* A finished download is not forgotten (found and selected anew, overwritten
\* by a lookup): its entry goes only with its item, at the user's command.
DownloadKept ==
    [][\A f \in Files :
        /\ dict[f].kind = "download" /\ dict[f].done
        /\ down' = "no" /\ down = "no"
        /\ f \notin tried'
        => \/ dict'[f].kind = "download" /\ dict'[f].done
           \/ shown'["download"][f] < shown["download"][f]]_vars
=============================================================================
