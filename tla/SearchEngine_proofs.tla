------------------------ MODULE SearchEngine_proofs ------------------------
(* The invariants of SearchEngine for any files, threads and sizes.        *)
EXTENDS SearchEngine, TLAPS

\* What each part of the next-state relation does to the types; one lemma for
\* the window, one for the threads.
USE SizeAssumption

\* The types hold at first.
LEMMA TypeInit == Init => TypeOK
  BY DEF Init, Fresh, TypeOK, NoEntry, Entry, Kinds, Idle, IdleP, Loader, Publisher, Gui, GuiIdle, Views

\* A lookup keeps the types.
LEMMA TypeLookup == TypeOK /\ (Find \/ Lookup \/ AddFound) => TypeOK'
  <1> SUFFICES ASSUME TypeOK, Find \/ Lookup \/ AddFound PROVE TypeOK'
    OBVIOUS
  <1> USE DEF TypeOK, Entry, Kinds, Gui, Views, Crash, GuiIdle, Found
  <1>1. CASE Find
    BY <1>1 DEF Find
  <1>2. CASE Lookup
    BY <1>2 DEF Lookup
  <1>3. CASE AddFound
    <2>1. dict' \in [Files -> Entry]
      BY <1>3 DEF AddFound
    <2>2. shown' \in [Views -> [Files -> Nat]]
      BY <1>3 DEF AddFound
    <2> QED
      BY <1>3, <2>1, <2>2 DEF AddFound
  <1> QED
    BY <1>1, <1>2, <1>3

\* A new entry of the dictionary has its type.
LEMMA TypeReplace ==
  ASSUME TypeOK, NEW f \in Files, NEW e \in Entry, Replace(f, e)
  PROVE dict' \in [Files -> Entry] /\ loader' \in [Downloaders -> Loader]
  <1>1. dict' \in [Files -> Entry]
    BY DEF Replace, TypeOK
  <1>2. \A t \in Downloaders : [loader[t] EXCEPT !.mine = FALSE] \in Loader
    BY DEF TypeOK, Loader
  <1> QED
    BY <1>1, <1>2 DEF Replace, TypeOK

\* Moves between the lists keep the types.
LEMMA TypeLists ==
  ASSUME TypeOK, NEW f \in Files, Select(f) \/ Remove(f) \/ Inspect(f) \/ \E v \in Views : Delete(v, f)
  PROVE TypeOK'
  <1>1. CASE Select(f)
    <2>1. [kind |-> "download", done |-> FALSE, path |-> dict[f].path] \in Entry
      BY DEF TypeOK, Entry, Kinds
    <2>2. dict' \in [Files -> Entry] /\ loader' \in [Downloaders -> Loader]
      BY <1>1, <2>1, TypeReplace DEF Select, TypeOK
    <2>3. shown' \in [Views -> [Files -> Nat]]
      BY <1>1 DEF Select, Hide, TypeOK, Views
    <2> QED
      BY <1>1, <2>2, <2>3 DEF Select, TypeOK
  <1>2. CASE Remove(f)
    <2>1. CASE Crash("window")
      BY <2>1 DEF Crash, TypeOK
    <2>2. CASE ~ Crash("window")
      <3>1. NoEntry \in Entry
        BY DEF NoEntry, Entry, Kinds
      <3>2. dict' \in [Files -> Entry] /\ loader' \in [Downloaders -> Loader]
        BY <1>2, <2>2, <3>1, TypeReplace DEF Remove
      <3>3. shown' \in [Views -> [Files -> Nat]]
        BY <1>2, <2>2 DEF Remove, Hide, TypeOK, Views
      <3> QED
        BY <1>2, <2>2, <3>2, <3>3 DEF Remove, TypeOK
    <2> QED
      BY <2>1, <2>2
  <1>3. CASE Inspect(f)
    BY <1>3 DEF Inspect, Crash, TypeOK
  <1>4. ASSUME NEW v \in Views, Delete(v, f) PROVE TypeOK'
    <2>1. NoEntry \in Entry
      BY DEF NoEntry, Entry, Kinds
    <2>2. dict' \in [Files -> Entry] /\ loader' \in [Downloaders -> Loader]
      BY <1>4, <2>1, TypeReplace DEF Delete
    <2>3. shown' \in [Views -> [Files -> Nat]]
      BY <1>4 DEF Delete, Hide, TypeOK, Views
    <2> QED
      BY <1>4, <2>2, <2>3 DEF Delete, TypeOK
  <1> QED
    BY <1>1, <1>2, <1>3, <1>4

\* A publishing thread starts with its types.
LEMMA TypeStart ==
  ASSUME TypeOK, NEW f \in Files, StartPublisher(f)
  PROVE tried' \subseteq Files /\ publisher' \in [Publishers -> Publisher]
  BY DEF StartPublisher, TypeOK, Publisher

\* The buttons of the window keep the types.
LEMMA TypeWindow ==
  ASSUME TypeOK, NEW f \in Files,
         Download(f) \/ Describe(f) \/ Described(f) \/ AddPublished(f) \/ PublishKnown(f)
           \/ RePublish(f) \/ Retry(f) \/ PublishViaDht(f)
  PROVE TypeOK'
  <1>1. CASE Download(f)
    BY <1>1 DEF Download, TypeOK, Loader
  <1>2. CASE Describe(f)
    BY <1>2 DEF Describe, TypeOK, Gui
  <1>3. CASE Described(f)
    BY <1>3, TypeStart DEF Described, TypeOK, Gui
  <1>4. CASE AddPublished(f)
    BY <1>4 DEF AddPublished, TypeOK, Gui, GuiIdle, Show, Views, Entry, Kinds
  <1>5. CASE PublishKnown(f)
    BY <1>5, TypeStart DEF PublishKnown, TypeOK, Show, Views
  <1>6. CASE RePublish(f)
    <2>1. CASE Crash("window")
      BY <2>1 DEF Crash, TypeOK
    <2>2. CASE ~ Crash("window")
      BY <1>6, <2>2, TypeStart DEF RePublish, TypeOK, Views
    <2> QED
      BY <2>1, <2>2
  <1>7. CASE Retry(f)
    <2>1. CASE Crash("window")
      BY <2>1 DEF Crash, TypeOK
    <2>2. CASE ~ Crash("window")
      BY <1>7, <2>2, TypeStart DEF Retry, TypeOK
    <2> QED
      BY <2>1, <2>2
  <1>8. CASE PublishViaDht(f)
    BY <1>8 DEF PublishViaDht, TypeOK, Show, Views, Entry, Kinds
  <1> QED
    BY <1>1, <1>2, <1>3, <1>4, <1>5, <1>6, <1>7, <1>8

Places == {"idle", "begin", "enter", "connect", "receive", "tell", "check", "log", "leave", "path"}

\* A step of a thread changes its own record, to one of the right type.
LEMMA TypeGoto ==
  ASSUME TypeOK, NEW t \in Downloaders,
         \/ \E to \in Places : Goto(t, to)
         \/ \E to \in Places, m \in BOOLEAN : loader' = [loader EXCEPT ![t].at = to, ![t].mine = m]
         \/ \E to \in Places, n \in 0 .. MaxBytes : loader' = [loader EXCEPT ![t].at = to, ![t].got = n]
         \/ \E n \in 0 .. MaxBytes : loader' = [loader EXCEPT ![t].got = n]
         \/ Ended(t)
  PROVE loader' \in [Downloaders -> Loader]
  <1>1. loader[t] \in Loader
    BY DEF TypeOK
  <1>2. \A to \in Places : [loader[t] EXCEPT !.at = to] \in Loader
    BY <1>1 DEF Loader, Places
  <1>3. \A to \in Places, m \in BOOLEAN : [loader[t] EXCEPT !.at = to, !.mine = m] \in Loader
    BY <1>1 DEF Loader, Places
  <1>4. \A to \in Places, n \in 0 .. MaxBytes : [loader[t] EXCEPT !.at = to, !.got = n] \in Loader
    BY <1>1 DEF Loader, Places
  <1>5. \A n \in 0 .. MaxBytes : [loader[t] EXCEPT !.got = n] \in Loader
    BY <1>1 DEF Loader
  <1>6. Idle(loader[t].file) \in Loader
    BY <1>1 DEF Idle, Loader
  <1>7. CASE \E to \in Places : Goto(t, to)
    BY <1>2, <1>7 DEF Goto, TypeOK
  <1>8. CASE \E to \in Places, m \in BOOLEAN : loader' = [loader EXCEPT ![t].at = to, ![t].mine = m]
    <2>1. PICK to \in Places, m \in BOOLEAN : loader' = [loader EXCEPT ![t].at = to, ![t].mine = m]
      BY <1>8
    <2>2. loader' = [loader EXCEPT ![t] = [loader[t] EXCEPT !.at = to, !.mine = m]]
      BY <2>1, ZenonT(30)
    <2> QED
      BY <1>3, <2>2 DEF TypeOK
  <1>9. CASE \E to \in Places, n \in 0 .. MaxBytes : loader' = [loader EXCEPT ![t].at = to, ![t].got = n]
    <2>1. PICK to \in Places, n \in 0 .. MaxBytes : loader' = [loader EXCEPT ![t].at = to, ![t].got = n]
      BY <1>9
    <2>2. loader' = [loader EXCEPT ![t] = [loader[t] EXCEPT !.at = to, !.got = n]]
      BY <2>1, ZenonT(30)
    <2> QED
      BY <1>4, <2>2 DEF TypeOK
  <1>10. CASE \E n \in 0 .. MaxBytes : loader' = [loader EXCEPT ![t].got = n]
    BY <1>5, <1>10 DEF TypeOK
  <1>11. CASE Ended(t)
    BY <1>6, <1>11 DEF Ended, TypeOK
  <1> QED
    BY <1>7, <1>8, <1>9, <1>10, <1>11

\* An exception nobody catches keeps the types.
LEMMA TypeCrash ==
  ASSUME TypeOK, Crash("lookup") \/ Crash("window") \/ Crash("download") \/ Crash("publish") \/ Crash("upload") \/ Crash("quit")
  PROVE TypeOK'
  BY DEF Crash, TypeOK

\* A download thread keeps the types.
LEMMA TypeLoader ==
  ASSUME TypeOK, NEW t \in Downloaders, LoaderStep(t)
  PROVE TypeOK'
  <1>0. loader[t] \in Loader /\ loader[t].file \in Files /\ loader[t].got \in 0 .. MaxBytes
    BY DEF TypeOK, Loader
  <1>1. CASE Crash("download")
    BY <1>1, TypeCrash
  <1>2. CASE ~ Crash("download")
    <2>1. loader' \in [Downloaders -> Loader]
      <3>1. CASE Begin(t)
        BY <1>2, <3>1, TypeGoto DEF Begin, Places
      <3>2. CASE Enter(t)
        BY <3>2, TypeGoto DEF Enter, Places
      <3>3. CASE Connect(t)
        <4>1. Goto(t, "idle") \/ Ended(t) \/ loader' = [loader EXCEPT ![t].at = "receive", ![t].got = 0]
          BY <1>2, <3>3 DEF Connect
        <4>2. 0 \in 0 .. MaxBytes
          OBVIOUS
        <4> QED
          BY <4>1, <4>2, TypeGoto DEF Places
      <3>4. CASE Receive(t)
        <4>1. \/ loader[t].got < MaxBytes /\ loader' = [loader EXCEPT ![t].got = loader[t].got + 1]
              \/ Goto(t, "tell")
          BY <1>0, <1>2, <3>4 DEF Receive, TypeOK, Loader
        <4>2. loader[t].got < MaxBytes => loader[t].got + 1 \in 0 .. MaxBytes
          BY <1>0
        <4> QED
          BY <4>1, <4>2, TypeGoto DEF Places
      <3>5. CASE Tell(t)
        BY <1>2, <3>5, TypeGoto DEF Tell, Places
      <3>6. CASE Check(t)
        <4>1. Ended(t) \/ loader' = [loader EXCEPT ![t].at = "log", ![t].got = 0]
          BY <3>6 DEF Check
        <4>2. 0 \in 0 .. MaxBytes
          OBVIOUS
        <4> QED
          BY <4>1, <4>2, TypeGoto DEF Places
      <3>7. CASE Log(t)
        BY <3>7, TypeGoto DEF Log, Places
      <3>8. CASE LeaveList(t)
        BY <3>8, TypeGoto DEF LeaveList, Places
      <3>9. CASE SetPath(t)
        BY <3>9, TypeGoto DEF SetPath
      <3> QED
        BY <3>1, <3>2, <3>3, <3>4, <3>5, <3>6, <3>7, <3>8, <3>9 DEF LoaderStep
    <2>2. dict' \in [Files -> Entry]
      <3> DEFINE f == loader[t].file
      <3>1. \/ dict' = dict
            \/ dict' = [dict EXCEPT ![f].done = TRUE]
            \/ dict' = [dict EXCEPT ![f].path = "fetched"]
        BY <1>2 DEF LoaderStep, Begin, Enter, Connect, Receive, Tell, Check, Log, LeaveList, SetPath
      <3>2. dict[f] \in Entry
        BY <1>0 DEF TypeOK
      <3>3. [dict[f] EXCEPT !.done = TRUE] \in Entry /\ [dict[f] EXCEPT !.path = "fetched"] \in Entry
        BY <3>2 DEF Entry
      <3> QED
        BY <1>0, <3>1, <3>3 DEF TypeOK
    <2>3. list' \in [Files -> Nat]
      BY <1>0, <1>2 DEF LoaderStep, Begin, Enter, Connect, Receive, Tell, Check, Log, LeaveList, SetPath, TypeOK, Leave
    <2>4. disk' \in [Files -> 0 .. MaxBytes]
      <3>1. CASE Receive(t)
        BY <1>0, <1>2, <3>1 DEF Receive, TypeOK
      <3>2. CASE ~ Receive(t)
        BY <1>2, <3>2 DEF LoaderStep, Begin, Enter, Connect, Tell, Check, Log, LeaveList, SetPath, TypeOK
      <3> QED
        BY <3>1, <3>2
    <2>5. UNCHANGED <<shown, publisher, gui, announced, down, tried>>
      BY <1>2 DEF LoaderStep, Begin, Enter, Connect, Receive, Tell, Check, Log, LeaveList, SetPath
    <2> QED
      BY <2>1, <2>2, <2>3, <2>4, <2>5 DEF TypeOK
  <1> QED
    BY <1>1, <1>2

\* A publishing thread that goes on to its update keeps its type.
LEMMA TypeCaught ==
  ASSUME TypeOK, NEW p \in Publishers,
         \/ publisher' = [publisher EXCEPT ![p].at = "update"]
         \/ publisher' = [publisher EXCEPT ![p].at = "update", ![p].trying = FALSE]
  PROVE publisher' \in [Publishers -> Publisher]
  <1>1. publisher[p] \in Publisher
    BY DEF TypeOK
  <1>2. [publisher[p] EXCEPT !.at = "update"] \in Publisher
    BY <1>1 DEF Publisher
  <1>3. [publisher[p] EXCEPT !.at = "update", !.trying = FALSE] \in Publisher
    BY <1>1 DEF Publisher
  <1>4. \/ publisher' = [publisher EXCEPT ![p] = [publisher[p] EXCEPT !.at = "update"]]
        \/ publisher' = [publisher EXCEPT ![p] = [publisher[p] EXCEPT !.at = "update", !.trying = FALSE]]
    BY ZenonT(30)
  <1> QED
    BY <1>2, <1>3, <1>4 DEF TypeOK

\* A publishing thread keeps the types.
LEMMA TypePublisher ==
  ASSUME TypeOK, NEW p \in Publishers, PublisherStep(p)
  PROVE TypeOK'
  <1>0. publisher[p] \in Publisher /\ publisher[p].file \in Files
    BY DEF TypeOK, Publisher
  <1>1. CASE Crash("publish")
    BY <1>1, TypeCrash
  <1>2. CASE ~ Crash("publish") /\ Throw(p)
    BY <1>2, TypeCaught DEF Throw, TypeOK
  <1>3. CASE Send(p)
    <2>1. \/ publisher' = [publisher EXCEPT ![p].at = "update"]
          \/ publisher' = [publisher EXCEPT ![p].at = "update", ![p].trying = FALSE]
      BY <1>3 DEF Send
    <2>2. publisher' \in [Publishers -> Publisher]
      BY <2>1, TypeCaught
    <2> QED
      BY <1>0, <1>3, <2>2 DEF Send, TypeOK
  <1>4. CASE Update(p) /\ ~ Throw(p)
    <2> DEFINE f == publisher[p].file
    <2>1. CASE dict[f].kind = "download"
      <3>1. NoEntry \in Entry
        BY DEF NoEntry, Entry, Kinds
      <3>2. Replace(f, NoEntry)
        BY <1>4, <2>1 DEF Update
      <3>3. dict' \in [Files -> Entry] /\ loader' \in [Downloaders -> Loader]
        BY <1>0, <3>1, <3>2, TypeReplace
      <3>4. publisher' \in [Publishers -> Publisher]
        <4>1. publisher' = [publisher EXCEPT ![p].at = "add",
                                             ![p].path = dict[f].path]
          BY <1>4, <2>1 DEF Update
        <4>2. dict[f] \in Entry
          BY <1>0 DEF TypeOK
        <4>3. dict[f].path \in {"none", "chosen", "fetched"}
          BY <4>2 DEF Entry
        <4>4. publisher \in [Publishers -> Publisher]
          BY DEF TypeOK
        <4>5. [publisher[p] EXCEPT !.at = "add", !.path = dict[f].path]
                 \in Publisher
          BY <1>0, <4>3 DEF Publisher
        <4> QED
          BY <4>1, <4>4, <4>5
      <3> QED
        BY <1>4, <2>1, <3>3, <3>4 DEF Update, TypeOK
    <2>2. CASE dict[f].kind \in {"none", "publish"}
      <3>1. [dict[f] EXCEPT !.done = publisher[p].trying] \in Entry
        <4>1. publisher[p].trying \in BOOLEAN
          BY <1>0 DEF Publisher
        <4>2. dict[f] \in Entry
          BY <1>0 DEF TypeOK
        <4>3. \A b \in BOOLEAN : [dict[f] EXCEPT !.done = b] \in Entry
          BY <4>2 DEF Entry
        <4> QED
          BY <4>1, <4>3
      <3>2. dict' = dict \/ dict' = [dict EXCEPT ![f].done = publisher[p].trying]
        BY <1>4, <2>2 DEF Update
      <3>3. dict' \in [Files -> Entry]
        BY <1>0, <3>1, <3>2 DEF TypeOK
      <3>4. IdleP(f) \in Publisher
        BY <1>0 DEF IdleP, Publisher
      <3>5. publisher' = [publisher EXCEPT ![p] = IdleP(f)] /\ UNCHANGED <<shown, list, loader, gui, disk, announced, down, tried>>
        BY <1>4, <2>2 DEF Update
      <3> QED
        BY <3>3, <3>4, <3>5 DEF TypeOK
    <2> QED
      BY <1>4, <2>1, <2>2 DEF Update
  <1>5. CASE AddStatus(p) /\ ~ Throw(p)
    <2> DEFINE f == publisher[p].file
               e == [kind |-> "publish", done |-> publisher[p].trying, path |-> publisher[p].path]
    <2>1. e \in Entry /\ IdleP(f) \in Publisher
      BY <1>0 DEF Entry, Kinds, Publisher, IdleP
    <2>2. dict' = [dict EXCEPT ![f] = e] /\ publisher' = [publisher EXCEPT ![p] = IdleP(f)]
          /\ UNCHANGED <<shown, list, loader, gui, disk, announced, down, tried>>
      BY <1>5 DEF AddStatus
    <2> HIDE DEF e
    <2> QED
      BY <2>1, <2>2 DEF TypeOK
  <1> QED
    BY <1>1, <1>2, <1>3, <1>4, <1>5 DEF PublisherStep

\* A restart establishes the types.
LEMMA TypeRestart == TypeOK /\ Restart => TypeOK'
  BY DEF Restart, TypeOK, NoEntry, Entry, Kinds, Idle, IdleP, Loader, Publisher, Gui, GuiIdle, Views

\* Every step keeps the types.
LEMMA TypeNext == TypeOK /\ [Next]_vars => TypeOK'
  <1> SUFFICES ASSUME TypeOK, [Next]_vars PROVE TypeOK'
    OBVIOUS
  <1>1. CASE Find \/ Lookup \/ AddFound
    BY <1>1, TypeLookup
  <1>2. CASE Quit
    BY <1>2, TypeCrash DEF Quit
  <1>3. CASE Restart
    BY <1>3, TypeRestart
  <1>4. ASSUME NEW f \in Files, WindowStep(f) PROVE TypeOK'
    BY <1>4, TypeLists, TypeWindow DEF WindowStep
  <1>5. ASSUME NEW f \in Files, Upload(f) PROVE TypeOK'
    BY <1>5, TypeCrash DEF Upload
  <1>6. ASSUME NEW t \in Downloaders, LoaderStep(t) PROVE TypeOK'
    BY <1>6, TypeLoader
  <1>7. ASSUME NEW p \in Publishers, PublisherStep(p) PROVE TypeOK'
    BY <1>7, TypePublisher
  <1>8. CASE UNCHANGED vars
    BY <1>8 DEF vars, TypeOK
  <1> QED
    BY <1>1, <1>2, <1>3, <1>4, <1>5, <1>6, <1>7, <1>8 DEF Next

\* Every variable keeps its type (all of the classes of Managers and
\* ThreadParam).
THEOREM EngineTyped == Spec => []TypeOK
  <1> QED
    BY TypeInit, TypeNext, PTL DEF Spec
-----------------------------------------------------------------------------
(* The bytes of what is offered.  A thread that has not checked the number *)
(* of bytes has written as many as it counted; one that has, found Size.   *)
Whole(f) == disk[f] >= Size

OfferedWhole == \A f \in Files : (dict[f].kind = "download" /\ dict[f].done) \/ dict[f].path = "fetched" => Whole(f)
CountedWritten == \A t \in Downloaders : loader[t].at \in {"receive", "tell", "check"} => disk[loader[t].file] >= loader[t].got
CheckedWhole == \A t \in Downloaders : loader[t].at \in {"log", "leave", "path"} => Whole(loader[t].file)
TakenWhole == \A p \in Publishers : publisher[p].path = "fetched" => Whole(publisher[p].file)

FetchedInv == OfferedWhole /\ CountedWritten /\ CheckedWhole /\ TakenWhole

\* Nothing is offered at first.
LEMMA FetchedInit == Init => FetchedInv
  BY DEF Init, Fresh, FetchedInv, OfferedWhole, CountedWritten, CheckedWhole, TakenWhole, NoEntry, Idle, IdleP

\* The window changes no file, and makes no entry that offers more.
LEMMA FetchedWindow ==
  ASSUME TypeOK, FetchedInv, NEW f \in Files, WindowStep(f)
  PROVE FetchedInv'
  <1> USE DEF FetchedInv
  <1>1. UNCHANGED disk
    BY DEF WindowStep, Select, Remove, Inspect, Download, Delete, Describe, Described, AddPublished, PublishKnown,
           RePublish, Retry, PublishViaDht, Crash
  <1>2. \A g \in Files : \/ dict'[g] = dict[g]
                         \/ dict'[g].path = dict[g].path /\ ~ dict'[g].done
                         \/ dict'[g].path \in {"none", "chosen"} /\ ~ dict'[g].done
    <2>1. CASE \E v \in Views : Delete(v, f)
      BY <2>1 DEF Delete, Replace, NoEntry, TypeOK
    <2>2. CASE Select(f)
      BY <2>2 DEF Select, Replace, TypeOK
    <2>3. CASE Remove(f)
      BY <2>3 DEF Remove, Replace, NoEntry, TypeOK, Crash
    <2>4. CASE AddPublished(f) \/ PublishViaDht(f)
      BY <2>4 DEF AddPublished, PublishViaDht, TypeOK
    <2>5. CASE Inspect(f) \/ Download(f) \/ Describe(f) \/ Described(f) \/ PublishKnown(f) \/ RePublish(f) \/ Retry(f)
      BY <2>5 DEF Inspect, Download, Describe, Described, PublishKnown, RePublish, Retry, Crash
    <2> QED
      BY <2>1, <2>2, <2>3, <2>4, <2>5 DEF WindowStep
  <1>3. \A t \in Downloaders : \/ loader'[t].at = "begin"
                               \/ loader'[t].at = loader[t].at /\ loader'[t].file = loader[t].file /\ loader'[t].got = loader[t].got
    <2>1. CASE \E v \in Views : Delete(v, f)
      BY <2>1 DEF Delete, Replace, TypeOK, Loader
    <2>2. CASE Select(f)
      BY <2>2 DEF Select, Replace, TypeOK, Loader
    <2>3. CASE Remove(f)
      BY <2>3 DEF Remove, Replace, TypeOK, Loader, Crash
    <2>4. CASE Download(f)
      BY <2>4 DEF Download, TypeOK, Loader
    <2>5. CASE Inspect(f) \/ Describe(f) \/ Described(f) \/ AddPublished(f) \/ PublishKnown(f) \/ RePublish(f) \/ Retry(f) \/ PublishViaDht(f)
      BY <2>5 DEF Inspect, Describe, Described, AddPublished, PublishKnown, RePublish, Retry, PublishViaDht, Crash
    <2> QED
      BY <2>1, <2>2, <2>3, <2>4, <2>5 DEF WindowStep
  <1>4. \A p \in Publishers : publisher'[p] = publisher[p] \/ publisher'[p].path = "none"
    <2>1. CASE Described(f) \/ PublishKnown(f) \/ RePublish(f) \/ Retry(f)
      BY <2>1 DEF Described, PublishKnown, RePublish, Retry, StartPublisher, TypeOK, Crash
    <2>2. CASE Inspect(f) \/ Describe(f) \/ AddPublished(f) \/ Download(f) \/ PublishViaDht(f) \/ Select(f) \/ Remove(f)
               \/ \E v \in Views : Delete(v, f)
      BY <2>2 DEF Inspect, Describe, AddPublished, Download, PublishViaDht, Select, Remove, Delete, Crash
    <2> QED
      BY <2>1, <2>2 DEF WindowStep
  <1>5. OfferedWhole'
    BY <1>1, <1>2 DEF OfferedWhole, Whole
  <1>6. CountedWritten' /\ CheckedWhole'
    BY <1>1, <1>3 DEF CountedWritten, CheckedWhole, Whole
  <1>7. TakenWhole'
    BY <1>1, <1>4 DEF TakenWhole, Whole
  <1> QED
    BY <1>5, <1>6, <1>7

\* A lookup offers no file that is not whole.
LEMMA FetchedLookup ==
  ASSUME TypeOK, FetchedInv, Find \/ Lookup \/ AddFound \/ Quit \/ \E f \in Files : Upload(f)
  PROVE FetchedInv'
  <1>1. UNCHANGED <<disk, loader, publisher>>
    BY DEF Find, Lookup, AddFound, Quit, Upload, Crash
  <1>2. \A g \in Files : dict'[g] = dict[g] \/ (dict'[g].path = "none" /\ ~ dict'[g].done)
    BY DEF Find, Lookup, AddFound, Quit, Upload, Crash, Found, TypeOK
  <1> QED
    BY <1>1, <1>2 DEF FetchedInv, OfferedWhole, CountedWritten, CheckedWhole, TakenWhole, Whole

\* A download thread offers a file only when all of it was written.
LEMMA FetchedLoader ==
  ASSUME TypeOK, FetchedInv, NEW t \in Downloaders, LoaderStep(t)
  PROVE FetchedInv'
  <1> DEFINE f == loader[t].file
  <1> USE DEF FetchedInv
  <1>0. loader[t] \in Loader /\ f \in Files /\ loader[t].got \in 0 .. MaxBytes
    BY DEF TypeOK, Loader
  <1>1. \A g \in Files : disk'[g] >= disk[g] /\ disk[g] \in 0 .. MaxBytes /\ disk'[g] \in 0 .. MaxBytes
    <2>0. disk' \in [Files -> 0 .. MaxBytes]
      BY TypeLoader DEF TypeOK
    <2>1. CASE Receive(t)
      BY <1>0, <2>0, <2>1 DEF Receive, TypeOK, Crash
    <2>2. CASE ~ Receive(t)
      BY <2>0, <2>2 DEF LoaderStep, Begin, Enter, Connect, Tell, Check, Log, LeaveList, SetPath, TypeOK, Crash
    <2> QED
      BY <2>1, <2>2
  <1>2. UNCHANGED publisher
    BY DEF LoaderStep, Begin, Enter, Connect, Receive, Tell, Check, Log, LeaveList, SetPath, Crash
  <1>3. TakenWhole'
    <2>1. \A p \in Publishers : publisher[p].file \in Files
      BY DEF TypeOK, Publisher
    <2> QED
      BY <1>1, <1>2, <2>1, SizeAssumption DEF TakenWhole, Whole
  <1>4. OfferedWhole'
    <2>1. CASE Check(t) /\ loader[t].got = Size
      <3>1. Whole(f)
        BY <2>1 DEF Check, Loading, CountedWritten, Whole
      <3>2. \A g \in Files : g # f => dict'[g] = dict[g]
        BY <2>1 DEF Check, TypeOK
      <3>3. ASSUME NEW g \in Files, Whole(g) PROVE Whole(g)'
        BY <1>1, <3>3, SizeAssumption DEF Whole
      <3>4. ASSUME NEW g \in Files, g # f,
                   \/ (dict[g].kind = "download" /\ dict[g].done)'
                   \/ (dict[g].path = "fetched")'
            PROVE  Whole(g)
        BY <3>2, <3>4 DEF OfferedWhole
      <3> QED
        BY <3>1, <3>3, <3>4 DEF OfferedWhole
    <2>2. CASE SetPath(t)
      <3>1. Whole(f)
        BY <2>2 DEF SetPath, Loading, CheckedWhole
      <3>2. \A g \in Files : g # f => dict'[g] = dict[g]
        BY <2>2 DEF SetPath, TypeOK
      <3> QED
        BY <1>0, <1>1, <3>1, <3>2, SizeAssumption DEF OfferedWhole, Whole
    <2>3. CASE UNCHANGED dict
      BY <1>1, <2>3, SizeAssumption DEF OfferedWhole, Whole
    <2> QED
      BY <2>1, <2>2, <2>3 DEF LoaderStep, Begin, Enter, Connect, Receive, Tell, Check, Log, LeaveList, Crash
  <1>5. ASSUME NEW u \in Downloaders, u # t
        PROVE loader'[u] = loader[u]
    BY <1>5 DEF LoaderStep, Begin, Enter, Connect, Receive, Tell, Check, Log, LeaveList, SetPath, Crash, Goto, Ended, TypeOK
  <1>6. \/ loader'[t] = loader[t]
        \/ loader'[t].at \in {"idle", "enter", "connect"}
        \/ loader'[t].file = f /\ loader'[t].at \in {"receive", "tell", "check"} /\ disk'[f] >= loader'[t].got
        \/ loader'[t].file = f /\ loader'[t].at \in {"log", "leave", "path"} /\ Whole(f)'
    <2>1. CASE Begin(t) \/ Enter(t)
      BY <1>0, <2>1 DEF Begin, Enter, Goto, Ended, Idle, Crash, TypeOK, Loader
    <2>2. CASE Connect(t)
      BY <1>0, <1>1, <2>2 DEF Connect, Goto, Ended, Idle, Crash, TypeOK, Loader
    <2>3. CASE Receive(t)
      <3>1. CASE Crash("download")
        BY <3>1 DEF Crash
      <3>2. CASE loader' = [loader EXCEPT ![t].got = @ + 1] /\ disk' = [disk EXCEPT ![f] = IF @ > loader[t].got THEN @ ELSE loader[t].got + 1]
        BY <1>0, <2>3, <3>2 DEF Receive, TypeOK, Loader, Loading
      <3>3. CASE Goto(t, "tell") /\ UNCHANGED disk
        BY <1>0, <2>3, <3>3 DEF Receive, TypeOK, Loader, Loading, Goto, CountedWritten
      <3> QED
        BY <2>3, <3>1, <3>2, <3>3 DEF Receive
    <2>4. CASE Tell(t)
      BY <1>0, <2>4 DEF Tell, Goto, Crash, TypeOK, Loader, Loading, CountedWritten
    <2>5. CASE Check(t)
      <3>1. CASE loader[t].got = Size
        BY <1>0, <2>5, <3>1 DEF Check, TypeOK, Loader, Loading, CountedWritten, Whole
      <3>2. CASE loader[t].got # Size
        BY <1>0, <2>5, <3>2 DEF Check, TypeOK, Loader, Ended, Idle
      <3> QED
        BY <3>1, <3>2
    <2>6. CASE Log(t) \/ LeaveList(t)
      BY <1>0, <2>6 DEF Log, LeaveList, Goto, TypeOK, Loader, Loading, CheckedWhole, Whole
    <2>7. CASE SetPath(t)
      BY <1>0, <2>7 DEF SetPath, Ended, Idle, TypeOK, Loader
    <2> QED
      BY <2>1, <2>2, <2>3, <2>4, <2>5, <2>6, <2>7 DEF LoaderStep
  <1>7. \A u \in Downloaders : loader[u] \in Loader /\ loader[u].file \in Files /\ loader[u].got \in 0 .. MaxBytes
    BY DEF TypeOK, Loader
  <1>8. CountedWritten'
    <2> SUFFICES ASSUME NEW u \in Downloaders, loader'[u].at \in {"receive", "tell", "check"}
                 PROVE disk'[loader'[u].file] >= loader'[u].got
      BY DEF CountedWritten
    <2>1. CASE loader'[u] = loader[u]
      BY <1>1, <1>7, <2>1 DEF CountedWritten
    <2> QED
      BY <1>5, <1>6, <2>1
  <1>9. CheckedWhole'
    <2> SUFFICES ASSUME NEW u \in Downloaders, loader'[u].at \in {"log", "leave", "path"}
                 PROVE disk'[loader'[u].file] >= Size
      BY DEF CheckedWhole, Whole
    <2>1. CASE loader'[u] = loader[u]
      BY <1>1, <1>7, <2>1, SizeAssumption DEF CheckedWhole, Whole
    <2> QED
      BY <1>5, <1>6, <2>1 DEF Whole
  <1> QED
    BY <1>3, <1>4, <1>8, <1>9

\* A publishing thread writes no file.
LEMMA FetchedPublisher ==
  ASSUME TypeOK, FetchedInv, NEW p \in Publishers, PublisherStep(p)
  PROVE FetchedInv'
  <1> DEFINE f == publisher[p].file
  <1> USE DEF FetchedInv
  <1>0. publisher[p] \in Publisher /\ f \in Files
    BY DEF TypeOK, Publisher
  <1>1. UNCHANGED disk
    BY DEF PublisherStep, Send, Update, AddStatus, Throw, Crash
  <1>2. \A t \in Downloaders : loader'[t].at = loader[t].at /\ loader'[t].file = loader[t].file /\ loader'[t].got = loader[t].got
    <2>1. UNCHANGED loader \/ Replace(f, NoEntry)
      BY DEF PublisherStep, Send, Update, AddStatus, Throw, Crash
    <2> QED
      BY <2>1 DEF Replace, TypeOK, Loader
  <1>3. \A q \in Publishers : q # p => publisher'[q] = publisher[q]
    BY DEF PublisherStep, Send, Update, AddStatus, Throw, Crash, TypeOK
  <1>4. publisher'[p].path \in {"none", publisher[p].path, dict[f].path} /\ publisher'[p].file = f
    <2>1. CASE Throw(p) \/ Send(p)
      BY <1>0, <2>1 DEF Throw, Send, Crash, TypeOK, Publisher
    <2>2. CASE Update(p) /\ ~ Throw(p)
      BY <1>0, <2>2 DEF Update, TypeOK, Publisher, IdleP
    <2>3. CASE AddStatus(p) /\ ~ Throw(p)
      BY <1>0, <2>3 DEF AddStatus, TypeOK, Publisher, IdleP
    <2> QED
      BY <2>1, <2>2, <2>3 DEF PublisherStep
  <1>5. \A g \in Files : g # f => dict'[g] = dict[g]
    BY DEF PublisherStep, Send, Update, AddStatus, Throw, Crash, Replace, TypeOK
  <1>6. \/ dict'[f] = dict[f]
        \/ dict'[f].kind # "download" /\ dict'[f].path \in {"none", publisher[p].path, dict[f].path}
    <2>1. CASE UNCHANGED dict
      BY <2>1
    <2>2. CASE Replace(f, NoEntry)
      BY <1>0, <2>2 DEF Replace, NoEntry, TypeOK
    <2>3. CASE dict[f].kind # "download" /\ dict' = [dict EXCEPT ![f].done = publisher[p].trying]
      BY <1>0, <2>3 DEF TypeOK, Entry
    <2>4. CASE dict' = [dict EXCEPT ![f] = [kind |-> "publish", done |-> publisher[p].trying, path |-> publisher[p].path]]
      BY <1>0, <2>4 DEF TypeOK
    <2> QED
      BY <2>1, <2>2, <2>3, <2>4 DEF PublisherStep, Send, Update, AddStatus, Throw, Crash
  <1>7. OfferedWhole'
    BY <1>0, <1>1, <1>5, <1>6 DEF OfferedWhole, TakenWhole, Whole
  <1>8. TakenWhole'
    BY <1>0, <1>1, <1>3, <1>4 DEF OfferedWhole, TakenWhole, Whole
  <1>9. CountedWritten' /\ CheckedWhole'
    BY <1>1, <1>2 DEF CountedWritten, CheckedWhole, Whole
  <1> QED
    BY <1>7, <1>8, <1>9

\* Every step keeps the offered files whole.
LEMMA FetchedNext == TypeOK /\ FetchedInv /\ [Next]_vars => FetchedInv'
  <1> SUFFICES ASSUME TypeOK, FetchedInv, [Next]_vars PROVE FetchedInv'
    OBVIOUS
  <1>1. CASE Restart
    BY <1>1 DEF Restart, FetchedInv, OfferedWhole, CountedWritten, CheckedWhole, TakenWhole, NoEntry, Idle, IdleP
  <1>2. CASE UNCHANGED vars
    BY <1>2 DEF vars, FetchedInv, OfferedWhole, CountedWritten, CheckedWhole, TakenWhole, Whole
  <1> QED
    BY <1>1, <1>2, FetchedWindow, FetchedLookup, FetchedLoader, FetchedPublisher DEF Next

\* Whatever is offered as downloaded, or published from the folder of
\* downloads, has all its bytes there (FileDownloadingThreadParam.cs 84-142).
THEOREM EngineFetchedComplete == Spec => []FetchedComplete
  <1>1. FetchedInv => FetchedComplete
    BY DEF FetchedInv, OfferedWhole, FetchedComplete, Whole
  <1> QED
    BY <1>1, TypeInit, TypeNext, FetchedInit, FetchedNext, PTL DEF Spec
-----------------------------------------------------------------------------
(* The lists of the window.  Only files of tried are in a publishing thread *)
(* or in a dialog, or have a FilePublishingStatus; what a lookup is about   *)
(* to add is not in the dictionary.                                         *)
PublishedTried ==
    /\ \A f \in Files : dict[f].kind = "publish" \/ shown["published"][f] > 0 => f \in tried
    /\ \A p \in Publishers : publisher[p].at # "idle" => publisher[p].file \in tried
    /\ gui.at \in {"describe", "enter"} => gui.files \subseteq tried

ResultsNew == gui.at = "add" => \A f \in gui.files \ tried : dict[f].kind = "none"

ListsInv == ListsAgree /\ PublishedTried /\ ResultsNew

\* The lists are empty at first, and so is the dictionary.
LEMMA ListsInit == Init => ListsInv
  BY DEF Init, Fresh, ListsInv, ListsAgree, PublishedTried, ResultsNew, NoEntry, IdleP, GuiIdle, Views

\* A step that leaves the lists, and the entries but for done and path.
LEMMA ListsSame ==
  ASSUME TypeOK, ListsInv, UNCHANGED shown, tried \subseteq tried',
         \A f \in Files : dict'[f].kind = dict[f].kind,
         UNCHANGED gui \/ gui'.at \in {"idle", "ask"},
         \A p \in Publishers : publisher'[p].at = "idle" \/ publisher'[p].file \in tried'
  PROVE ListsInv'
  <1>1. ListsAgree'
    BY DEF ListsInv, ListsAgree
  <1>2. PublishedTried'
    BY DEF ListsInv, PublishedTried
  <1>3. ResultsNew'
    BY DEF ListsInv, ResultsNew, TypeOK, Gui
  <1> QED
    BY <1>1, <1>2, <1>3 DEF ListsInv

\* A process that ends changes no list.
LEMMA ListsCrash ==
  ASSUME TypeOK, ListsInv, NEW part, Crash(part)
  PROVE ListsInv'
  BY DEF Crash, ListsInv, ListsAgree, PublishedTried, ResultsNew

\* Looking up, and entering what was found, keeps the lists in agreement.
LEMMA ListsLookup ==
  ASSUME TypeOK, ListsInv, Find \/ Lookup \/ AddFound
  PROVE ListsInv'
  <1>1. CASE Find
    <2>1. gui'.at = "ask"
      BY <1>1 DEF Find, TypeOK, Gui
    <2> QED
      BY <1>1, <2>1, ListsSame DEF Find, ListsInv, PublishedTried
  <1>2. CASE Lookup
    <2>1. CASE Crash("lookup")
      BY <2>1, ListsCrash
    <2>2. CASE ~ Crash("lookup")
      BY <1>2, <2>2 DEF Lookup, ListsInv, ListsAgree, PublishedTried, ResultsNew
    <2> QED
      BY <2>1, <2>2
  <1>3. CASE AddFound
    <2>0. gui.kind \in {"found", "here"} /\ gui.files \subseteq Files
      BY DEF TypeOK, Gui
    <2>1. \A f \in Files : dict'[f] = IF f \in gui.files /\ dict[f].kind = "none" THEN Found(gui.kind) ELSE dict[f]
      BY <1>3 DEF AddFound
    <2>2. \A f \in Files, v \in Views :
            shown'[v][f] = IF v = gui.kind /\ f \in gui.files THEN shown[v][f] + 1 ELSE shown[v][f]
      BY <1>3 DEF AddFound, TypeOK, Views
    <2>3. ListsAgree'
      <3> SUFFICES ASSUME NEW f \in Files \ tried, NEW v \in {"found", "here", "download"}
                   PROVE shown'[v][f] = IF dict'[f].kind = v THEN 1 ELSE 0
        BY <1>3 DEF ListsAgree, AddFound
      <3>1. f \in gui.files => dict[f].kind = "none"
        BY <1>3 DEF AddFound, ListsInv, ResultsNew
      <3>2. shown[v][f] = IF dict[f].kind = v THEN 1 ELSE 0
        BY DEF ListsInv, ListsAgree
      <3>3. shown'[v][f] = IF v = gui.kind /\ f \in gui.files THEN shown[v][f] + 1 ELSE shown[v][f]
        BY <2>2 DEF Views
      <3>4. Found(gui.kind).kind = gui.kind
        BY DEF Found
      <3>5. CASE f \in gui.files
        <4>1. dict'[f].kind = gui.kind
          BY <2>1, <3>1, <3>4, <3>5
        <4> QED
          BY <2>0, <3>1, <3>2, <3>3, <3>5, <4>1
      <3>6. CASE f \notin gui.files
        BY <2>1, <3>2, <3>3, <3>6
      <3> QED
        BY <3>5, <3>6
    <2>4. PublishedTried'
      BY <1>3, <2>0, <2>1 DEF ListsInv, PublishedTried, AddFound, GuiIdle, Found
    <2>5. ResultsNew'
      BY <1>3 DEF ResultsNew, AddFound, GuiIdle
    <2> QED
      BY <2>3, <2>4, <2>5 DEF ListsInv
  <1> QED
    BY <1>1, <1>2, <1>3

\* An entry is put in the place of another while the window handles a click.
LEMMA ListsReplace ==
  ASSUME TypeOK, ListsInv, NEW f \in Files, Clickable, NEW e, Replace(f, e),
         UNCHANGED <<publisher, gui, tried>>,
         e.kind # "publish",
         \A v \in Views, g \in Files : g # f => shown'[v][g] = shown[v][g],
         shown'["published"][f] > 0 => f \in tried,
         f \notin tried => \A v \in {"found", "here", "download"} : shown'[v][f] = IF e.kind = v THEN 1 ELSE 0
  PROVE ListsInv'
  <1>1. \A g \in Files : dict'[g] = IF g = f THEN e ELSE dict[g]
    BY DEF Replace, TypeOK
  <1>2. ListsAgree'
    BY <1>1 DEF ListsInv, ListsAgree, Views
  <1>3. PublishedTried'
    BY <1>1 DEF ListsInv, PublishedTried, Views
  <1>4. ResultsNew'
    BY DEF ResultsNew, Clickable
  <1> QED
    BY <1>2, <1>3, <1>4 DEF ListsInv

\* An entry and its item move together.
LEMMA ListsLists ==
  ASSUME TypeOK, ListsInv, NEW f \in Files, Select(f) \/ Remove(f) \/ \E v \in Views : Delete(v, f)
  PROVE ListsInv'
  <1>0. f \notin tried => \A v \in {"found", "here", "download"} : shown[v][f] = IF dict[f].kind = v THEN 1 ELSE 0
    BY DEF ListsInv, ListsAgree
  <1>1. CASE Select(f)
    <2>1. CASE dict[f].kind = "none"
      <3>1. f \in tried
        BY <1>0, <1>1, <2>1 DEF Select
      <3>2. \A v \in Views, g \in Files : g # f => shown'[v][g] = shown[v][g]
        BY <1>1, <2>1 DEF Select, Hide, TypeOK, Views
      <3> QED
        BY <1>1, <2>1, <3>1, <3>2 DEF Select, ListsInv, ListsAgree, PublishedTried, ResultsNew, Views
    <2>2. CASE dict[f].kind # "none"
      <3> DEFINE e == [kind |-> "download", done |-> FALSE, path |-> dict[f].path]
      <3>1. Replace(f, e) /\ Clickable /\ UNCHANGED <<publisher, gui, tried>>
        BY <1>1, <2>2 DEF Select
      <3>2. shown' = [shown EXCEPT !["found"][f] = @ - 1, !["download"][f] = @ + 1] /\ shown["found"][f] > 0
        BY <1>1, <2>2 DEF Select
      <3>3. \A v \in Views, g \in Files : g # f => shown'[v][g] = shown[v][g]
        BY <3>2 DEF TypeOK, Views
      <3>4. f \notin tried => dict[f].kind = "found"
        BY <1>0, <3>2
      <3>5. f \notin tried => \A v \in {"found", "here", "download"} : shown'[v][f] = IF "download" = v THEN 1 ELSE 0
        BY <1>0, <3>2, <3>4 DEF TypeOK, Views
      <3>6. shown'["published"][f] = shown["published"][f]
        BY <3>2 DEF TypeOK, Views
      <3>7. shown["published"][f] > 0 => f \in tried
        BY DEF ListsInv, PublishedTried
      <3> QED
        BY <3>1, <3>3, <3>5, <3>6, <3>7, ListsReplace DEF Views
    <2> QED
      BY <2>1, <2>2
  <1>2. CASE Remove(f)
    <2>1. CASE Crash("window")
      BY <2>1, ListsCrash
    <2>2. CASE ~ Crash("window")
      <3>1. dict[f].kind = "download" /\ Hide("download", f) /\ Replace(f, NoEntry) /\ Clickable /\ UNCHANGED <<publisher, gui, tried>>
        BY <1>2, <2>2 DEF Remove
      <3>2. \A v \in Views, g \in Files : g # f => shown'[v][g] = shown[v][g]
        BY <3>1 DEF Hide, TypeOK, Views
      <3>3. f \notin tried => \A v \in {"found", "here", "download"} : shown'[v][f] = 0
        BY <1>0, <3>1 DEF Hide, TypeOK, Views
      <3>4. shown'["published"][f] = shown["published"][f]
        BY <3>1 DEF Hide, TypeOK, Views
      <3>5. shown["published"][f] > 0 => f \in tried
        BY DEF ListsInv, PublishedTried
      <3> QED
        BY <3>1, <3>2, <3>3, <3>4, <3>5, ListsReplace DEF NoEntry, Views
    <2> QED
      BY <2>1, <2>2
  <1>3. ASSUME NEW w \in Views, Delete(w, f) PROVE ListsInv'
    <2>1. w # "download" /\ Hide(w, f) /\ Replace(f, NoEntry) /\ Clickable /\ UNCHANGED <<publisher, gui, tried>> /\ shown[w][f] > 0
      BY <1>3 DEF Delete
    <2>2. \A v \in Views, g \in Files : g # f => shown'[v][g] = shown[v][g]
      BY <2>1 DEF Hide, TypeOK, Views
    <2>3. CASE w = "published"
      <3>1. f \in tried
        BY <2>1, <2>3 DEF ListsInv, PublishedTried
      <3>2. shown'["published"][f] = shown["published"][f] - 1
        BY <2>1, <2>3 DEF Hide, TypeOK, Views
      <3> QED
        BY <2>1, <2>2, <3>1, <3>2, ListsReplace DEF NoEntry, Views
    <2>4. CASE w # "published"
      <3>1. f \notin tried => dict[f].kind = w
        BY <1>0, <2>1, <2>4 DEF Views
      <3>2. f \notin tried => \A v \in {"found", "here", "download"} : shown'[v][f] = 0
        BY <1>0, <2>1, <2>4, <3>1 DEF Hide, TypeOK, Views
      <3>3. shown'["published"][f] = shown["published"][f]
        BY <2>1, <2>4 DEF Hide, TypeOK, Views
      <3>4. shown["published"][f] > 0 => f \in tried
        BY DEF ListsInv, PublishedTried
      <3> QED
        BY <2>1, <2>2, <3>2, <3>3, <3>4, ListsReplace DEF NoEntry, Views
    <2> QED
      BY <2>3, <2>4
  <1> QED
    BY <1>1, <1>2, <1>3

\* The window publishes: the file is of tried from now on.
LEMMA ListsPublish ==
  ASSUME TypeOK, ListsInv, NEW f \in Files,
         Download(f) \/ Describe(f) \/ Described(f) \/ AddPublished(f) \/ PublishKnown(f)
           \/ RePublish(f) \/ Retry(f) \/ PublishViaDht(f) \/ Inspect(f)
  PROVE ListsInv'
  <1>1. CASE Download(f)
    BY <1>1, ListsSame DEF Download, ListsInv, PublishedTried
  <1>2. CASE Inspect(f)
    BY <1>2, ListsCrash DEF Inspect
  <1>3. CASE Describe(f)
    <2>1. gui'.at = "describe" /\ gui'.files = {f}
      BY <1>3 DEF Describe, TypeOK, Gui
    <2> QED
      BY <1>3, <2>1 DEF Describe, ListsInv, ListsAgree, PublishedTried, ResultsNew
  <1>4. CASE Described(f)
    <2>1. gui'.at = "enter" /\ gui'.files = gui.files
      BY <1>4 DEF Described, TypeOK, Gui
    <2> QED
      BY <1>4, <2>1 DEF Described, StartPublisher, TypeOK, ListsInv, ListsAgree, PublishedTried, ResultsNew
  <1>5. CASE AddPublished(f)
    <2>1. f \in tried
      BY <1>5 DEF AddPublished, ListsInv, PublishedTried
    <2>2. \A v \in Views, g \in Files : g # f => shown'[v][g] = shown[v][g] /\ dict'[g] = dict[g]
      BY <1>5 DEF AddPublished, Show, TypeOK, Views
    <2> QED
      BY <1>5, <2>1, <2>2 DEF AddPublished, ListsInv, ListsAgree, PublishedTried, ResultsNew, GuiIdle, Views
  <1>6. CASE Crash("window")
    BY <1>6, ListsCrash
  <1>7. CASE (PublishKnown(f) \/ RePublish(f) \/ Retry(f)) /\ ~ Crash("window")
    <2>1. StartPublisher(f) /\ gui.at = "idle" /\ UNCHANGED <<dict, gui>>
      BY <1>7 DEF PublishKnown, RePublish, Retry, Clickable
    <2>2. \A v \in Views, g \in Files : g # f => shown'[v][g] = shown[v][g]
      BY <1>7 DEF PublishKnown, RePublish, Retry, Show, TypeOK, Views
    <2> QED
      BY <2>1, <2>2 DEF StartPublisher, TypeOK, ListsInv, ListsAgree, PublishedTried, ResultsNew, Views
  <1>8. CASE PublishViaDht(f)
    <2>1. \A v \in Views, g \in Files : g # f => shown'[v][g] = shown[v][g] /\ dict'[g] = dict[g]
      BY <1>8 DEF PublishViaDht, Show, TypeOK, Views
    <2> QED
      BY <1>8, <2>1 DEF PublishViaDht, ListsInv, ListsAgree, PublishedTried, ResultsNew, Clickable, Views
  <1> QED
    BY <1>1, <1>2, <1>3, <1>4, <1>5, <1>6, <1>7, <1>8

\* What Check and SetPath change of an entry.
LEMMA SameKind ==
  ASSUME TypeOK, NEW g \in Files,
         \/ UNCHANGED dict
         \/ dict' = [dict EXCEPT ![g].done = TRUE]
         \/ dict' = [dict EXCEPT ![g].path = "fetched"]
  PROVE \A f \in Files : dict'[f].kind = dict[f].kind /\ (dict[f].done => dict'[f].done)
  <1>1. dict[g] \in Entry
    BY DEF TypeOK
  <1>2. /\ [dict[g] EXCEPT !.done = TRUE].kind = dict[g].kind
        /\ [dict[g] EXCEPT !.done = TRUE].done
        /\ [dict[g] EXCEPT !.path = "fetched"].kind = dict[g].kind
        /\ [dict[g] EXCEPT !.path = "fetched"].done = dict[g].done
    BY <1>1, ZenonT(30) DEF Entry
  <1>3. \A f \in Files : \/ dict'[f] = dict[f]
                         \/ f = g /\ dict'[f] = [dict[g] EXCEPT !.done = TRUE]
                         \/ f = g /\ dict'[f] = [dict[g] EXCEPT !.path = "fetched"]
    BY DEF TypeOK
  <1> QED
    BY <1>2, <1>3, ZenonT(30)

\* A download thread keeps the lists in agreement.
LEMMA ListsLoader ==
  ASSUME TypeOK, ListsInv, NEW t \in Downloaders, LoaderStep(t)
  PROVE ListsInv'
  <1>0. loader[t].file \in Files
    BY DEF TypeOK, Loader
  <1>1. UNCHANGED <<shown, publisher, gui, tried>>
    BY DEF LoaderStep, Begin, Enter, Connect, Receive, Tell, Check, Log, LeaveList, SetPath, Crash
  <1>2. \/ UNCHANGED dict
        \/ dict' = [dict EXCEPT ![loader[t].file].done = TRUE]
        \/ dict' = [dict EXCEPT ![loader[t].file].path = "fetched"]
    BY DEF LoaderStep, Begin, Enter, Connect, Receive, Tell, Check, Log, LeaveList, SetPath, Crash
  <1>3. \A f \in Files : dict'[f].kind = dict[f].kind
    BY <1>0, <1>2, SameKind
  <1> QED
    BY <1>1, <1>3, ListsSame DEF ListsInv, PublishedTried

\* A publishing thread keeps the lists in agreement.
LEMMA ListsPublisher ==
  ASSUME TypeOK, ListsInv, NEW p \in Publishers, PublisherStep(p)
  PROVE ListsInv'
  <1> DEFINE f == publisher[p].file
  <1>0. f \in Files /\ publisher[p].at # "idle" /\ f \in tried
    BY DEF TypeOK, Publisher, PublisherStep, Send, Update, AddStatus, Publishing, ListsInv, PublishedTried
  <1>1. CASE Crash("publish")
    BY <1>1, ListsCrash
  <1>2. CASE ~ Crash("publish")
    <2>1. UNCHANGED <<shown, gui, tried>>
      BY <1>2 DEF PublisherStep, Send, Update, AddStatus, Throw
    <2>2. \A q \in Publishers : publisher'[q].file = publisher[q].file /\ (q # p => publisher'[q] = publisher[q])
      <3>1. CASE Send(p) \/ Throw(p)
        BY <1>2, <3>1 DEF Send, Throw, TypeOK, Publisher
      <3>2. CASE Update(p) /\ ~ Throw(p)
        BY <3>2 DEF Update, TypeOK, Publisher, IdleP
      <3>3. CASE AddStatus(p) /\ ~ Throw(p)
        BY <3>3 DEF AddStatus, TypeOK, Publisher, IdleP
      <3> QED
        BY <3>1, <3>2, <3>3 DEF PublisherStep
    <2>3. \A g \in Files : g # f => dict'[g] = dict[g]
      BY <1>2 DEF PublisherStep, Send, Update, AddStatus, Throw, Replace, TypeOK
    <2>4. ListsAgree'
      BY <1>0, <2>1, <2>3 DEF ListsInv, ListsAgree
    <2>5. PublishedTried'
      BY <1>0, <2>1, <2>2, <2>3 DEF ListsInv, PublishedTried
    <2>6. ResultsNew'
      BY <1>0, <2>1, <2>3 DEF ListsInv, ResultsNew, TypeOK, Gui
    <2> QED
      BY <2>4, <2>5, <2>6 DEF ListsInv
  <1> QED
    BY <1>1, <1>2

\* Every step keeps the lists in agreement.
LEMMA ListsNext == TypeOK /\ ListsInv /\ [Next]_vars => ListsInv'
  <1> SUFFICES ASSUME TypeOK, ListsInv, [Next]_vars PROVE ListsInv'
    OBVIOUS
  <1>1. CASE Restart
    BY <1>1 DEF Restart, ListsInv, ListsAgree, PublishedTried, ResultsNew, NoEntry, IdleP, GuiIdle, Views
  <1>2. CASE UNCHANGED vars
    BY <1>2 DEF vars, ListsInv, ListsAgree, PublishedTried, ResultsNew
  <1>3. CASE Quit \/ \E f \in Files : Upload(f)
    BY <1>3, ListsCrash DEF Quit, Upload
  <1> QED
    BY <1>1, <1>2, <1>3, ListsLookup, ListsLists, ListsPublish, ListsLoader, ListsPublisher DEF Next, WindowStep

\* The dictionary and the lists of the window agree on every file that was
\* not published (FilesManager.cs 134-161, 315-385; MainForm.cs 142-448).
THEOREM EngineListsAgree == Spec => []ListsAgree
  <1>1. ListsInv => ListsAgree
    BY DEF ListsInv
  <1> QED
    BY <1>1, TypeInit, TypeNext, ListsInit, ListsNext, PTL DEF Spec

KeptStep ==
    \A f \in Files :
        /\ dict[f].kind = "download" /\ dict[f].done
        /\ down' = "no" /\ down = "no"
        /\ f \notin tried'
        => \/ dict'[f].kind = "download" /\ dict'[f].done
           \/ shown'["download"][f] < shown["download"][f]

\* No step forgets a finished download.
LEMMA KeptNext == TypeOK /\ ListsInv /\ [Next]_vars => KeptStep
  <1> SUFFICES ASSUME TypeOK, ListsInv, [Next]_vars, NEW f \in Files,
                      dict[f].kind = "download", dict[f].done, down' = "no", down = "no", f \notin tried'
               PROVE \/ dict'[f].kind = "download" /\ dict'[f].done
                     \/ shown'["download"][f] < shown["download"][f]
    BY DEF KeptStep
  <1>0. ~ Restart
    BY DEF Restart, Running
  <1>1. tried \subseteq tried'
    BY <1>0 DEF Next, vars, Find, Lookup, AddFound, Quit, Upload, WindowStep, Select, Remove, Inspect, Download, Delete, Describe,
           Described, AddPublished, PublishKnown, RePublish, Retry, PublishViaDht, StartPublisher, LoaderStep, Begin, Enter,
           Connect, Receive, Tell, Check, Log, LeaveList, SetPath, PublisherStep, Send, Update, AddStatus, Throw, Crash
  <1>2. shown["found"][f] = 0 /\ shown["here"][f] = 0 /\ shown["published"][f] = 0
    <2>1. shown["published"] \in [Files -> Nat]
      BY DEF TypeOK, Views
    <2> QED
      BY <1>1, <2>1 DEF ListsInv, ListsAgree, PublishedTried
  <1>3. CASE Find \/ Lookup \/ AddFound \/ Quit \/ UNCHANGED vars \/ \E g \in Files : Upload(g)
    BY <1>3 DEF Find, Lookup, AddFound, Quit, Upload, Crash, vars
  <1>4. ASSUME NEW g \in Files, WindowStep(g)
        PROVE \/ dict'[f].kind = "download" /\ dict'[f].done
              \/ shown'["download"][f] < shown["download"][f]
    <2>1. CASE Select(g)
      <3>1. g # f
        BY <1>2, <2>1 DEF Select
      <3> QED
        BY <2>1, <3>1 DEF Select, Replace, TypeOK
    <2>2. CASE Remove(g)
      BY <2>2 DEF Remove, Replace, Hide, Crash, TypeOK, Views
    <2>3. ASSUME NEW v \in Views, Delete(v, g)
          PROVE dict'[f].kind = "download" /\ dict'[f].done
      <3>1. g # f
        BY <1>2, <2>3 DEF Delete, Views
      <3> QED
        BY <2>3, <3>1 DEF Delete, Replace, TypeOK
    <2>4. CASE AddPublished(g) \/ PublishViaDht(g)
      BY <2>4 DEF AddPublished, PublishViaDht, TypeOK
    <2>5. CASE Inspect(g) \/ Download(g) \/ Describe(g) \/ Described(g) \/ PublishKnown(g) \/ RePublish(g) \/ Retry(g)
      BY <2>5 DEF Inspect, Download, Describe, Described, PublishKnown, RePublish, Retry, Crash
    <2> QED
      BY <1>4, <2>1, <2>2, <2>3, <2>4, <2>5 DEF WindowStep
  <1>5. ASSUME NEW t \in Downloaders, LoaderStep(t)
        PROVE dict'[f].kind = "download" /\ dict'[f].done
    <2>1. \/ UNCHANGED dict
          \/ dict' = [dict EXCEPT ![loader[t].file].done = TRUE]
          \/ dict' = [dict EXCEPT ![loader[t].file].path = "fetched"]
      BY <1>5 DEF LoaderStep, Begin, Enter, Connect, Receive, Tell, Check, Log, LeaveList, SetPath, Crash
    <2>2. loader[t].file \in Files
      BY DEF TypeOK, Loader
    <2> QED
      BY <2>1, <2>2, SameKind
  <1>6. ASSUME NEW p \in Publishers, PublisherStep(p)
        PROVE dict'[f].kind = "download" /\ dict'[f].done
    <2>1. publisher[p].file # f
      BY <1>1, <1>6 DEF ListsInv, PublishedTried, PublisherStep, Send, Update, AddStatus, Publishing
    <2> QED
      BY <1>6, <2>1 DEF PublisherStep, Send, Update, AddStatus, Throw, Crash, Replace, TypeOK
  <1> QED
    BY <1>0, <1>3, <1>4, <1>5, <1>6 DEF Next

\* A finished download goes only with its item, at the user's command.
THEOREM EngineDownloadKept == Spec => DownloadKept
  <1>1. TypeOK /\ ListsInv /\ [Next]_vars => [KeptStep]_vars
    BY KeptNext
  <1>2. Spec => []TypeOK
    BY EngineTyped
  <1>3. Spec => []ListsInv
    BY TypeInit, TypeNext, ListsInit, ListsNext, PTL DEF Spec
  <1>4. Spec => [][KeptStep]_vars
    BY <1>1, <1>2, <1>3, PTL DEF Spec
  <1> QED
    BY <1>4 DEF DownloadKept, KeptStep
=============================================================================
