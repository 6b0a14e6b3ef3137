------------------------- MODULE FileSearch_proofs --------------------------
(***************************************************************************)
(* Theorems about FileSearch for any set of trackers.  What is said of the *)
(* number of searchers holds when this tracker handles one request at a    *)
(* time (Alone); what is said of the lists holds always.                   *)
(***************************************************************************)
EXTENDS FileSearch, FiniteSetTheorems, TLAPS

Alone == \A r, s \in Searches : r = s

-----------------------------------------------------------------------------
(* Where the threads are: nothing is begun before the loop, and no tracker *)
(* is met twice in it.                                                     *)

Fresh(s) ==
    /\ handler[s] \in {"idle", "asking"} => launcher[s] = "none"
    /\ launcher[s] \in {"none", "enter", "list"} => Begun(s) = {}
    /\ launcher[s] = "none" => todo[s] = {}

OnceEach(s) ==
    /\ Ahead(s) \cap Begun(s) = {}
    /\ launcher[s] \in {"begin", "count"} => current[s] \in Trackers \ todo[s]
    /\ launcher[s] = "count" => current[s] \in Begun(s)

Places == \A s \in Searches : Fresh(s) /\ OnceEach(s)

-----------------------------------------------------------------------------
(* Every action keeps the types.                                           *)

\* The types hold at first.
LEMMA TypeInit == Init => TypeOK
<1> USE SearchAssumption
    DEF Init, TypeOK, HandlerPlaces, LauncherPlaces, SearcherPlaces, Free,
        NoTracker
<1> QED  OBVIOUS

\* Every step keeps the types.
LEMMA TypeNext == TypeOK /\ [Next]_vars => TypeOK'
<1> SUFFICES ASSUME TypeOK, [Next]_vars PROVE TypeOK'
  OBVIOUS
<1> USE SearchAssumption
    DEF TypeOK, HandlerPlaces, LauncherPlaces, SearcherPlaces, Free,
        handlerVars, listVars, launcherVars, searcherVars, SetStatus, SetEvent,
        LauncherTo, LauncherAt, SearcherTo, SearcherAt
<1>1. ASSUME NEW s \in Searches, Ask(s) PROVE TypeOK'
  BY <1>1 DEF Ask
<1>2. ASSUME NEW s \in Searches, Launch(s) PROVE TypeOK'
  BY <1>2 DEF Launch
<1>3. ASSUME NEW s \in Searches, Wake(s) PROVE TypeOK'
  BY <1>3 DEF Wake
<1>4. ASSUME NEW s \in Searches, Timeout(s) PROVE TypeOK'
  BY <1>4 DEF Timeout
<1>5. ASSUME NEW s \in Searches, Enter(s) PROVE TypeOK'
  BY <1>5 DEF Enter
<1>6. ASSUME NEW s \in Searches, MakeList(s) PROVE TypeOK'
  BY <1>6 DEF MakeList, WithAdded, BlackListsSeen
<1>7. ASSUME NEW s \in Searches, Look(s) PROVE TypeOK'
  BY <1>7 DEF Look, Searching
<1>8. ASSUME NEW s \in Searches, Begin(s) PROVE TypeOK'
  <2>1. launcher' \in [Searches -> LauncherPlaces]
    <3>1. LauncherTo(s, "look") \/ LauncherTo(s, "count")
      BY <1>8 DEF Begin
    <3> QED  BY <3>1
  <2>2. searcher' \in [Searches -> [Trackers -> SearcherPlaces]]
    <3>1. CASE UNCHANGED searcher
      BY <3>1
    <3>2. CASE searcher' = [searcher EXCEPT ![s][current[s]] = "begun"]
      BY <3>2
    <3> QED  BY <1>8, <3>1, <3>2 DEF Begin
  <2> QED  BY <1>8, <2>1, <2>2 DEF Begin
<1>9. ASSUME NEW s \in Searches, Count(s) PROVE TypeOK'
  BY <1>9 DEF Count
<1>10. ASSUME NEW s \in Searches, Leave(s) PROVE TypeOK'
  BY <1>10 DEF Leave, Searching
<1>11. ASSUME NEW s \in Searches, End(s) PROVE TypeOK'
  BY <1>11 DEF End
<1>12. ASSUME NEW s \in Searches, LauncherOff(s) PROVE TypeOK'
  BY <1>12 DEF LauncherOff
<1>13. ASSUME NEW s \in Searches, LauncherSignal(s) PROVE TypeOK'
  BY <1>13 DEF LauncherSignal
<1>14. ASSUME NEW s \in Searches, NEW t \in Trackers, Start(s, t)
       PROVE TypeOK'
  BY <1>14 DEF Start, Searching
<1>15. ASSUME NEW s \in Searches, NEW t \in Trackers, Fail(s, t)
       PROVE TypeOK'
  BY <1>15 DEF Fail
<1>16. ASSUME NEW s \in Searches, NEW t \in Trackers, Connect(s, t)
       PROVE TypeOK'
  BY <1>16 DEF Connect, BlackListsSeen, Merged
<1>17. ASSUME NEW s \in Searches, NEW t \in Trackers, Read(s, t)
       PROVE TypeOK'
  BY <1>17 DEF Read, Searching
<1>18. ASSUME NEW s \in Searches, NEW t \in Trackers, LineEnd(s, t)
       PROVE TypeOK'
  BY <1>18 DEF LineEnd
<1>19. ASSUME NEW s \in Searches, NEW t \in Trackers, LineOwner(s, t)
       PROVE TypeOK'
  BY <1>19 DEF LineOwner, Searching
<1>20. ASSUME NEW s \in Searches, NEW t \in Trackers, LinePeers(s, t)
       PROVE TypeOK'
  BY <1>20 DEF LinePeers
<1>21. ASSUME NEW s \in Searches, NEW t \in Trackers, Hops(s, t)
       PROVE TypeOK'
  BY <1>21 DEF Hops, LockAfterHops
<1>22. ASSUME NEW s \in Searches, NEW t \in Trackers, Drop(s, t)
       PROVE TypeOK'
  BY <1>22 DEF Drop
<1>23. ASSUME NEW s \in Searches, NEW t \in Trackers, SearcherOff(s, t)
       PROVE TypeOK'
  BY <1>23 DEF SearcherOff
<1>24. ASSUME NEW s \in Searches, NEW t \in Trackers, SearcherSignal(s, t)
       PROVE TypeOK'
  BY <1>24 DEF SearcherSignal
<1>25. CASE UNCHANGED vars
  BY <1>25 DEF vars
<1> QED  BY <1>1, <1>2, <1>3, <1>4, <1>5, <1>6, <1>7, <1>8, <1>9, <1>10,
  <1>11, <1>12, <1>13, <1>14, <1>15, <1>16, <1>17, <1>18, <1>19, <1>20,
  <1>21, <1>22, <1>23, <1>24, <1>25 DEF Next

-----------------------------------------------------------------------------
(* What each step does to the places of the threads.  A step of a launcher *)
(* or a searcher leaves the threads of other searches alone.               *)

\* The places of the threads agree at first.
LEMMA PlacesInit == Init => Places
  BY DEF Init, Places, Fresh, OnceEach, Begun, Ahead

(* The searchers' own steps neither begin a searcher nor move a launcher.  *)
LEMMA SearcherStep ==
  ASSUME TypeOK, NEW s \in Searches, NEW t \in Trackers, Searcher(s, t)
  PROVE  /\ UNCHANGED <<handlerVars, launcherVars>>
         /\ SearcherAt(s, t, "none") = FALSE
         /\ \E p \in SearcherPlaces \ {"none", "begun"} : SearcherTo(s, t, p)
  BY DEF TypeOK, Searcher, Start, Fail, Connect, Read, LineEnd, LineOwner,
         LinePeers, Hops, Drop, SearcherOff, SearcherSignal, SearcherAt,
         SearcherTo, SearcherPlaces

\* A searcher that has begun is never new again.
LEMMA BegunKept ==
  ASSUME TypeOK, NEW s \in Searches, NEW t \in Trackers, Searcher(s, t),
         NEW r \in Searches
  PROVE  Begun(r)' = Begun(r)
<1>1. PICK p \in SearcherPlaces \ {"none", "begun"} : SearcherTo(s, t, p)
  BY SearcherStep
<1>2. searcher[s][t] # "none"
  BY SearcherStep DEF SearcherAt
<1> QED  BY <1>1, <1>2 DEF TypeOK, Begun, SearcherTo

\* Every step keeps the places in agreement.
LEMMA PlacesNext == TypeOK /\ Places /\ [Next]_vars => Places'
<1> SUFFICES ASSUME TypeOK, Places, [Next]_vars, NEW r \in Searches
             PROVE  Fresh(r)' /\ OnceEach(r)'
  BY DEF Places
<1>0. Fresh(r) /\ OnceEach(r)
  BY DEF Places
<1> USE DEF TypeOK, Fresh, OnceEach, Ahead, LauncherAt, LauncherTo
<1>1. ASSUME NEW s \in Searches, NEW t \in Trackers, Searcher(s, t)
      PROVE  Fresh(r)' /\ OnceEach(r)'
  <2>1. UNCHANGED <<handler, launcher, todo, current>>
    BY <1>1, SearcherStep DEF handlerVars, launcherVars
  <2>2. Begun(r)' = Begun(r)
    BY <1>1, BegunKept
  <2> QED  BY <1>0, <2>1, <2>2
<1>2. ASSUME NEW s \in Searches, Ask(s) \/ Launch(s) \/ Wake(s) \/ Timeout(s)
      PROVE  Fresh(r)' /\ OnceEach(r)'
  <2>1. UNCHANGED <<searcher, todo, current>>
    BY <1>2 DEF Ask, Launch, Wake, Timeout, launcherVars, searcherVars
  <2>2. CASE Ask(s)
    BY <1>0, <2>1, <2>2 DEF Ask, Begun, launcherVars
  <2>3. CASE Launch(s)
    BY <1>0, <2>1, <2>3 DEF Launch, Begun
  <2>4. CASE Wake(s)
    BY <1>0, <2>1, <2>4 DEF Wake, Begun, launcherVars
  <2>5. CASE Timeout(s)
    BY <1>0, <2>1, <2>5 DEF Timeout, Begun, launcherVars
  <2> QED  BY <1>2, <2>2, <2>3, <2>4, <2>5
<1>3. ASSUME NEW s \in Searches, Enter(s)
      PROVE  Fresh(r)' /\ OnceEach(r)'
  <2>1. UNCHANGED <<handler, searcher, current>>
    BY <1>3 DEF Enter, handlerVars, searcherVars
  <2>2. PICK m \in SUBSET Trackers :
            /\ todo' = [todo EXCEPT ![s] = m]
            /\ LauncherTo(s, IF m = {} THEN "look" ELSE "list")
    BY <1>3 DEF Enter
  <2>3. Fresh(s) /\ launcher[s] = "enter"
    BY <1>3 DEF Enter, Places
  <2> QED  BY <1>0, <2>1, <2>2, <2>3 DEF Begun
<1>4. ASSUME NEW s \in Searches, MakeList(s) \/ Leave(s)
      PROVE  Fresh(r)' /\ OnceEach(r)'
  BY <1>0, <1>4 DEF MakeList, Leave, Begun, handlerVars, searcherVars
<1>5. ASSUME NEW s \in Searches, Look(s)
      PROVE  Fresh(r)' /\ OnceEach(r)'
  BY <1>0, <1>5 DEF Look, Begun, handlerVars, searcherVars
<1>6. ASSUME NEW s \in Searches, Begin(s)
      PROVE  Fresh(r)' /\ OnceEach(r)'
  BY <1>0, <1>6 DEF Begin, Begun, handlerVars
<1>7. ASSUME NEW s \in Searches, Count(s) \/ End(s)
      PROVE  Fresh(r)' /\ OnceEach(r)'
  BY <1>0, <1>7 DEF Count, End, Begun, handlerVars, searcherVars
<1>8. ASSUME NEW s \in Searches, LauncherOff(s) \/ LauncherSignal(s)
      PROVE  Fresh(r)' /\ OnceEach(r)'
  <2>1. UNCHANGED <<handler, searcher, todo, current>>
    BY <1>8 DEF LauncherOff, LauncherSignal, handlerVars, searcherVars
  <2>2. \/ LauncherAt(s, "off") /\ LauncherTo(s, "signal")
        \/ LauncherAt(s, "signal") /\ LauncherTo(s, "done")
    BY <1>8 DEF LauncherOff, LauncherSignal
  <2> QED  BY <1>0, <2>1, <2>2 DEF Begun
<1>9. CASE UNCHANGED vars
  BY <1>0, <1>9 DEF vars, handlerVars, launcherVars, searcherVars, Begun
<1> QED  BY <1>1, <1>2, <1>3, <1>4, <1>5, <1>6, <1>7, <1>8, <1>9
         DEF Next, Searcher

-----------------------------------------------------------------------------
(* The black list of a search whose handler is there: once it is made, the *)
(* two lists together name all that the launcher has begun or has ahead,   *)
(* and this is what every request carries.                                 *)

All(s) == black[s] \cup future[s]

Names(s) ==
    handler[s] = "waiting" =>
        /\ launcher[s] \notin {"none", "enter", "list"} =>
              (Ahead(s) \ {from[s]}) \cup Begun(s) \subseteq All(s)
        /\ \A t \in Trackers :
              searcher[s][t] \in {"read", "line", "hops"} => sent[s][t] = All(s)

ListInv == \A s \in Searches : Names(s)

\* The lists are right at first.
LEMMA ListInit == Init => ListInv
  BY DEF Init, ListInv, Names

\* Every step keeps the lists right.
LEMMA ListNext == TypeOK /\ Places /\ ListInv /\ [Next]_vars => ListInv'
<1> SUFFICES ASSUME TypeOK, Places, ListInv, [Next]_vars, NEW r \in Searches
             PROVE  Names(r)'
  BY DEF ListInv
<1>0. Names(r) /\ Fresh(r) /\ OnceEach(r)
  BY DEF ListInv, Places
<1> USE DEF TypeOK, Names, Ahead, All, LauncherAt, LauncherTo
<1>1. ASSUME NEW s \in Searches, NEW t \in Trackers, Searcher(s, t),
             ~Connect(s, t)
      PROVE  Names(r)'
  <2>1. UNCHANGED <<handler, from, launcher, todo, current, black, future, sent>>
    BY <1>1 DEF Searcher, Start, Fail, Read, LineEnd, LineOwner, LinePeers,
       Hops, Drop, SearcherOff, SearcherSignal, handlerVars, launcherVars,
       listVars
  <2>2. Begun(r)' = Begun(r)
    BY <1>1, BegunKept
  <2>3. ASSUME NEW u \in Trackers, searcher'[r][u] \in {"read", "line", "hops"}
        PROVE  searcher[r][u] \in {"read", "line", "hops"}
    <3>1. PICK p \in SearcherPlaces :
              /\ SearcherTo(s, t, p)
              /\ p \in {"read", "line", "hops"} =>
                    searcher[s][t] \in {"read", "line", "hops"}
      BY <1>1 DEF Searcher, Start, Fail, Read, LineEnd, LineOwner, LinePeers,
         Hops, Drop, SearcherOff, SearcherSignal, SearcherAt, SearcherPlaces
    <3>2. CASE r = s /\ u = t
      BY <2>3, <3>1, <3>2 DEF SearcherTo
    <3>3. CASE ~(r = s /\ u = t)
      BY <2>3, <3>1, <3>3 DEF SearcherTo
    <3> QED  BY <3>2, <3>3
  <2> QED  BY <1>0, <2>1, <2>2, <2>3
<1>2. ASSUME NEW s \in Searches, NEW t \in Trackers, Connect(s, t)
      PROVE  Names(r)'
  <2>1. UNCHANGED <<handler, from, launcher, todo, current>>
    BY <1>2 DEF Connect, handlerVars, launcherVars
  <2>2. Begun(r)' = Begun(r)
    BY <1>2, BegunKept DEF Searcher
  <2>3. CASE r # s
    <3>1. /\ black'[r] = black[r] /\ future'[r] = future[r]
          /\ searcher'[r] = searcher[r] /\ sent'[r] = sent[r]
      BY <1>2, <2>3 DEF Connect, SearcherTo
    <3> QED  BY <1>0, <2>1, <2>2, <3>1
  <2>4. CASE r = s /\ handler[s] = "waiting"
    <3>1. /\ black' = [black EXCEPT ![s] = black[s] \cup future[s]]
          /\ sent' = [sent EXCEPT ![s][t] = black[s] \cup future[s]]
          /\ future' = [future EXCEPT ![s] = {}]
          /\ SearcherTo(s, t, "read")
      BY <1>2, <2>4 DEF Connect, BlackListsSeen, Merged
    <3>2. All(s)' = All(s)
      BY <3>1
    <3> QED  BY <1>0, <2>1, <2>2, <2>4, <3>1, <3>2 DEF SearcherTo
  <2> QED  BY <2>1, <2>3, <2>4
<1>3. ASSUME NEW s \in Searches, Ask(s) \/ Launch(s) \/ Wake(s) \/ Timeout(s)
      PROVE  Names(r)'
  <2>1. UNCHANGED <<searcher, todo, current, future, sent>>
    BY <1>3 DEF Ask, Launch, Wake, Timeout, launcherVars, searcherVars, listVars
  <2>2. CASE Ask(s)
    BY <1>0, <2>1, <2>2 DEF Ask, Begun, launcherVars
  <2>3. CASE Launch(s)
    <3>1. Fresh(s) /\ handler[s] = "asking"
      BY <2>3 DEF Launch, Places
    <3>2. \A t \in Trackers : searcher[s][t] = "none"
      BY <3>1 DEF Fresh, Begun
    <3> QED  BY <1>0, <2>1, <2>3, <3>2 DEF Launch, Begun, listVars
  <2>4. CASE Wake(s)
    BY <1>0, <2>1, <2>4 DEF Wake, Begun, launcherVars, listVars
  <2>5. CASE Timeout(s)
    BY <1>0, <2>1, <2>5 DEF Timeout, Begun, launcherVars, listVars
  <2> QED  BY <1>3, <2>2, <2>3, <2>4, <2>5
<1>4. ASSUME NEW s \in Searches, Enter(s)
      PROVE  Names(r)'
  <2>1. UNCHANGED <<handler, from, searcher, current, black, future, sent>>
    BY <1>4 DEF Enter, handlerVars, searcherVars, listVars
  <2>2. PICK m \in SUBSET Trackers :
            /\ todo' = [todo EXCEPT ![s] = m]
            /\ LauncherTo(s, IF m = {} THEN "look" ELSE "list")
    BY <1>4 DEF Enter
  <2>3. Fresh(s) /\ launcher[s] = "enter"
    BY <1>4 DEF Enter, Places
  <2> QED  BY <1>0, <2>1, <2>2, <2>3 DEF Begun, Fresh
<1>5. ASSUME NEW s \in Searches, MakeList(s)
      PROVE  Names(r)'
  <2>1. UNCHANGED <<handler, from, searcher, current, black, todo, sent>>
    BY <1>5 DEF MakeList, handlerVars, searcherVars
  <2>2. CASE r # s
    BY <1>0, <1>5, <2>1, <2>2 DEF MakeList, Begun
  <2>3. CASE r = s /\ handler[s] = "waiting"
    <3>1. Begun(s) = {} /\ LauncherTo(s, "look")
      BY <1>0, <1>5, <2>3 DEF MakeList, Fresh
    <3>2. \A t \in Trackers : searcher[s][t] = "none"
      BY <3>1 DEF Begun
    <3>3. future'[s] = future[s] \cup
                         ((todo[s] \ ({from[s]} \cup black[s])) \ black[s])
      BY <1>5, <2>3 DEF MakeList, WithAdded, BlackListsSeen
    <3>4. Begun(s)' = {}
      BY <2>1, <3>1 DEF Begun
    <3>5. Ahead(s)' = todo[s]
      BY <2>1, <3>1
    <3> QED  BY <2>1, <2>3, <3>2, <3>3, <3>4, <3>5
  <2> QED  BY <2>1, <2>2, <2>3
<1>6. ASSUME NEW s \in Searches, Look(s)
      PROVE  Names(r)'
  BY <1>0, <1>6 DEF Look, Begun, handlerVars, searcherVars, listVars
<1>7. ASSUME NEW s \in Searches, Begin(s)
      PROVE  Names(r)'
  <2>1. UNCHANGED <<handler, from, black, future, current, todo, sent>>
    BY <1>7 DEF Begin, handlerVars, listVars
  <2>2. CASE r # s
    <3>1. searcher'[r] = searcher[r] /\ launcher'[r] = launcher[r]
      BY <1>7, <2>2 DEF Begin
    <3> QED  BY <1>0, <2>1, <3>1 DEF Begun
  <2>3. CASE r = s /\ handler[s] = "waiting"
    <3>1. CASE LauncherTo(s, "look") /\ UNCHANGED searcher
      BY <1>0, <1>7, <2>1, <2>3, <3>1 DEF Begun, Begin
    <3>2. CASE /\ LauncherTo(s, "count")
               /\ searcher' = [searcher EXCEPT ![s][current[s]] = "begun"]
               /\ current[s] # from[s]
      BY <1>0, <1>7, <2>1, <2>3, <3>2 DEF Begun, Begin
    <3> QED  BY <1>7, <2>3, <3>1, <3>2 DEF Begin
  <2> QED  BY <2>1, <2>2, <2>3
<1>8. ASSUME NEW s \in Searches,
             \/ Count(s) \/ Leave(s) \/ End(s)
             \/ LauncherOff(s) \/ LauncherSignal(s)
      PROVE  Names(r)'
  <2>1. UNCHANGED <<handler, from, black, future, current, todo, searcher, sent>>
    BY <1>8 DEF Count, Leave, End, LauncherOff, LauncherSignal, handlerVars,
       listVars, searcherVars
  <2>2. /\ launcher[s] \notin {"none", "enter", "list", "begin"}
        /\ \E p \in LauncherPlaces \ {"begin"} : LauncherTo(s, p)
    BY <1>8 DEF Count, Leave, End, LauncherOff, LauncherSignal, LauncherPlaces
  <2> QED  BY <1>0, <2>1, <2>2 DEF Begun
<1>9. CASE UNCHANGED vars
  BY <1>0, <1>9 DEF vars, handlerVars, launcherVars, searcherVars, listVars,
     Begun
<1> QED  BY <1>1, <1>2, <1>3, <1>4, <1>5, <1>6, <1>7, <1>8, <1>9
         DEF Next, Searcher

(* Whatever the number of trackers and of searches, the threads keep their *)
(* types.                                                                  *)
THEOREM SearchTypes == Spec => []TypeOK
<1> QED  BY TypeInit, TypeNext, PTL DEF Spec

(* Every request that a search sends names every tracker that the search   *)
(* turns to, before or after: trackers asked by one search do not forward  *)
(* it to each other.                                                       *)
THEOREM ForwardedOnce == Spec => []NamesAll
<1>1. Init => TypeOK /\ Places /\ ListInv
  BY TypeInit, PlacesInit, ListInit
<1>2. TypeOK /\ Places /\ ListInv /\ [Next]_vars => (TypeOK /\ Places /\ ListInv)'
  BY TypeNext, PlacesNext, ListNext
<1>3. TypeOK /\ Places /\ ListInv => NamesAll
  BY DEF Places, ListInv, Names, NamesAll, Fresh
<1> QED  BY <1>1, <1>2, <1>3, PTL DEF Spec

-----------------------------------------------------------------------------
(* One search at a time: the number, and who wakes the handler.            *)

\* The searchers that count are finitely many.
LEMMA CountFinite ==
  ASSUME NEW s \in Searches
  PROVE  IsFiniteSet(Counted(s)) /\ IsFiniteSet(Dropped(s))
  BY SearchAssumption, FS_Subset DEF Counted, Begun, Dropped

\* The same after a step.
LEMMA CountFinitePrime ==
  ASSUME NEW s \in Searches
  PROVE  IsFiniteSet(Counted(s)') /\ IsFiniteSet(Dropped(s)')
  BY SearchAssumption, FS_Subset DEF Counted, Begun, Dropped

\* The number is exact at first.
LEMMA NumberInit == Init => NumberExact
<1> SUFFICES ASSUME Init, NEW s \in Searches
             PROVE  number = Cardinality(Counted(s)) - Cardinality(Dropped(s))
  BY DEF NumberExact
<1>1. Counted(s) = {} /\ Dropped(s) = {}
  BY DEF Init, Counted, Begun, Dropped
<1> QED  BY <1>1, FS_EmptySet DEF Init

(* A searcher's step changes the number when, and only when, it drops it.  *)
LEMMA DroppedBySearcher ==
  ASSUME TypeOK, NEW s \in Searches, NEW t \in Trackers, Searcher(s, t)
  PROVE  /\ Counted(s)' = Counted(s)
         /\ Drop(s, t) => /\ Dropped(s)' = Dropped(s) \cup {t}
                          /\ t \notin Dropped(s)
                          /\ number' = number - 1
         /\ ~Drop(s, t) => Dropped(s)' = Dropped(s) /\ number' = number
<1>1. Counted(s)' = Counted(s)
  BY BegunKept, SearcherStep DEF Counted, launcherVars
<1>2. ASSUME Drop(s, t)
      PROVE  /\ Dropped(s)' = Dropped(s) \cup {t}
             /\ t \notin Dropped(s) /\ number' = number - 1
  <2>1. searcher[s][t] \in {"drop", "last"} /\ number' = number - 1
    BY <1>2 DEF Drop, SearcherAt
  <2>2. \E p \in {"off", "signal", "done"} : SearcherTo(s, t, p)
    BY <1>2 DEF Drop
  <2> QED  BY <2>1, <2>2 DEF Dropped, SearcherTo, TypeOK
<1>3. ASSUME ~Drop(s, t)
      PROVE  Dropped(s)' = Dropped(s) /\ number' = number
  <2>1. number' = number
    BY <1>3 DEF Searcher, Start, Fail, Connect, Read, LineEnd, LineOwner,
       LinePeers, Hops, SearcherOff, SearcherSignal
  <2>2. \E p \in SearcherPlaces :
           /\ SearcherTo(s, t, p)
           /\ p \in {"off", "signal", "done"} <=>
                 searcher[s][t] \in {"off", "signal", "done"}
    BY <1>3 DEF Searcher, Start, Fail, Connect, Read, LineEnd, LineOwner,
       LinePeers, Hops, SearcherOff, SearcherSignal, SearcherAt, SearcherPlaces
  <2> QED  BY <2>1, <2>2 DEF Dropped, SearcherTo, TypeOK
<1> QED  BY <1>1, <1>2, <1>3

\* Every step of a single search keeps the number exact.
LEMMA NumberNext ==
  Alone /\ TypeOK /\ Places /\ NumberExact /\ [Next]_vars => NumberExact'
<1> SUFFICES ASSUME Alone, TypeOK, Places, NumberExact, [Next]_vars,
                    NEW s \in Searches
             PROVE  number' = Cardinality(Counted(s)') - Cardinality(Dropped(s)')
  BY DEF NumberExact
<1> DEFINE Exact == number = Cardinality(Counted(s)) - Cardinality(Dropped(s))
<1>0. Exact /\ Fresh(s) /\ OnceEach(s)
  BY DEF NumberExact, Places
<1>a. \A r \in Searches : r = s
  BY DEF Alone
<1>f. /\ IsFiniteSet(Counted(s)) /\ IsFiniteSet(Dropped(s))
      /\ Cardinality(Counted(s)) \in Nat /\ Cardinality(Dropped(s)) \in Nat
  BY CountFinite, FS_CardinalityType
<1>1. ASSUME NEW t \in Trackers, Searcher(s, t)
      PROVE  Exact'
  <2>1. Counted(s)' = Counted(s)
    BY <1>1, DroppedBySearcher
  <2>2. CASE Drop(s, t)
    <3>1. /\ Dropped(s)' = Dropped(s) \cup {t} /\ t \notin Dropped(s)
          /\ number' = number - 1
      BY <1>1, <2>2, DroppedBySearcher
    <3>2. Cardinality(Dropped(s)') = Cardinality(Dropped(s)) + 1
      BY <3>1, <1>f, FS_AddElement
    <3> QED  BY <1>0, <1>f, <2>1, <3>1, <3>2 DEF TypeOK
  <2>3. CASE ~Drop(s, t)
    BY <1>0, <1>1, <2>1, <2>3, DroppedBySearcher
  <2> QED  BY <2>2, <2>3
<1>2. ASSUME Launch(s) \/ MakeList(s)
      PROVE  Exact'
  <2>1. Begun(s) = {}
    BY <1>0, <1>2 DEF Launch, MakeList, Fresh, LauncherAt
  <2>2. searcher' = searcher /\ number' = 0
    BY <1>2 DEF Launch, MakeList, searcherVars
  <2>3. Counted(s)' = {} /\ Dropped(s)' = {}
    BY <2>1, <2>2 DEF Begun, Counted, Dropped
  <2> QED  BY <2>2, <2>3, FS_EmptySet
<1>3. ASSUME Begin(s)
      PROVE  Exact'
  <2>1. number' = number /\ current' = current /\ launcher[s] = "begin"
    BY <1>3 DEF Begin, LauncherAt
  <2>2. current[s] \notin Begun(s) /\ current[s] \in Trackers
    BY <1>0, <2>1 DEF OnceEach, Ahead
  <2>3. CASE LauncherTo(s, "look") /\ UNCHANGED searcher
    BY <1>0, <2>1, <2>3 DEF Counted, Begun, Dropped, LauncherTo, TypeOK
  <2>4. CASE /\ LauncherTo(s, "count")
             /\ searcher' = [searcher EXCEPT ![s][current[s]] = "begun"]
    <3>1. Begun(s)' = Begun(s) \cup {current[s]}
      BY <2>2, <2>4 DEF Begun, TypeOK
    <3>2. Counted(s)' = Counted(s)
      BY <2>1, <2>2, <2>4, <3>1 DEF Counted, LauncherTo, TypeOK
    <3>3. Dropped(s)' = Dropped(s)
      BY <2>2, <2>4 DEF Dropped, Begun, TypeOK
    <3> QED  BY <1>0, <2>1, <3>2, <3>3
  <2> QED  BY <1>3, <2>3, <2>4 DEF Begin
<1>4. ASSUME Count(s)
      PROVE  Exact'
  <2>1. /\ number' = number + 1 /\ launcher[s] = "count"
        /\ LauncherTo(s, "look") /\ UNCHANGED <<searcher, current>>
    BY <1>4 DEF Count, LauncherAt, searcherVars
  <2>2. current[s] \in Begun(s)
    BY <1>0, <2>1 DEF OnceEach
  <2>3. /\ Counted(s)' = Counted(s) \cup {current[s]}
        /\ current[s] \notin Counted(s)
    BY <2>1, <2>2 DEF Counted, Begun, LauncherTo, TypeOK
  <2>4. Cardinality(Counted(s)') = Cardinality(Counted(s)) + 1
    BY <2>3, <1>f, FS_AddElement
  <2>5. Dropped(s)' = Dropped(s)
    BY <2>1 DEF Dropped
  <2> QED  BY <1>0, <1>f, <2>1, <2>4, <2>5 DEF TypeOK
<1>5. ASSUME \/ Ask(s) \/ Wake(s) \/ Timeout(s) \/ Enter(s) \/ Look(s)
             \/ Leave(s) \/ End(s) \/ LauncherOff(s) \/ LauncherSignal(s)
      PROVE  Exact'
  <2>1. UNCHANGED <<number, searcher>>
    BY <1>5 DEF Ask, Wake, Timeout, Enter, Look, Leave, End, LauncherOff,
       LauncherSignal, searcherVars
  <2>2. \/ UNCHANGED <<launcher, current>>
        \/ /\ launcher[s] # "count"
           /\ \E p \in LauncherPlaces \ {"count"} : LauncherTo(s, p)
    BY <1>5 DEF Ask, Wake, Timeout, Enter, Look, Leave, End, LauncherOff,
       LauncherSignal, launcherVars, LauncherAt, LauncherPlaces
  <2>3. Counted(s)' = Counted(s) /\ Dropped(s)' = Dropped(s)
    BY <2>1, <2>2 DEF Counted, Begun, Dropped, LauncherTo, TypeOK
  <2> QED  BY <1>0, <2>1, <2>3
<1>6. CASE UNCHANGED vars
  BY <1>0, <1>6 DEF vars, launcherVars, searcherVars, Counted, Begun, Dropped
<1>7. Exact'
  BY <1>a, <1>1, <1>2, <1>3, <1>4, <1>5, <1>6 DEF Next, Searcher
<1> QED  BY <1>7

(* Who is about to set the event, once the launcher has seen the number.   *)
Woken(s) ==
    \/ event[s]
    \/ launcher[s] \in {"off", "signal"}
    \/ \E t \in Trackers : searcher[s][t] \in {"off", "signal"}

WakeInv ==
    \A s \in Searches :
        /\ handler[s] = "waiting"
        /\ launcher[s] \in {"off", "signal", "done"}
        /\ Begun(s) = Dropped(s)
        => Woken(s)

\* Every step of a single search keeps somebody on the way to set the event.
LEMMA WakeNext ==
  Alone /\ TypeOK /\ Places /\ NumberExact /\ NumberExact' /\ WakeInv
      /\ [Next]_vars => WakeInv'
<1> SUFFICES ASSUME Alone, TypeOK, Places, NumberExact, NumberExact', WakeInv,
                    [Next]_vars, NEW s \in Searches,
                    handler'[s] = "waiting",
                    launcher'[s] \in {"off", "signal", "done"},
                    Begun(s)' = Dropped(s)'
             PROVE  Woken(s)'
  BY DEF WakeInv
<1>a. \A r \in Searches : r = s
  BY DEF Alone
<1>1. ASSUME NEW t \in Trackers, Searcher(s, t)
      PROVE  Woken(s)'
  <2>1. UNCHANGED <<handler, launcher, current>>
    BY <1>1, SearcherStep DEF handlerVars, launcherVars
  <2>2. CASE Drop(s, t)
    <3>1. Counted(s)' = Begun(s)'
      BY <2>1 DEF Counted
    <3>2. number' = 0
      <4>1. number' = Cardinality(Counted(s)') - Cardinality(Dropped(s)')
        BY DEF NumberExact
      <4>2. Cardinality(Dropped(s)') \in Nat
        BY CountFinitePrime, FS_CardinalityType
      <4> QED  BY <3>1, <4>1, <4>2
    <3>3. SearcherTo(s, t, "off") \/ SearcherTo(s, t, "signal")
      BY <2>2, <3>2 DEF Drop
    <3> QED  BY <3>3 DEF Woken, SearcherTo, TypeOK
  <2>3. CASE SearcherOff(s, t)
    BY <2>3 DEF SearcherOff, SearcherTo, Woken, TypeOK
  <2>4. CASE SearcherSignal(s, t)
    BY <2>1, <2>4 DEF SearcherSignal, SetEvent, Woken, TypeOK
  <2>5. CASE ~Drop(s, t) /\ ~SearcherOff(s, t) /\ ~SearcherSignal(s, t)
    <3>1. Begun(s)' = Begun(s) /\ Dropped(s)' = Dropped(s) /\ event' = event
      BY <1>1, <2>5, BegunKept, DroppedBySearcher
         DEF Searcher, Start, Fail, Connect, Read, LineEnd, LineOwner,
             LinePeers, Hops
    <3>2. Woken(s)
      BY <2>1, <3>1 DEF WakeInv
    <3>3. \E p \in SearcherPlaces :
             /\ SearcherTo(s, t, p)
             /\ searcher[s][t] \notin {"off", "signal"}
      BY <1>1, <2>5 DEF Searcher, Start, Fail, Connect, Read, LineEnd,
         LineOwner, LinePeers, Hops, SearcherAt, SearcherPlaces
    <3> QED  BY <2>1, <3>1, <3>2, <3>3 DEF Woken, SearcherTo, TypeOK
  <2> QED  BY <2>2, <2>3, <2>4, <2>5
<1>2. ASSUME End(s)
      PROVE  Woken(s)'
  <2>1. UNCHANGED <<searcher, current>> /\ launcher[s] = "end"
    BY <1>2 DEF End, searcherVars, LauncherAt
  <2>2. Counted(s) = Begun(s) /\ Begun(s) = Dropped(s)
    BY <2>1 DEF Counted, Begun, Dropped
  <2>3. number = 0
    <3>1. number = Cardinality(Counted(s)) - Cardinality(Dropped(s))
      BY DEF NumberExact
    <3>2. Cardinality(Dropped(s)) \in Nat
      BY CountFinite, FS_CardinalityType
    <3> QED  BY <2>2, <3>1, <3>2
  <2>4. LauncherTo(s, "off")
    BY <1>2, <2>3 DEF End
  <2> QED  BY <2>4 DEF Woken, LauncherTo, TypeOK
<1>3. ASSUME LauncherOff(s)
      PROVE  Woken(s)'
  BY <1>3 DEF LauncherOff, LauncherTo, Woken, TypeOK
<1>4. ASSUME LauncherSignal(s)
      PROVE  Woken(s)'
  BY <1>4 DEF LauncherSignal, SetEvent, handlerVars, Woken, TypeOK
<1>5. ASSUME \/ Launch(s) \/ Ask(s) \/ Wake(s) \/ Timeout(s) \/ Enter(s)
             \/ MakeList(s) \/ Look(s) \/ Begin(s) \/ Count(s) \/ Leave(s)
      PROVE  FALSE
  <2>1. CASE Ask(s) \/ Wake(s) \/ Timeout(s)
    BY <2>1 DEF Ask, Wake, Timeout, TypeOK
  <2>2. CASE \/ Launch(s) \/ Enter(s) \/ MakeList(s) \/ Look(s) \/ Begin(s)
             \/ Count(s) \/ Leave(s)
    <3>1. \E p \in {"enter", "list", "look", "begin", "count", "end"} :
             launcher' = [launcher EXCEPT ![s] = p]
      BY <2>2 DEF Launch, Enter, MakeList, Look, Begin, Count, Leave, LauncherTo
    <3> QED  BY <3>1 DEF TypeOK
  <2> QED  BY <1>5, <2>1, <2>2
<1>6. ASSUME UNCHANGED vars
      PROVE  Woken(s)'
  <2>1. UNCHANGED <<handler, launcher, searcher, event>>
    BY <1>6 DEF vars, handlerVars, launcherVars, searcherVars
  <2>2. Woken(s)
    BY <2>1 DEF WakeInv, Begun, Dropped
  <2> QED  BY <2>1, <2>2 DEF Woken
<1> QED  BY <1>a, <1>1, <1>2, <1>3, <1>4, <1>5, <1>6 DEF Next, Searcher

IInv == TypeOK /\ Places /\ NumberExact /\ WakeInv

\* The conjunction is an invariant of every behaviour.
LEMMA IInvInductive ==
  ASSUME Alone
  PROVE  (Init => IInv) /\ (IInv /\ [Next]_vars => IInv')
<1>1. Init => WakeInv
  BY DEF Init, WakeInv
<1>2. Init => IInv
  BY <1>1, TypeInit, PlacesInit, NumberInit DEF IInv
<1>3. IInv /\ [Next]_vars => IInv'
  BY TypeNext, PlacesNext, NumberNext, WakeNext DEF IInv
<1> QED  BY <1>2, <1>3

(* With one request at a time the number is what it should be: searchers   *)
(* counted less searchers dropped, for any number of trackers and in any   *)
(* order in which searchers fail, answer or are cut off.                   *)
THEOREM OneSearchNumber ==
  ASSUME Alone
  PROVE  Spec => []NumberExact
<1>1. (Init => IInv) /\ (IInv /\ [Next]_vars => IInv')
  BY IInvInductive
<1>2. IInv => NumberExact
  BY DEF IInv
<1> QED  BY <1>1, <1>2, PTL DEF Spec

(* With one request at a time no wake-up is lost.                          *)
THEOREM OneSearchWakes ==
  ASSUME Alone
  PROVE  Spec => []NoLostWakeUp
<1>1. (Init => IInv) /\ (IInv /\ [Next]_vars => IInv')
  BY IInvInductive
<1>2. IInv => NoLostWakeUp
  <2> SUFFICES ASSUME IInv, NEW s \in Searches,
                      handler[s] = "waiting", launcher[s] = "done",
                      \A t \in Trackers : searcher[s][t] \in {"none", "done"}
               PROVE  event[s]
    BY DEF NoLostWakeUp
  <2>1. Begun(s) = Dropped(s)
    BY DEF Begun, Dropped
  <2>2. Woken(s)
    BY <2>1 DEF IInv, WakeInv
  <2> QED  BY <2>2 DEF Woken
<1> QED  BY <1>1, <1>2, PTL DEF Spec

=============================================================================
