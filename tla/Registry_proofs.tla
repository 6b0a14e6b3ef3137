-------------------------- MODULE Registry_proofs --------------------------
(* Proofs about Registry: its types, the place of a client in its own      *)
(* tracker, and that a tracker does not forget a node.                     *)
EXTENDS Registry, TLAPS

(* What the place of a thread says of its request and of its pointer.      *)
Entering == {"eliminate", "drop", "find", "record", "join"}
NoPointer == {"free", "eliminate", "drop", "find", "merge", "add"}

ShapeOf(r) ==
    /\ At(r, "free") <=> request[r] = NoRequest
    /\ place[r] \in Entering => request[r] \in Announces \cup Infos
    /\ At(r, "send") => request[r] \in Announces
    /\ place[r] \in {"merge", "add"} => request[r] \in Founds
    /\ request[r] \in Announces => Home[Id(r)] = Node(r)
    /\ request[r] \in Infos \cup Founds => Home[Id(r)] # Node(r)
    /\ place[r] \in NoPointer => pi[r] = NoId

Shape ==
    /\ \A r \in Threads : ShapeOf(r)
    /\ \A q \in sent : Home[q.id] # q.node
    /\ \A n \in Nodes : client[n] # NoId => Home[client[n]] = n

IType == TypeOK /\ Shape

(* A client that runs has an identifier of its own.  Unless it was late,   *)
(* no thread that deletes has it before it: neither as the victim it has   *)
(* chosen nor, where it still is to choose, as an other identifier than    *)
(* that of its request.                                                    *)
Drawn ==
    /\ \A n \in Nodes : client[n] # NoId => client[n] \notin fresh
    /\ \A r \in Threads : victim[r] \notin fresh
    /\ \A r \in Threads : ~At(r, "free") => Id(r) \notin fresh
    /\ \A q \in sent : q.id \notin fresh
    /\ \A n \in Nodes : peers_map[n] \cap fresh = {}

Spared(n) ==
    client[n] # NoId /\ client[n] \notin late =>
        \A r \in Threads :
            /\ At(r, "eliminate") /\ request[r] \in Announces /\ Node(r) = n
               => Id(r) = client[n]
            /\ At(r, "drop") /\ Node(r) = n => victim[r] # client[n]

(* The way of an announce of the client that runs to its answer.           *)
Recorded(r) ==
    request[r] \in Announces /\ client[Node(r)] = Id(r) /\ Id(r) \notin late =>
        /\ At(r, "record") => pi[r] = NoId \/ pi[r] = Id(r)
        /\ At(r, "record") /\ pi[r] = Id(r) => Id(r) \in peers_map[Node(r)]
        /\ place[r] \in {"join", "send"}
           => pi[r] = Id(r) /\ Id(r) \in peers_map[Node(r)]
        /\ At(r, "send") => Id(r) \in torrent_peers[Node(r)][request[r].torrent]

Gone == \A n \in Nodes : client[n] = NoId => told[n] = {}

IOwn ==
    /\ Drawn
    /\ \A n \in Nodes : Spared(n)
    /\ \A r \in Threads : Recorded(r)
    /\ Gone
    /\ OwnClientKnown

(* A thread is about to enter somebody of the node n in the tracker m ...  *)
Adding(r, m, n) ==
    /\ Serves(r, m, n)
    /\ \/ place[r] \in {"drop", "find", "add"}
       \/ At(r, "record") /\ pi[r] = NoId

(* ... or thinks that it, or another one, has.                             *)
Counting(r, m, n) ==
    /\ Serves(r, m, n)
    /\ At(r, "join") \/ (At(r, "record") /\ pi[r] # NoId)

Known(m, n) == Of(n, peers_map[m]) # {}

(* Whoever is listed, or soon will be, is known or soon will be.           *)
Kept(m, n) ==
    Listed(m, n) \/ (\E r \in Threads : Counting(r, m, n))
    => Known(m, n) \/ (\E r \in Threads : Adding(r, m, n))

IKept == \A m, n \in Nodes : Kept(m, n)

-----------------------------------------------------------------------------
(* What a step may be.                                                     *)

\* The steps of the specification, one by one.
LEMMA Cases ==
    ASSUME [Next]_vars
    PROVE  \/ UNCHANGED vars
           \/ \E n \in Nodes : Start(n)
           \/ \E n \in Nodes : Quit(n)
           \/ \E r \in Threads, n \in Nodes, t \in Torrents : Announce(r, n, t)
           \/ \E r \in Threads, q \in sent : Receive(r, q)
           \/ \E r \in Threads, n \in Nodes, m \in Nodes : Answer(r, n, m)
           \/ \E r \in Threads : Eliminate(r)
           \/ \E r \in Threads : Drop(r)
           \/ \E r \in Threads : Find(r)
           \/ \E r \in Threads : Record(r)
           \/ \E r \in Threads : Join(r)
           \/ \E r \in Threads : Merge(r)
           \/ \E r \in Threads : Add(r)
           \/ \E r \in Threads : \E dest \in Dests(r) :
                 At(r, "send") /\ Send(r, dest)
BY DEF Next, Step

(* Lists that change in one place.                                         *)
LEMMA ListsChange ==
    ASSUME NEW f \in [Nodes -> [Torrents -> SUBSET Ids]], NEW n \in Nodes,
           NEW t \in Torrents, NEW S \in SUBSET Ids,
           NEW g, g = [f EXCEPT ![n][t] = S]
    PROVE  /\ g \in [Nodes -> [Torrents -> SUBSET Ids]]
           /\ \A m \in Nodes, u \in Torrents :
                 g[m][u] = IF m = n /\ u = t THEN S ELSE f[m][u]
<1>1. [f[n] EXCEPT ![t] = S] \in [Torrents -> SUBSET Ids]
  OBVIOUS
<1>2. g = [f EXCEPT ![n] = [f[n] EXCEPT ![t] = S]]
  OBVIOUS
<1>3. g \in [Nodes -> [Torrents -> SUBSET Ids]]
  BY <1>1, <1>2
<1>4. ASSUME NEW m \in Nodes, NEW u \in Torrents
      PROVE  g[m][u] = IF m = n /\ u = t THEN S ELSE f[m][u]
  <2>1. CASE m = n
    <3>1. g[m] = [f[n] EXCEPT ![t] = S] /\ f[n] \in [Torrents -> SUBSET Ids]
      BY <1>2, <2>1
    <3> QED
      BY <2>1, <3>1
  <2>2. CASE m # n
    BY <1>2, <2>2
  <2> QED
    BY <2>1, <2>2
<1> QED
  BY <1>3, <1>4

(* The initial state.                                                      *)
LEMMA InitType == Init => IType
<1> SUFFICES ASSUME Init PROVE IType
  OBVIOUS
<1>1. TypeOK
  BY NoIdAssumption DEF Init, TypeOK, Places, At
<1>2. Shape
  BY DEF Init, Shape, ShapeOf, At, Entering, NoRequest, Announces, Infos, Founds
<1> QED
  BY <1>1, <1>2 DEF IType

(* The threads that do not move keep their shape.                          *)
LEMMA OthersShape ==
    ASSUME Shape, NEW r \in Threads, NEW x \in Threads, x # r,
           place'[x] = place[x], request'[x] = request[x],
           pi'[x] = pi[x] \/ (pi'[x] = Freed /\ pi[x] # NoId)
    PROVE  ShapeOf(x)'
BY DEF Shape, ShapeOf, At, Id, Node

(* The requests a thread may hold are of four kinds, told apart.           *)
LEMMA Kinds ==
    /\ \A q \in Announces : q.kind = "announce" /\ q \notin Infos \cup Founds
                            /\ q # NoRequest /\ q.node \in Nodes
                            /\ q.torrent \in Torrents /\ q.id \in Ids
    /\ \A q \in Infos : q.kind = "info" /\ q \notin Announces \cup Founds
                        /\ q # NoRequest /\ q.node \in Nodes
                        /\ q.torrent \in Torrents /\ q.id \in Ids
    /\ \A q \in Founds : q.kind = "found" /\ q \notin Announces \cup Infos
                         /\ q # NoRequest /\ q.node \in Nodes
                         /\ q.torrent \in Torrents /\ q.id \in Ids
    /\ NoRequest.kind = "none"
    /\ NoRequest \notin Announces \cup Infos \cup Founds
BY DEF Announces, Infos, Founds, NoRequest

(* A thread that is not free serves one of them.                           *)
LEMMA Serving ==
    ASSUME IType, NEW r \in Threads, place[r] # "free"
    PROVE  /\ request[r] \in Announces \cup Infos \cup Founds
           /\ Node(r) \in Nodes /\ Id(r) \in Ids
           /\ request[r].torrent \in Torrents
<1>1. request[r] \in Announces \cup Infos \cup Founds
  BY DEF IType, TypeOK, Shape, ShapeOf, At
<1> QED
  BY <1>1, Kinds DEF Node, Id

(* A thread takes a request.                                               *)
LEMMA TakesShape ==
    ASSUME IType, NEW r \in Threads, NEW q, NEW p, Takes(r, q, p),
           \/ /\ p = "eliminate"
              /\ \/ q \in Announces /\ Home[q.id] = q.node
                 \/ q \in Infos /\ Home[q.id] # q.node
           \/ p = "merge" /\ q \in Founds /\ Home[q.id] # q.node
    PROVE  /\ \A x \in Threads : ShapeOf(x)'
           /\ place' \in [Threads -> Places]
           /\ request' \in [Threads -> Announces \cup Infos \cup Founds \cup {NoRequest}]
           /\ \A x \in Threads : At(x, "drop")' <=> victim'[x] # NoId
<1>1. place \in [Threads -> Places] /\ place[r] = "free"
      /\ request \in [Threads -> Announces \cup Infos \cup Founds \cup {NoRequest}]
      /\ p \in Places
  BY DEF IType, TypeOK, Takes, At, Places
<1>2. place' = [place EXCEPT ![r] = p] /\ request' = [request EXCEPT ![r] = q]
      /\ victim' = victim /\ pi' = pi
  BY DEF Takes, GoTo
<1>3. ASSUME NEW x \in Threads PROVE ShapeOf(x)'
  <2>1. CASE x # r
    BY <1>1, <1>2, <2>1, OthersShape DEF IType
  <2>2. CASE x = r
    <3>1. pi[r] = NoId
      BY <1>1 DEF IType, Shape, ShapeOf, NoPointer
    <3>2. place'[x] = p /\ request'[x] = q /\ pi'[x] = NoId
      BY <1>1, <1>2, <2>2, <3>1
    <3> QED
      BY <3>2, Kinds DEF ShapeOf, At, Id, Node, Entering, NoPointer
  <2> QED
    BY <2>1, <2>2
<1>4. \A x \in Threads : At(x, "drop")' <=> victim'[x] # NoId
  BY <1>1, <1>2 DEF IType, TypeOK, At
<1> QED
  BY <1>1, <1>2, <1>3, <1>4

(* A thread ends.                                                          *)
LEMMA EndsShape ==
    ASSUME IType, NEW r \in Threads, Ends(r)
    PROVE  /\ \A x \in Threads : ShapeOf(x)'
           /\ place' \in [Threads -> Places]
           /\ request' \in [Threads -> Announces \cup Infos \cup Founds \cup {NoRequest}]
           /\ victim' \in [Threads -> Ids \cup {NoId}]
           /\ pi' \in [Threads -> Ids \cup {NoId, Freed}]
           /\ \A x \in Threads : At(x, "drop")' <=> victim'[x] # NoId
<1>1. /\ place \in [Threads -> Places]
      /\ request \in [Threads -> Announces \cup Infos \cup Founds \cup {NoRequest}]
      /\ victim \in [Threads -> Ids \cup {NoId}]
      /\ pi \in [Threads -> Ids \cup {NoId, Freed}]
  BY DEF IType, TypeOK
<1>2. /\ place' = [place EXCEPT ![r] = "free"]
      /\ request' = [request EXCEPT ![r] = NoRequest]
      /\ victim' = [victim EXCEPT ![r] = NoId]
      /\ pi' = [pi EXCEPT ![r] = NoId]
  BY DEF Ends, GoTo
<1>3. ASSUME NEW x \in Threads PROVE ShapeOf(x)'
  <2>1. CASE x # r
    BY <1>1, <1>2, <2>1, OthersShape DEF IType
  <2>2. CASE x = r
    <3>1. place'[x] = "free" /\ request'[x] = NoRequest /\ pi'[x] = NoId
      BY <1>1, <1>2, <2>2
    <3> QED
      BY <3>1, Kinds DEF ShapeOf, At, Id, Node, Entering, NoPointer
  <2> QED
    BY <2>1, <2>2
<1>4. \A x \in Threads : At(x, "drop")' <=> victim'[x] # NoId
  BY <1>1, <1>2 DEF IType, TypeOK, At
<1> QED
  BY <1>1, <1>2, <1>3, <1>4 DEF Places

(* A thread goes on with its request.                                      *)
LEMMA GoesShape ==
    ASSUME IType, NEW r \in Threads, NEW p, GoTo(r, p), UNCHANGED request,
           \A x \in Threads : x # r =>
               pi'[x] = pi[x] \/ (pi'[x] = Freed /\ pi[x] # NoId),
           \/ place[r] \in Entering /\ p \in Entering \ {"eliminate"}
           \/ At(r, "join") /\ p = "send" /\ request[r] \in Announces
           \/ At(r, "merge") /\ p = "add",
           p \in NoPointer => pi'[r] = NoId
    PROVE  /\ \A x \in Threads : ShapeOf(x)'
           /\ place' \in [Threads -> Places]
<1>1. place \in [Threads -> Places] /\ p \in Places /\ p # "free"
  BY DEF IType, TypeOK, Places, Entering
<1>2. place' = [place EXCEPT ![r] = p] /\ request' = request
  BY DEF GoTo
<1>3. ASSUME NEW x \in Threads PROVE ShapeOf(x)'
  <2>1. CASE x # r
    BY <1>1, <1>2, <2>1, OthersShape DEF IType
  <2>2. CASE x = r
    <3>1. place'[x] = p /\ request'[x] = request[r]
      BY <1>1, <1>2, <2>2
    <3>2. ShapeOf(r) /\ place[r] # "free"
      BY DEF IType, Shape, At, Entering
    <3> QED
      BY <1>1, <2>2, <3>1, <3>2, Kinds
      DEF ShapeOf, At, Id, Node, Entering
  <2> QED
    BY <2>1, <2>2
<1> QED
  BY <1>1, <1>2, <1>3

-----------------------------------------------------------------------------
(* Every step keeps the types and the shape of the threads.                *)
LEMMA TypeStep ==
    ASSUME IType, [Next]_vars
    PROVE  IType'
<1>0. /\ client \in [Nodes -> Ids \cup {NoId}] /\ fresh \subseteq Ids
      /\ told \in [Nodes -> SUBSET Torrents] /\ late \subseteq Ids
      /\ peers_map \in [Nodes -> SUBSET Ids]
      /\ torrent_peers \in [Nodes -> [Torrents -> SUBSET Ids]]
      /\ stuck \in [Nodes -> BOOLEAN]
      /\ sent \subseteq Infos
      /\ place \in [Threads -> Places]
      /\ request \in [Threads -> Announces \cup Infos \cup Founds \cup {NoRequest}]
      /\ victim \in [Threads -> Ids \cup {NoId}]
      /\ pi \in [Threads -> Ids \cup {NoId, Freed}]
      /\ \A r \in Threads : At(r, "drop") <=> victim[r] # NoId
  BY DEF IType, TypeOK
<1>s. /\ \A q \in sent : Home[q.id] # q.node
      /\ \A n \in Nodes : client[n] # NoId => Home[client[n]] = n
      /\ \A r \in Threads : ShapeOf(r)
  BY DEF IType, Shape
<1>1. CASE UNCHANGED vars
  BY <1>1 DEF vars, clientVars, trackerVars, threadVars, IType, TypeOK, Shape,
              ShapeOf, At, Id, Node
<1>2. CASE \E n \in Nodes : Start(n) \/ Quit(n)
  <2>1. UNCHANGED <<trackerVars, sent, threadVars>>
    BY <1>2 DEF Start, Quit
  <2> DEFINE Clients ==
                /\ client' \in [Nodes -> Ids \cup {NoId}] /\ fresh' \subseteq Ids
                /\ told' \in [Nodes -> SUBSET Torrents] /\ late' \subseteq Ids
                /\ \A n \in Nodes : client'[n] # NoId => Home[client'[n]] = n
  <2>2. ASSUME NEW n \in Nodes, Start(n) PROVE Clients
    <3>1. PICK i \in fresh : /\ Home[i] = n /\ fresh' = fresh \ {i}
                             /\ client' = [client EXCEPT ![n] = i]
                             /\ late' = IF Begun(n) THEN late
                                        ELSE late \cup {i}
      BY <2>2 DEF Start
    <3>2. told' = told /\ late' \subseteq late \cup {i}
      BY <2>2, <3>1 DEF Start
    <3> QED BY <1>0, <1>s, <3>1, <3>2
  <2>3. ASSUME NEW n \in Nodes, Quit(n) PROVE Clients
    BY <1>0, <1>s, <2>3 DEF Quit
  <2>4. Clients
    BY <1>2, <2>2, <2>3
  <2> QED
    BY <1>0, <1>s, <2>1, <2>4
    DEF trackerVars, threadVars, IType, TypeOK, Shape, ShapeOf, At, Id, Node
<1>3. CASE \E r \in Threads, n \in Nodes, t \in Torrents : Announce(r, n, t)
  <2>1. PICK r \in Threads, n \in Nodes, t \in Torrents : Announce(r, n, t)
    BY <1>3
  <2> DEFINE q == [kind |-> "announce", node |-> n, torrent |-> t,
                   id |-> client[n]]
  <2>2. q \in Announces /\ Home[q.id] = q.node
    BY <1>0, <1>s, <2>1 DEF Announce, Announces
  <2>3. Takes(r, q, "eliminate") /\ UNCHANGED <<clientVars, trackerVars, sent>>
    BY <2>1 DEF Announce
  <2> HIDE DEF q
  <2> QED
    BY <1>0, <1>s, <2>2, <2>3, TakesShape
    DEF Takes, clientVars, trackerVars, IType, TypeOK, Shape
<1>4. CASE \E r \in Threads, q \in sent : Receive(r, q)
  <2>1. PICK r \in Threads, q \in sent : Receive(r, q)
    BY <1>4
  <2>2. /\ q \in Infos /\ Home[q.id] # q.node /\ Takes(r, q, "eliminate")
        /\ UNCHANGED <<clientVars, trackerVars>> /\ sent' = sent \ {q}
    BY <1>0, <1>s, <2>1 DEF Receive
  <2> QED
    BY <1>0, <1>s, <2>2, TakesShape
    DEF Takes, clientVars, trackerVars, IType, TypeOK, Shape
<1>5. CASE \E r \in Threads, n \in Nodes, m \in Nodes : Answer(r, n, m)
  <2>1. PICK r \in Threads, n \in Nodes, m \in Nodes : Answer(r, n, m)
    BY <1>5
  <2>2. PICK t \in Torrents, i \in Ids :
            /\ i \in torrent_peers[m][t] \cap peers_map[m]
            /\ Home[i] # n
            /\ Takes(r, [kind |-> "found", node |-> n, torrent |-> t, id |-> i],
                     "merge")
    BY <1>0, <2>1 DEF Answer
  <2> DEFINE q == [kind |-> "found", node |-> n, torrent |-> t, id |-> i]
  <2>3. q \in Founds /\ Home[q.id] # q.node
    BY <1>0, <2>2 DEF Founds
  <2>4. Takes(r, q, "merge") /\ UNCHANGED <<clientVars, trackerVars, sent>>
    BY <2>1, <2>2 DEF Answer
  <2> HIDE DEF q
  <2> QED
    BY <1>0, <1>s, <2>3, <2>4, TakesShape
    DEF Takes, clientVars, trackerVars, IType, TypeOK, Shape
<1>6. CASE \E r \in Threads : Eliminate(r)
  <2>1. PICK r \in Threads : Eliminate(r)
    BY <1>6
  <2>2. At(r, "eliminate") /\ victim[r] = NoId /\ pi[r] = NoId
    BY <1>0, <1>s, <2>1 DEF Eliminate, At, ShapeOf, NoPointer
  <2>3. CASE Others(request[r]) = {}
    <3>1. /\ GoTo(r, "find")
          /\ UNCHANGED <<clientVars, trackerVars, sent, request, victim, pi>>
      BY <2>1, <2>3 DEF Eliminate, trackerVars
    <3>2. (\A x \in Threads : ShapeOf(x)') /\ place' \in [Threads -> Places]
      BY <2>2, <3>1, GoesShape DEF Entering, At
    <3>3. \A x \in Threads : At(x, "drop")' <=> victim'[x] # NoId
      BY <1>0, <2>2, <3>1 DEF At, GoTo
    <3> QED
      BY <1>0, <1>s, <3>1, <3>2, <3>3
      DEF clientVars, trackerVars, IType, TypeOK, Shape
  <2>4. CASE Others(request[r]) # {}
    <3>1. PICK i \in Others(request[r]) :
              /\ peers_map' = [peers_map EXCEPT ![Node(r)] = @ \ {i}]
              /\ victim' = [victim EXCEPT ![r] = i]
              /\ Deleted(Node(r), i)
              /\ GoTo(r, "drop")
              /\ UNCHANGED <<clientVars, torrent_peers, stuck, sent, request>>
      BY <2>1, <2>4 DEF Eliminate
    <3>2. i \in Ids /\ i # NoId
      <4>1. i \in peers_map[Node(r)] /\ Node(r) \in Nodes
        BY <2>2, <3>1, Serving DEF Others, Node, At
      <4> QED
        BY <1>0, <4>1, NoIdAssumption
    <3>3. /\ \A x \in Threads : x # r =>
               pi'[x] = pi[x] \/ (pi'[x] = Freed /\ pi[x] # NoId)
          /\ pi'[r] = NoId
          /\ pi' \in [Threads -> Ids \cup {NoId, Freed}]
      BY <1>0, <2>2, <3>1, <3>2 DEF Deleted
    <3>4. (\A x \in Threads : ShapeOf(x)') /\ place' \in [Threads -> Places]
      BY <2>2, <3>1, <3>3, GoesShape DEF Entering, At
    <3>5. /\ \A x \in Threads : At(x, "drop")' <=> victim'[x] # NoId
          /\ victim' \in [Threads -> Ids \cup {NoId}]
      BY <1>0, <2>2, <3>1, <3>2 DEF At, GoTo
    <3>6. peers_map' \in [Nodes -> SUBSET Ids]
      BY <1>0, <3>1
    <3> QED
      BY <1>0, <1>s, <3>1, <3>3, <3>4, <3>5, <3>6
      DEF clientVars, IType, TypeOK, Shape
  <2> QED
    BY <2>3, <2>4
<1>7. CASE \E r \in Threads : Drop(r)
  <2>1. PICK r \in Threads : Drop(r)
    BY <1>7
  <2>2. /\ At(r, "drop") /\ pi[r] = NoId /\ GoTo(r, "find")
        /\ UNCHANGED <<request, pi>>
    BY <1>s, <2>1 DEF Drop, At, ShapeOf, NoPointer
  <2>3. (\A x \in Threads : ShapeOf(x)') /\ place' \in [Threads -> Places]
    BY <2>2, GoesShape DEF Entering, At
  <2>4. /\ \A x \in Threads : At(x, "drop")' <=> victim'[x] # NoId
        /\ victim' \in [Threads -> Ids \cup {NoId}]
    BY <1>0, <2>1 DEF Drop, At, GoTo
  <2>5. torrent_peers' \in [Nodes -> [Torrents -> SUBSET Ids]]
    <3>1. Node(r) \in Nodes /\ request[r].torrent \in Torrents
      BY <2>2, Serving DEF At
    <3> DEFINE L == torrent_peers[Node(r)][request[r].torrent] \ {victim[r]}
    <3>2. L \in SUBSET Ids
      BY <1>0, <3>1
    <3>3. torrent_peers' = [torrent_peers EXCEPT ![Node(r)][request[r].torrent] = L]
      BY <2>1 DEF Drop
    <3> HIDE DEF L
    <3> QED
      BY <1>0, <3>1, <3>2, <3>3, ListsChange
  <2> QED
    BY <1>0, <1>s, <2>1, <2>3, <2>4, <2>5
    DEF Drop, clientVars, IType, TypeOK, Shape
<1>8. CASE \E r \in Threads : Find(r)
  <2>1. PICK r \in Threads : Find(r)
    BY <1>8
  <2>2. At(r, "find") /\ Node(r) \in Nodes /\ Id(r) \in Ids /\ GoTo(r, "record")
        /\ UNCHANGED <<clientVars, peers_map, torrent_peers, sent, request, victim>>
    BY <2>1, Serving DEF Find, At
  <2>3. /\ pi' \in [Threads -> Ids \cup {NoId, Freed}]
        /\ \A x \in Threads : x # r => pi'[x] = pi[x]
        /\ stuck' \in [Nodes -> BOOLEAN]
    BY <1>0, <2>1, <2>2, PeerKnownAssumption DEF Find, Hops
  <2>4. (\A x \in Threads : ShapeOf(x)') /\ place' \in [Threads -> Places]
    <3>1. UNCHANGED request
      BY <2>2
    <3> QED
      BY <2>2, <2>3, <3>1, GoesShape DEF Entering, At, NoPointer
  <2>5. \A x \in Threads : At(x, "drop")' <=> victim'[x] # NoId
    BY <1>0, <2>2 DEF At, GoTo
  <2> QED
    BY <1>0, <1>s, <2>2, <2>3, <2>4, <2>5 DEF clientVars, IType, TypeOK, Shape
<1>9. CASE \E r \in Threads : Record(r)
  <2>1. PICK r \in Threads : Record(r)
    BY <1>9
  <2>2. At(r, "record") /\ Node(r) \in Nodes /\ Id(r) \in Ids /\ GoTo(r, "join")
        /\ UNCHANGED <<clientVars, torrent_peers, stuck, sent, request, victim>>
    BY <2>1, Serving DEF Record, At
  <2>3. /\ pi' \in [Threads -> Ids \cup {NoId, Freed}]
        /\ \A x \in Threads : x # r => pi'[x] = pi[x]
        /\ peers_map' \in [Nodes -> SUBSET Ids]
    <3>1. CASE pi[r] = NoId
      <4>1. /\ peers_map' = [peers_map EXCEPT ![Node(r)] =
                                peers_map[Node(r)] \cup {Id(r)}]
            /\ pi' = [pi EXCEPT ![r] = Id(r)]
        BY <2>1, <3>1 DEF Record
      <4>2. peers_map[Node(r)] \cup {Id(r)} \in SUBSET Ids
        BY <1>0, <2>2
      <4>3. peers_map' \in [Nodes -> SUBSET Ids]
        BY <1>0, <4>1, <4>2
      <4> QED
        BY <1>0, <2>2, <4>1, <4>3
    <3>2. CASE pi[r] # NoId
      BY <1>0, <2>1, <3>2 DEF Record
    <3> QED
      BY <3>1, <3>2
  <2>4. (\A x \in Threads : ShapeOf(x)') /\ place' \in [Threads -> Places]
    <3>1. UNCHANGED request
      BY <2>2
    <3> QED
      BY <2>2, <2>3, <3>1, GoesShape DEF Entering, At, NoPointer
  <2>5. \A x \in Threads : At(x, "drop")' <=> victim'[x] # NoId
    BY <1>0, <2>2 DEF At, GoTo
  <2> QED
    BY <1>0, <1>s, <2>2, <2>3, <2>4, <2>5 DEF clientVars, IType, TypeOK, Shape
<1>10. CASE \E r \in Threads : Join(r)
  <2>1. PICK r \in Threads : Join(r)
    BY <1>10
  <2>2. /\ At(r, "join") /\ Node(r) \in Nodes /\ Id(r) \in Ids /\ Joined(r)
        /\ request[r] \in Announces \cup Infos
        /\ UNCHANGED <<clientVars, peers_map, stuck, sent>>
    BY <1>s, <2>1, Serving DEF Join, At, ShapeOf, Entering
  <2>3. torrent_peers' \in [Nodes -> [Torrents -> SUBSET Ids]]
    <3>1. request[r].torrent \in Torrents
      BY <2>2, Serving DEF At
    <3> DEFINE L == torrent_peers[Node(r)][request[r].torrent] \cup {Id(r)}
    <3>2. L \in SUBSET Ids
      BY <1>0, <2>2, <3>1
    <3>3. torrent_peers' = [torrent_peers EXCEPT ![Node(r)][request[r].torrent] = L]
      BY <2>2 DEF Joined
    <3> HIDE DEF L
    <3> QED
      BY <1>0, <2>2, <3>1, <3>2, <3>3, ListsChange
  <2>4. /\ \A x \in Threads : ShapeOf(x)'
        /\ place' \in [Threads -> Places]
        /\ request' \in [Threads -> Announces \cup Infos \cup Founds \cup {NoRequest}]
        /\ victim' \in [Threads -> Ids \cup {NoId}]
        /\ pi' \in [Threads -> Ids \cup {NoId, Freed}]
        /\ \A x \in Threads : At(x, "drop")' <=> victim'[x] # NoId
    <3>1. CASE request[r].kind = "announce"
      <4>1. /\ request[r] \in Announces /\ GoTo(r, "send")
            /\ UNCHANGED <<request, victim, pi>>
        BY <2>1, <2>2, <3>1, Kinds DEF Join
      <4>2. (\A x \in Threads : ShapeOf(x)') /\ place' \in [Threads -> Places]
        BY <2>2, <4>1, GoesShape DEF NoPointer
      <4>3. \A x \in Threads : At(x, "drop")' <=> victim'[x] # NoId
        BY <1>0, <2>2, <4>1 DEF At, GoTo
      <4> QED
        BY <1>0, <4>1, <4>2, <4>3
    <3>2. CASE request[r].kind # "announce"
      BY <2>1, <3>2, EndsShape DEF Join
    <3> QED
      BY <3>1, <3>2
  <2> QED
    BY <1>0, <1>s, <2>2, <2>3, <2>4 DEF clientVars, IType, TypeOK, Shape
<1>11. CASE \E r \in Threads : Merge(r)
  <2>1. PICK r \in Threads : Merge(r)
    BY <1>11
  <2>2. /\ At(r, "merge") /\ Node(r) \in Nodes /\ Id(r) \in Ids /\ Joined(r)
        /\ GoTo(r, "add") /\ pi[r] = NoId
        /\ UNCHANGED <<clientVars, peers_map, stuck, sent, request, victim, pi>>
    BY <1>s, <2>1, Serving DEF Merge, At, ShapeOf, NoPointer
  <2>3. torrent_peers' \in [Nodes -> [Torrents -> SUBSET Ids]]
    <3>1. request[r].torrent \in Torrents
      BY <2>2, Serving DEF At
    <3> DEFINE L == torrent_peers[Node(r)][request[r].torrent] \cup {Id(r)}
    <3>2. L \in SUBSET Ids
      BY <1>0, <2>2, <3>1
    <3>3. torrent_peers' = [torrent_peers EXCEPT ![Node(r)][request[r].torrent] = L]
      BY <2>2 DEF Joined
    <3> HIDE DEF L
    <3> QED
      BY <1>0, <2>2, <3>1, <3>2, <3>3, ListsChange
  <2>4. (\A x \in Threads : ShapeOf(x)') /\ place' \in [Threads -> Places]
    BY <2>2, GoesShape
  <2>5. \A x \in Threads : At(x, "drop")' <=> victim'[x] # NoId
    BY <1>0, <2>2 DEF At, GoTo
  <2> QED
    BY <1>0, <1>s, <2>2, <2>3, <2>4, <2>5 DEF clientVars, IType, TypeOK, Shape
<1>12. CASE \E r \in Threads : Add(r)
  <2>1. PICK r \in Threads : Add(r)
    BY <1>12
  <2>2. Node(r) \in Nodes /\ Id(r) \in Ids
    BY <2>1, Serving DEF Add, At
  <2>3. peers_map' \in [Nodes -> SUBSET Ids] /\ stuck' \in [Nodes -> BOOLEAN]
    BY <1>0, <2>1, <2>2, PeerKnownAssumption DEF Add, Hops
  <2> QED
    BY <1>0, <1>s, <2>1, <2>3, EndsShape DEF Add, clientVars, IType, TypeOK, Shape
<1>13. CASE \E r \in Threads : \E dest \in Dests(r) :
               At(r, "send") /\ Send(r, dest)
  <2>1. PICK r \in Threads, dest \in SUBSET Nodes :
            /\ dest \in SUBSET (Nodes \ {Node(r)})
            /\ At(r, "send") /\ Send(r, dest)
    BY <1>13 DEF Dests
  <2>2. /\ Node(r) \in Nodes /\ Id(r) \in Ids /\ request[r].torrent \in Torrents
        /\ Home[Id(r)] = Node(r)
    BY <1>s, <2>1, Serving DEF At, ShapeOf
  <2>3. told' \in [Nodes -> SUBSET Torrents]
    BY <1>0, <2>1, <2>2 DEF Send
  <2>4. sent' \subseteq Infos /\ \A q \in sent' : Home[q.id] # q.node
    <3>1. ASSUME NEW q \in [kind : {"info"}, node : dest,
                            torrent : {request[r].torrent}, id : {Id(r)}]
          PROVE  q \in Infos /\ Home[q.id] # q.node
      BY <2>1, <2>2 DEF Infos
    <3> QED
      BY <1>0, <1>s, <2>1, <3>1 DEF Send
  <2> QED
    BY <1>0, <1>s, <2>1, <2>3, <2>4, EndsShape
    DEF Send, trackerVars, IType, TypeOK, Shape
<1> QED
  BY <1>1, <1>2, <1>3, <1>4, <1>5, <1>6, <1>7, <1>8, <1>9, <1>10, <1>11, <1>12,
     <1>13, Cases

(* The type invariant.                                                     *)
THEOREM Types == Spec => []TypeOK
<1>1. Init => IType
  BY InitType
<1>2. IType /\ [Next]_vars => IType'
  BY TypeStep
<1>3. IType => TypeOK
  BY DEF IType
<1> QED
  BY <1>1, <1>2, <1>3, PTL DEF Spec

-----------------------------------------------------------------------------
(* Whom a thread deletes is not the client that runs on the node, unless   *)
(* that was late: an announce that is still to choose is one of that       *)
(* client, and a t2t-info is about the client of another node.             *)
LEMMA NotTheClient ==
    ASSUME IType, IOwn, NEW r \in Threads, At(r, "eliminate"),
           NEW i \in Others(request[r])
    PROVE  /\ client[Node(r)] \notin late => i # client[Node(r)]
           /\ i \in peers_map[Node(r)] /\ i \in Ids
<1>1. /\ request[r] \in Announces \cup Infos /\ Node(r) \in Nodes
      /\ request[r] \in Announces => Home[Id(r)] = Node(r)
      /\ request[r] \in Infos => Home[Id(r)] # Node(r)
  BY Serving DEF IType, Shape, ShapeOf, At, Entering
<1>2. i \in peers_map[Node(r)] /\ Home[i] = Home[Id(r)]
      /\ (request[r].kind = "announce" => i # Id(r))
  BY DEF Others, Node, Id
<1>3. i \in Ids /\ client[Node(r)] \in Ids \cup {NoId}
  BY <1>1, <1>2 DEF IType, TypeOK
<1>4. client[Node(r)] # NoId =>
          /\ Home[client[Node(r)]] = Node(r)
          /\ request[r] \in Announces /\ client[Node(r)] \notin late
             => Id(r) = client[Node(r)]
  BY <1>1 DEF IType, Shape, IOwn, Spared
<1>5. CASE client[Node(r)] = NoId
  BY <1>2, <1>3, <1>5, NoIdAssumption
<1>6. CASE client[Node(r)] # NoId
  BY <1>1, <1>2, <1>3, <1>4, <1>6, Kinds
<1> QED
  BY <1>5, <1>6

(* Steps that leave the clients alone, and those that run where they are,  *)
(* keep what is known of the clients.                                      *)
ClientsStay ==
    /\ UNCHANGED <<client, late>>
    /\ \A n \in Nodes : client[n] \notin late =>
          /\ client[n] \in peers_map[n] => client[n] \in peers_map'[n]
          /\ \A t \in Torrents : client[n] \in torrent_peers[n][t]
                                 => client[n] \in torrent_peers'[n][t]

\* While the entries of running clients stay, what clients were promised holds.
LEMMA KnownStays ==
    ASSUME IType, IOwn, ClientsStay, UNCHANGED told
    PROVE  Gone' /\ OwnClientKnown'
<1>1. Gone'
  BY DEF IOwn, Gone, ClientsStay
<1>2. \A n \in Nodes : told[n] \subseteq Torrents
  BY DEF IType, TypeOK
<1> QED
  BY <1>1, <1>2 DEF IOwn, OwnClientKnown, ClientsStay

(* A thread that takes a request changes nothing of this.                  *)
LEMMA OwnTakes ==
    ASSUME IType, IOwn, NEW r \in Threads, NEW q, NEW p, Takes(r, q, p),
           UNCHANGED <<clientVars, trackerVars>>, sent' \subseteq sent,
           p \in {"eliminate", "merge"},
           q.id \notin fresh,
           q \in Announces => client[q.node] = q.id
    PROVE  IOwn'
<1>1. /\ place' = [place EXCEPT ![r] = p] /\ request' = [request EXCEPT ![r] = q]
      /\ victim' = victim /\ pi' = pi /\ client' = client /\ fresh' = fresh
      /\ told' = told /\ late' = late
      /\ peers_map' = peers_map /\ torrent_peers' = torrent_peers
      /\ place \in [Threads -> Places] /\ r \in DOMAIN request
  BY DEF Takes, GoTo, clientVars, trackerVars, IType, TypeOK
<1>2. \A x \in Threads : x # r => place'[x] = place[x] /\ request'[x] = request[x]
  BY <1>1
<1>3. place'[r] = p /\ request'[r] = q
  BY <1>1
<1>4. Drawn'
  BY <1>1, <1>2, <1>3 DEF IOwn, Drawn, At, Id
<1>5. \A n \in Nodes : Spared(n)'
  BY <1>1, <1>2, <1>3 DEF IOwn, Spared, At, Id, Node
<1>6. \A x \in Threads : Recorded(x)'
  BY <1>1, <1>2, <1>3 DEF IOwn, Recorded, At, Id, Node
<1>7. Gone' /\ OwnClientKnown'
  BY <1>1, KnownStays DEF ClientsStay
<1> QED
  BY <1>4, <1>5, <1>6, <1>7 DEF IOwn

(* A thread that goes on, past the deletions, or ends.                     *)
LEMMA OwnGoes ==
    ASSUME IType, IOwn, NEW r \in Threads, ClientsStay, UNCHANGED fresh,
           \A x \in Threads : x # r =>
               /\ place'[x] = place[x] /\ request'[x] = request[x]
               /\ victim'[x] = victim[x] /\ pi'[x] = pi[x],
           place[r] # "free", place'[r] \notin {"eliminate", "drop"},
           place'[r] = "free" \/ request'[r] = request[r],
           victim'[r] = victim[r] \/ victim'[r] = NoId,
           \A q \in sent' : q.id \notin fresh,
           \A n \in Nodes : peers_map'[n] \cap fresh = {},
           Recorded(r)', Gone', OwnClientKnown'
    PROVE  IOwn'
<1>1. NoId \notin fresh
  BY NoIdAssumption DEF IType, TypeOK
<1>2. Drawn'
  BY <1>1 DEF IOwn, Drawn, At, Id, ClientsStay
<1>3. \A n \in Nodes : Spared(n)'
  BY DEF IOwn, Spared, At, Id, Node, ClientsStay
<1>4. ASSUME NEW x \in Threads PROVE Recorded(x)'
  <2>1. CASE x # r
    <3>1. request[x] \in Announces =>
              Node(x) \in Nodes /\ request[x].torrent \in Torrents
      BY Kinds DEF Node
    <3> QED
      BY <2>1, <3>1 DEF IOwn, Recorded, At, Id, Node, ClientsStay
  <2> QED
    BY <2>1
<1> QED
  BY <1>2, <1>3, <1>4 DEF IOwn

\* Every step keeps the invariant of the own clients.
LEMMA OwnStep ==
    ASSUME IType, IType', IOwn, [Next]_vars
    PROVE  IOwn'
<1>0. /\ client \in [Nodes -> Ids \cup {NoId}] /\ fresh \subseteq Ids
      /\ NoId \notin Ids /\ NoId \notin fresh
      /\ told \in [Nodes -> SUBSET Torrents]
      /\ peers_map \in [Nodes -> SUBSET Ids]
      /\ torrent_peers \in [Nodes -> [Torrents -> SUBSET Ids]]
      /\ place \in [Threads -> Places]
      /\ request \in [Threads -> Announces \cup Infos \cup Founds \cup {NoRequest}]
      /\ victim \in [Threads -> Ids \cup {NoId}]
      /\ pi \in [Threads -> Ids \cup {NoId, Freed}]
  BY NoIdAssumption DEF IType, TypeOK
<1>s. \A r \in Threads : ShapeOf(r)
  BY DEF IType, Shape
<1>i. /\ Drawn /\ Gone /\ OwnClientKnown
      /\ \A n \in Nodes : Spared(n)
      /\ \A r \in Threads : Recorded(r)
  BY DEF IOwn
<1>1. CASE UNCHANGED vars
  BY <1>1 DEF vars, clientVars, trackerVars, threadVars, IOwn, Drawn, Spared,
              Recorded, Gone, OwnClientKnown, At, Id, Node
<1>2. CASE \E n \in Nodes : Start(n)
  <2>1. PICK n \in Nodes, i \in fresh :
            /\ client[n] = NoId
            /\ client' = [client EXCEPT ![n] = i] /\ fresh' = fresh \ {i}
            /\ late' = IF Begun(n) THEN late ELSE late \cup {i}
            /\ UNCHANGED <<told, trackerVars, sent, threadVars>>
    BY <1>2 DEF Start
  <2>2. /\ client'[n] = i /\ \A m \in Nodes : m # n => client'[m] = client[m]
        /\ late \subseteq late' /\ (i \notin late' => Begun(n))
    BY <1>0, <2>1
  <2>3. Drawn'
    BY <1>i, <2>1, <2>2 DEF Drawn, trackerVars, threadVars, At, Id
  <2>4. ASSUME NEW m \in Nodes PROVE Spared(m)'
    <3>1. CASE m = n
      <4>1. ASSUME i \notin late', NEW r \in Threads, At(r, "eliminate"),
                   request[r] \in Announces
            PROVE  Node(r) # n
        BY <2>2, <4>1, Kinds DEF Begun
      <4>2. \A r \in Threads : victim[r] # i
        BY <1>i, <2>1 DEF Drawn
      <4> QED
        BY <2>1, <2>2, <3>1, <4>1, <4>2 DEF Spared, threadVars, At, Node, Id
    <3>2. CASE m # n
      BY <1>i, <2>1, <2>2, <3>2 DEF Spared, threadVars, At, Node, Id
    <3> QED
      BY <3>1, <3>2
  <2>5. ASSUME NEW r \in Threads PROVE Recorded(r)'
    <3>1. request[r] \in Announces => Node(r) \in Nodes /\ Id(r) # i
      BY <1>i, <1>s, <2>1, Kinds DEF Drawn, ShapeOf, At, Node
    <3> QED
      BY <1>i, <2>1, <2>2, <3>1
      DEF Recorded, trackerVars, threadVars, At, Node, Id
  <2>6. Gone' /\ OwnClientKnown'
    BY <1>i, <2>1, <2>2 DEF Gone, OwnClientKnown, trackerVars
  <2> QED
    BY <2>3, <2>4, <2>5, <2>6 DEF IOwn
<1>3. CASE \E n \in Nodes : Quit(n)
  <2>1. PICK n \in Nodes :
            /\ client' = [client EXCEPT ![n] = NoId]
            /\ told' = [told EXCEPT ![n] = {}]
            /\ UNCHANGED <<fresh, late, trackerVars, sent, threadVars>>
    BY <1>3 DEF Quit
  <2>2. /\ client'[n] = NoId /\ told'[n] = {}
        /\ \A m \in Nodes : m # n => client'[m] = client[m] /\ told'[m] = told[m]
    BY <1>0, <2>1
  <2>3. Drawn'
    BY <1>i, <2>1, <2>2 DEF Drawn, trackerVars, threadVars, At, Id
  <2>4. \A m \in Nodes : Spared(m)'
    BY <1>i, <2>1, <2>2 DEF Spared, threadVars, At, Node, Id
  <2>5. ASSUME NEW r \in Threads PROVE Recorded(r)'
    <3>1. request[r] \in Announces => Node(r) \in Nodes /\ Id(r) # NoId
      BY <1>0, Kinds DEF Node, Id
    <3> QED
      BY <1>i, <2>1, <2>2, <3>1
      DEF Recorded, trackerVars, threadVars, At, Node, Id
  <2>6. Gone' /\ OwnClientKnown'
    BY <1>i, <2>1, <2>2 DEF Gone, OwnClientKnown, trackerVars
  <2> QED
    BY <2>3, <2>4, <2>5, <2>6 DEF IOwn
<1>4. CASE \E r \in Threads, n \in Nodes, t \in Torrents : Announce(r, n, t)
  <2>1. PICK r \in Threads, n \in Nodes, t \in Torrents : Announce(r, n, t)
    BY <1>4
  <2> DEFINE q == [kind |-> "announce", node |-> n, torrent |-> t,
                   id |-> client[n]]
  <2>2. /\ Takes(r, q, "eliminate") /\ UNCHANGED <<clientVars, trackerVars>>
        /\ sent' \subseteq sent /\ q.id \notin fresh /\ client[q.node] = q.id
    BY <1>i, <2>1 DEF Announce, Drawn
  <2> HIDE DEF q
  <2> QED
    BY <2>2, OwnTakes
<1>5. CASE \E r \in Threads, q \in sent : Receive(r, q)
  <2>1. PICK r \in Threads, q \in sent : Receive(r, q)
    BY <1>5
  <2>2. /\ Takes(r, q, "eliminate") /\ UNCHANGED <<clientVars, trackerVars>>
        /\ sent' \subseteq sent /\ q.id \notin fresh
    BY <1>i, <2>1 DEF Receive, Drawn
  <2>3. q \notin Announces
    BY Kinds DEF IType, TypeOK
  <2> QED
    BY <2>2, <2>3, OwnTakes
<1>6. CASE \E r \in Threads, n \in Nodes, m \in Nodes : Answer(r, n, m)
  <2>1. PICK r \in Threads, n \in Nodes, m \in Nodes : Answer(r, n, m)
    BY <1>6
  <2>2. PICK t \in Torrents, i \in Ids :
            /\ i \in torrent_peers[m][t] \cap peers_map[m]
            /\ Home[i] # n
            /\ Takes(r, [kind |-> "found", node |-> n, torrent |-> t, id |-> i],
                     "merge")
    BY <1>0, <2>1 DEF Answer
  <2> DEFINE q == [kind |-> "found", node |-> n, torrent |-> t, id |-> i]
  <2>3. /\ Takes(r, q, "merge") /\ UNCHANGED <<clientVars, trackerVars>>
        /\ sent' \subseteq sent /\ q.id \notin fresh
    BY <1>i, <2>1, <2>2 DEF Answer, Drawn
  <2>4. q \notin Announces
    BY DEF Announces
  <2> HIDE DEF q
  <2> QED
    BY <2>3, <2>4, OwnTakes
<1>7. CASE \E r \in Threads : Eliminate(r)
  <2>1. PICK r \in Threads : Eliminate(r)
    BY <1>7
  <2>2. At(r, "eliminate") /\ UNCHANGED <<clientVars, torrent_peers, stuck, sent, request>>
    BY <2>1 DEF Eliminate
  <2>3. CASE Others(request[r]) = {}
    <3>1. place' = [place EXCEPT ![r] = "find"] /\ UNCHANGED <<peers_map, victim, pi>>
      BY <2>1, <2>3 DEF Eliminate, GoTo
    <3>2. Drawn'
      BY <1>0, <1>i, <2>2, <3>1 DEF Drawn, clientVars, At, Id
    <3>3. \A n \in Nodes : Spared(n)'
      BY <1>0, <1>i, <2>2, <3>1 DEF Spared, clientVars, At, Node, Id
    <3>4. \A x \in Threads : Recorded(x)'
      BY <1>0, <1>i, <2>2, <3>1 DEF Recorded, clientVars, At, Node, Id
    <3>5. Gone' /\ OwnClientKnown'
      BY <1>i, <2>2, <3>1 DEF Gone, OwnClientKnown, clientVars
    <3> QED
      BY <3>2, <3>3, <3>4, <3>5 DEF IOwn
  <2>4. CASE Others(request[r]) # {}
    <3>1. PICK i \in Others(request[r]) :
              /\ peers_map' = [peers_map EXCEPT ![Node(r)] = @ \ {i}]
              /\ victim' = [victim EXCEPT ![r] = i]
              /\ Deleted(Node(r), i)
              /\ place' = [place EXCEPT ![r] = "drop"]
      BY <2>1, <2>4 DEF Eliminate, GoTo
    <3>2. /\ client[Node(r)] \notin late => i # client[Node(r)]
          /\ i \in peers_map[Node(r)] /\ i \in Ids
      BY <2>2, <3>1, NotTheClient
    <3>3. Node(r) \in Nodes
      BY <2>2, Serving DEF At
    <3>4. /\ place'[r] = "drop" /\ victim'[r] = i
          /\ \A x \in Threads : x # r => place'[x] = place[x] /\ victim'[x] = victim[x]
      BY <1>0, <3>1
    <3>5. \A n \in Nodes : peers_map'[n] = IF n = Node(r) THEN peers_map[n] \ {i}
                                           ELSE peers_map[n]
      BY <1>0, <3>1, <3>3
    <3>6. Drawn'
      BY <1>0, <1>i, <2>2, <3>2, <3>3, <3>4, <3>5 DEF Drawn, clientVars, At, Id
    <3>7. \A n \in Nodes : Spared(n)'
      BY <1>i, <2>2, <3>2, <3>4 DEF Spared, clientVars, At, Node, Id
    <3>8. ASSUME NEW x \in Threads PROVE Recorded(x)'
      <4>1. CASE /\ request[x] \in Announces /\ client[Node(x)] = Id(x)
                 /\ Id(x) \notin late
        <5>1. Node(x) \in Nodes /\ Id(x) # NoId
          BY <1>0, <4>1, Kinds DEF Node, Id
        <5>2. Id(x) # i \/ Node(x) # Node(r)
          BY <3>2, <4>1
        <5>3. pi[x] = Id(x) => pi'[x] = Id(x)
          BY <3>1, <5>2 DEF Deleted
        <5>4. pi[x] = NoId => pi'[x] = NoId
          BY <1>0, <3>1, <3>2 DEF Deleted
        <5>5. Id(x) \in peers_map[Node(x)] => Id(x) \in peers_map'[Node(x)]
          BY <3>5, <5>1, <5>2
        <5> QED
          BY <1>i, <2>2, <3>4, <4>1, <5>3, <5>4, <5>5
          DEF Recorded, clientVars, At, Node, Id
      <4>2. CASE ~(/\ request[x] \in Announces /\ client[Node(x)] = Id(x)
                   /\ Id(x) \notin late)
        BY <2>2, <4>2 DEF Recorded, clientVars, Node, Id
      <4> QED
        BY <4>1, <4>2
    <3>9. ClientsStay
      BY <2>2, <3>2, <3>5 DEF ClientsStay, clientVars
    <3>10. Gone' /\ OwnClientKnown'
      BY <2>2, <3>9, KnownStays DEF clientVars
    <3> QED
      BY <3>6, <3>7, <3>8, <3>10 DEF IOwn
  <2> QED
    BY <2>3, <2>4
<1>8. CASE \E r \in Threads : Drop(r)
  <2>1. PICK r \in Threads : Drop(r)
    BY <1>8
  <2>2. /\ At(r, "drop") /\ place' = [place EXCEPT ![r] = "find"]
        /\ victim' = [victim EXCEPT ![r] = NoId]
        /\ UNCHANGED <<clientVars, peers_map, sent, request, pi>>
    BY <2>1 DEF Drop, GoTo
  <2>3. Node(r) \in Nodes /\ request[r].torrent \in Torrents
    BY <2>2, Serving DEF At
  <2> DEFINE L == torrent_peers[Node(r)][request[r].torrent] \ {victim[r]}
  <2>4. L \in SUBSET Ids
        /\ torrent_peers' = [torrent_peers EXCEPT ![Node(r)][request[r].torrent] = L]
    BY <1>0, <2>1, <2>3 DEF Drop
  <2>5. /\ \A n \in Nodes, t \in Torrents :
              torrent_peers'[n][t] = IF n = Node(r) /\ t = request[r].torrent
                                     THEN L ELSE torrent_peers[n][t]
    <3> HIDE DEF L
    <3> QED
      BY <1>0, <2>3, <2>4, ListsChange
  <2>6. client[Node(r)] # NoId /\ client[Node(r)] \notin late
           => victim[r] # client[Node(r)]
    BY <1>i, <2>2, <2>3 DEF Spared
  <2>7. victim[r] # NoId
    BY <2>2 DEF IType, TypeOK
  <2>8. ClientsStay
    BY <2>2, <2>5, <2>6, <2>7 DEF ClientsStay, clientVars
  <2>9. Gone' /\ OwnClientKnown'
    BY <2>2, <2>8, KnownStays DEF clientVars
  <2>10. place'[r] = "find" /\ victim'[r] = NoId
    BY <1>0, <2>2
  <2>11. Recorded(r)'
    BY <2>10 DEF Recorded, At
  <2> QED
    BY <1>0, <1>i, <2>2, <2>8, <2>9, <2>10, <2>11, OwnGoes
    DEF clientVars, Drawn, At
<1>9. CASE \E r \in Threads : Find(r)
  <2>1. PICK r \in Threads : Find(r)
    BY <1>9
  <2>2. /\ At(r, "find") /\ place' = [place EXCEPT ![r] = "record"]
        /\ UNCHANGED <<clientVars, peers_map, torrent_peers, sent, request, victim>>
    BY <2>1 DEF Find, GoTo
  <2>3. pi[r] = NoId
    BY <1>s, <2>2 DEF ShapeOf, At, NoPointer
  <2>4. /\ \A x \in Threads : x # r => pi'[x] = pi[x]
        /\ pi'[r] = NoId \/ (pi'[r] = Id(r) /\ Id(r) \in peers_map[Node(r)])
    BY <1>0, <2>1, <2>3 DEF Find
  <2>5. place'[r] = "record"
    BY <1>0, <2>2
  <2>6. Recorded(r)'
    BY <1>0, <2>2, <2>4, <2>5, NoIdAssumption, Kinds
    DEF Recorded, At, Node, Id, clientVars
  <2>7. ClientsStay
    BY <2>2 DEF ClientsStay, clientVars
  <2>8. Gone' /\ OwnClientKnown'
    BY <2>2, <2>7, KnownStays DEF clientVars
  <2> QED
    BY <1>0, <1>i, <2>2, <2>4, <2>5, <2>6, <2>7, <2>8, OwnGoes
    DEF clientVars, Drawn, At
<1>10. CASE \E r \in Threads : Record(r)
  <2>1. PICK r \in Threads : Record(r)
    BY <1>10
  <2>2. /\ At(r, "record") /\ place' = [place EXCEPT ![r] = "join"]
        /\ UNCHANGED <<clientVars, torrent_peers, stuck, sent, request, victim>>
    BY <2>1 DEF Record, GoTo
  <2>3. /\ Node(r) \in Nodes /\ Id(r) \in Ids /\ Id(r) \notin fresh
        /\ request[r] \in Announces \cup Infos
    BY <1>i, <1>s, <2>2, Serving DEF At, Drawn, ShapeOf, Entering
  <2>4. /\ \A x \in Threads : x # r => pi'[x] = pi[x]
        /\ pi[r] = NoId => pi'[r] = Id(r) /\ Id(r) \in peers_map'[Node(r)]
        /\ pi[r] # NoId => pi' = pi /\ peers_map' = peers_map
        /\ \A n \in Nodes : /\ peers_map[n] \subseteq peers_map'[n]
                            /\ peers_map'[n] \subseteq peers_map[n] \cup {Id(r)}
    <3>1. CASE pi[r] = NoId
      <4>1. /\ peers_map' = [peers_map EXCEPT ![Node(r)] =
                                peers_map[Node(r)] \cup {Id(r)}]
            /\ pi' = [pi EXCEPT ![r] = Id(r)]
        BY <2>1, <3>1 DEF Record
      <4> QED
        BY <1>0, <2>3, <3>1, <4>1
    <3>2. CASE pi[r] # NoId
      BY <1>0, <2>1, <3>2 DEF Record
    <3> QED
      BY <3>1, <3>2
  <2>5. place'[r] = "join" /\ Recorded(r)
    BY <1>0, <1>i, <2>2
  <2>6. Recorded(r)'
    BY <2>2, <2>4, <2>5 DEF Recorded, At, Node, Id, clientVars
  <2>7. ClientsStay
    BY <2>2, <2>4 DEF ClientsStay, clientVars
  <2>8. Gone' /\ OwnClientKnown'
    BY <2>2, <2>7, KnownStays DEF clientVars
  <2>9. /\ \A q \in sent' : q.id \notin fresh
        /\ \A n \in Nodes : peers_map'[n] \cap fresh = {}
    BY <1>i, <2>2, <2>3, <2>4 DEF Drawn
  <2> QED
    BY <1>0, <2>2, <2>4, <2>5, <2>6, <2>7, <2>8, <2>9, OwnGoes DEF clientVars, At
<1>11. CASE \E r \in Threads : Join(r) \/ Merge(r)
  <2>1. PICK r \in Threads : Join(r) \/ Merge(r)
    BY <1>11
  <2>2. /\ place[r] \in {"join", "merge"} /\ Joined(r)
        /\ UNCHANGED <<clientVars, peers_map, stuck, sent>>
    BY <2>1 DEF Join, Merge, At
  <2>3. /\ Node(r) \in Nodes /\ Id(r) \in Ids /\ request[r].torrent \in Torrents
    BY <2>2, Serving
  <2> DEFINE L == torrent_peers[Node(r)][request[r].torrent] \cup {Id(r)}
  <2>4. /\ L \in SUBSET Ids /\ Id(r) \in L
        /\ torrent_peers' = [torrent_peers EXCEPT ![Node(r)][request[r].torrent] = L]
    BY <1>0, <2>2, <2>3 DEF Joined
  <2>5. /\ \A n \in Nodes, t \in Torrents :
              torrent_peers'[n][t] = IF n = Node(r) /\ t = request[r].torrent
                                     THEN L ELSE torrent_peers[n][t]
    <3> HIDE DEF L
    <3> QED
      BY <1>0, <2>3, <2>4, ListsChange
  <2>6. ClientsStay
    BY <2>2, <2>5 DEF ClientsStay, clientVars
  <2>7. Gone' /\ OwnClientKnown'
    BY <2>2, <2>6, KnownStays DEF clientVars
  <2>8. \/ /\ place' = [place EXCEPT ![r] = "send"] /\ At(r, "join")
           /\ UNCHANGED <<request, victim, pi>>
        \/ /\ place' = [place EXCEPT ![r] = "add"]
           /\ UNCHANGED <<request, victim, pi>>
        \/ Ends(r)
    BY <2>1 DEF Join, Merge, GoTo
  <2>9. CASE Ends(r)
    <3>1. /\ place' = [place EXCEPT ![r] = "free"]
          /\ request' = [request EXCEPT ![r] = NoRequest]
          /\ victim' = [victim EXCEPT ![r] = NoId]
          /\ pi' = [pi EXCEPT ![r] = NoId]
      BY <2>9 DEF Ends, GoTo
    <3>2. place'[r] = "free" /\ request'[r] = NoRequest /\ victim'[r] = NoId
      BY <1>0, <3>1
    <3>3. Recorded(r)'
      BY <3>2, Kinds DEF Recorded
    <3>4. \A x \in Threads : x # r =>
              /\ place'[x] = place[x] /\ request'[x] = request[x]
              /\ victim'[x] = victim[x] /\ pi'[x] = pi[x]
      BY <1>0, <3>1
    <3>5. /\ \A q \in sent' : q.id \notin fresh
          /\ \A n \in Nodes : peers_map'[n] \cap fresh = {}
      BY <1>i, <2>2 DEF Drawn
    <3> QED
      BY <2>2, <2>6, <2>7, <3>2, <3>3, <3>4, <3>5, OwnGoes DEF clientVars
  <2>10. CASE \/ /\ place' = [place EXCEPT ![r] = "send"] /\ At(r, "join")
                 /\ UNCHANGED <<request, victim, pi>>
              \/ /\ place' = [place EXCEPT ![r] = "add"]
                 /\ UNCHANGED <<request, victim, pi>>
    <3>1. /\ UNCHANGED <<request, victim, pi>>
          /\ \/ place'[r] = "send" /\ At(r, "join")
             \/ place'[r] = "add"
          /\ \A x \in Threads : x # r => place'[x] = place[x]
      BY <1>0, <2>10
    <3>2. Id(r) \in torrent_peers'[Node(r)][request[r].torrent]
      BY <2>3, <2>4, <2>5
    <3>3. Recorded(r)'
      BY <1>i, <2>2, <3>1, <3>2 DEF Recorded, At, Node, Id, clientVars
    <3>4. /\ \A q \in sent' : q.id \notin fresh
          /\ \A n \in Nodes : peers_map'[n] \cap fresh = {}
      BY <1>i, <2>2 DEF Drawn
    <3> QED
      BY <2>2, <2>6, <2>7, <3>1, <3>3, <3>4, OwnGoes DEF clientVars
  <2> QED
    BY <2>8, <2>9, <2>10
<1>12. CASE \E r \in Threads : Add(r)
  <2>1. PICK r \in Threads : Add(r)
    BY <1>12
  <2>2. /\ At(r, "add") /\ Ends(r)
        /\ peers_map' = [peers_map EXCEPT ![Node(r)] = @ \cup {Id(r)}]
        /\ UNCHANGED <<clientVars, torrent_peers, sent>>
    BY <2>1 DEF Add
  <2>3. Node(r) \in Nodes /\ Id(r) \in Ids /\ Id(r) \notin fresh
    BY <1>i, <2>2, Serving DEF At, Drawn
  <2>4. \A n \in Nodes : /\ peers_map[n] \subseteq peers_map'[n]
                         /\ peers_map'[n] \subseteq peers_map[n] \cup {Id(r)}
    BY <1>0, <2>2, <2>3
  <2>5. /\ place' = [place EXCEPT ![r] = "free"]
        /\ request' = [request EXCEPT ![r] = NoRequest]
        /\ victim' = [victim EXCEPT ![r] = NoId]
        /\ pi' = [pi EXCEPT ![r] = NoId]
    BY <2>2 DEF Ends, GoTo
  <2>6. /\ place'[r] = "free" /\ request'[r] = NoRequest /\ victim'[r] = NoId
        /\ \A x \in Threads : x # r =>
              /\ place'[x] = place[x] /\ request'[x] = request[x]
              /\ victim'[x] = victim[x] /\ pi'[x] = pi[x]
    BY <1>0, <2>5
  <2>7. Recorded(r)'
    BY <2>6, Kinds DEF Recorded
  <2>8. ClientsStay
    BY <2>2, <2>4 DEF ClientsStay, clientVars
  <2>9. Gone' /\ OwnClientKnown'
    BY <2>2, <2>8, KnownStays DEF clientVars
  <2>10. /\ \A q \in sent' : q.id \notin fresh
         /\ \A n \in Nodes : peers_map'[n] \cap fresh = {}
    BY <1>i, <2>2, <2>3, <2>4 DEF Drawn
  <2> QED
    BY <2>2, <2>6, <2>7, <2>8, <2>9, <2>10, OwnGoes DEF clientVars, At
<1>13. CASE \E r \in Threads : \E dest \in Dests(r) :
               At(r, "send") /\ Send(r, dest)
  <2>1. PICK r \in Threads, dest \in SUBSET Nodes : At(r, "send") /\ Send(r, dest)
    BY <1>13 DEF Dests
  <2>2. /\ Node(r) \in Nodes /\ Id(r) \in Ids /\ request[r].torrent \in Torrents
        /\ request[r] \in Announces /\ Id(r) \notin fresh
    BY <1>i, <1>s, <2>1, Serving DEF At, ShapeOf, Drawn
  <2>3. /\ Ends(r)
        /\ UNCHANGED <<client, fresh, late, trackerVars>>
        /\ told' = IF client[Node(r)] = Id(r)
                   THEN [told EXCEPT ![Node(r)] = @ \cup {request[r].torrent}]
                   ELSE told
    BY <2>1 DEF Send
  <2>4. /\ place' = [place EXCEPT ![r] = "free"]
        /\ request' = [request EXCEPT ![r] = NoRequest]
        /\ victim' = [victim EXCEPT ![r] = NoId]
        /\ pi' = [pi EXCEPT ![r] = NoId]
    BY <2>3 DEF Ends, GoTo
  <2>5. /\ place'[r] = "free" /\ request'[r] = NoRequest /\ victim'[r] = NoId
        /\ \A x \in Threads : x # r =>
              /\ place'[x] = place[x] /\ request'[x] = request[x]
              /\ victim'[x] = victim[x] /\ pi'[x] = pi[x]
    BY <1>0, <2>4
  <2>6. Recorded(r)'
    BY <2>5, Kinds DEF Recorded
  <2>7. ClientsStay
    BY <2>3 DEF ClientsStay, trackerVars
  <2>8. Gone' /\ OwnClientKnown'
    <3>1. CASE client[Node(r)] = Id(r)
      <4>1. told' = [told EXCEPT ![Node(r)] = @ \cup {request[r].torrent}]
        BY <2>3, <3>1
      <4>2. \A n \in Nodes : told'[n] = IF n = Node(r)
                                       THEN told[n] \cup {request[r].torrent}
                                       ELSE told[n]
        BY <1>0, <2>2, <4>1
      <4>3. /\ Id(r) \notin late =>
                  /\ Id(r) \in peers_map[Node(r)]
                  /\ Id(r) \in torrent_peers[Node(r)][request[r].torrent]
            /\ Id(r) # NoId
        BY <1>0, <1>i, <2>1, <2>2, <3>1 DEF Recorded, At
      <4>4. Gone'
        BY <1>i, <2>3, <3>1, <4>2, <4>3 DEF Gone
      <4>5. OwnClientKnown'
        BY <1>i, <2>3, <3>1, <4>2, <4>3 DEF OwnClientKnown, trackerVars
      <4> QED
        BY <4>4, <4>5
    <3>2. CASE client[Node(r)] # Id(r)
      BY <2>3, <2>7, <3>2, KnownStays
    <3> QED
      BY <3>1, <3>2
  <2>9. /\ \A q \in sent' : q.id \notin fresh
        /\ \A n \in Nodes : peers_map'[n] \cap fresh = {}
    BY <1>i, <2>1, <2>2, <2>3 DEF Send, Drawn, trackerVars
  <2> QED
    BY <2>1, <2>3, <2>5, <2>6, <2>7, <2>8, <2>9, OwnGoes DEF At
<1> QED
  BY <1>1, <1>2, <1>3, <1>4, <1>5, <1>6, <1>7, <1>8, <1>9, <1>10, <1>11, <1>12,
     <1>13, Cases

\* The invariant of the own clients holds at first.
LEMMA InitOwn == Init => IOwn
<1> SUFFICES ASSUME Init PROVE IOwn
  OBVIOUS
<1>1. Drawn
  BY NoIdAssumption DEF Init, Drawn, At
<1>2. (\A n \in Nodes : Spared(n)) /\ Gone /\ OwnClientKnown
  BY DEF Init, Spared, Gone, OwnClientKnown
<1>3. \A r \in Threads : Recorded(r)
  BY Kinds DEF Init, Recorded
<1> QED
  BY <1>1, <1>2, <1>3 DEF IOwn

(* A client that has its answer stays in its own tracker, for any number   *)
(* of concurrent requests, whatever threads of earlier clients have still  *)
(* to do, unless such a thread was before its eliminate_confusion when the *)
(* client started.  That one may take the new client out (ClientStays is   *)
(* violated in the code); this is the only way.                            *)
THEOREM OwnKnown == Spec => []OwnClientKnown
<1>1. Init => IType /\ IOwn
  BY InitType, InitOwn
<1>2. (IType /\ IOwn) /\ [Next]_vars => (IType /\ IOwn)'
  BY TypeStep, OwnStep
<1>3. IType /\ IOwn => OwnClientKnown
  BY DEF IOwn
<1> QED
  BY <1>1, <1>2, <1>3, PTL DEF Spec

(* The pointers with which answers are written are not dangling, with the  *)
(* same exception.                                                         *)
THEOREM PointersValid == Spec => []PointerValid
<1>1. Init => IType /\ IOwn
  BY InitType, InitOwn
<1>2. (IType /\ IOwn) /\ [Next]_vars => (IType /\ IOwn)'
  BY TypeStep, OwnStep
<1>3. IType /\ IOwn => PointerValid
  <2> SUFFICES ASSUME IType, IOwn, NEW r \in Threads,
                      request[r].kind = "announce", client[Node(r)] = Id(r),
                      Id(r) \notin late, place[r] \in {"join", "send"}
               PROVE  pi[r] = Id(r) /\ Id(r) \in peers_map[Node(r)]
    BY DEF PointerValid
  <2>1. request[r] \in Announces
    BY Serving, Kinds
  <2> QED
    BY <2>1 DEF IOwn, Recorded
<1> QED
  BY <1>1, <1>2, <1>3, PTL DEF Spec

-----------------------------------------------------------------------------
(* One thread moves: what it must do for the rest to be kept.              *)
LEMMA KeptGoes ==
    ASSUME NEW m \in Nodes, NEW n \in Nodes, Kept(m, n), NEW r \in Threads,
           \A x \in Threads : x # r =>
               /\ place'[x] = place[x] /\ request'[x] = request[x]
               /\ pi'[x] = NoId <=> pi[x] = NoId,
           Listed(m, n)' => \/ Listed(m, n) \/ Counting(r, m, n)
                            \/ Known(m, n)' \/ Adding(r, m, n)',
           Counting(r, m, n)' => \/ Counting(r, m, n)
                                 \/ Known(m, n)' \/ Adding(r, m, n)',
           Adding(r, m, n) => Adding(r, m, n)' \/ Known(m, n)',
           Known(m, n) => Known(m, n)' \/ Adding(r, m, n)'
    PROVE  Kept(m, n)'
<1>1. ASSUME NEW x \in Threads, x # r
      PROVE  /\ Adding(x, m, n)' <=> Adding(x, m, n)
             /\ Counting(x, m, n)' <=> Counting(x, m, n)
  BY <1>1 DEF Adding, Counting, Serves, At, Node, Id
<1>2. CASE Known(m, n)' \/ Adding(r, m, n)'
  BY <1>2 DEF Kept
<1>3. CASE ~Known(m, n)' /\ ~Adding(r, m, n)'
  <2>1. ASSUME Listed(m, n)' \/ \E x \in Threads : Counting(x, m, n)'
        PROVE  Listed(m, n) \/ \E x \in Threads : Counting(x, m, n)
    BY <1>1, <1>3, <2>1
  <2>2. ~Known(m, n) /\ ~Adding(r, m, n)
    BY <1>3
  <2>3. ASSUME \E x \in Threads : Adding(x, m, n)
        PROVE  \E x \in Threads : Adding(x, m, n)'
    BY <1>1, <2>2, <2>3
  <2> QED
    BY <2>1, <2>2, <2>3 DEF Kept
<1> QED
  BY <1>2, <1>3

(* A thread that takes a request.                                          *)
LEMMA KeptTakes ==
    ASSUME IType, NEW m \in Nodes, NEW n \in Nodes, Kept(m, n),
           NEW r \in Threads, NEW q, NEW p, Takes(r, q, p),
           p \in {"eliminate", "merge"}, UNCHANGED trackerVars
    PROVE  Kept(m, n)'
<1>1. /\ place' = [place EXCEPT ![r] = p] /\ request' = [request EXCEPT ![r] = q]
      /\ pi' = pi /\ place[r] = "free" /\ UNCHANGED <<peers_map, torrent_peers>>
      /\ place \in [Threads -> Places]
      /\ request \in [Threads -> Announces \cup Infos \cup Founds \cup {NoRequest}]
  BY DEF Takes, GoTo, At, trackerVars, IType, TypeOK
<1>2. /\ place'[r] = p
      /\ \A x \in Threads : x # r => place'[x] = place[x] /\ request'[x] = request[x]
  BY <1>1
<1>3. ~Adding(r, m, n) /\ ~Counting(r, m, n)'
  BY <1>1, <1>2 DEF Adding, Counting, Serves, At
<1>4. (Listed(m, n)' <=> Listed(m, n)) /\ (Known(m, n)' <=> Known(m, n))
  BY <1>1 DEF Listed, Known, Of
<1> QED
  BY <1>1, <1>2, <1>3, <1>4, KeptGoes

\* Every step keeps listed nodes known.
LEMMA KeptStep ==
    ASSUME IType, IKept, [Next]_vars, NEW m \in Nodes, NEW n \in Nodes
    PROVE  Kept(m, n)'
<1>0. /\ peers_map \in [Nodes -> SUBSET Ids]
      /\ torrent_peers \in [Nodes -> [Torrents -> SUBSET Ids]]
      /\ place \in [Threads -> Places]
      /\ request \in [Threads -> Announces \cup Infos \cup Founds \cup {NoRequest}]
      /\ pi \in [Threads -> Ids \cup {NoId, Freed}]
      /\ Freed # NoId /\ NoId \notin Ids
      /\ Kept(m, n)
  BY NoIdAssumption DEF IType, TypeOK, IKept
<1>s. \A r \in Threads : ShapeOf(r)
  BY DEF IType, Shape
<1>1. CASE UNCHANGED vars \/ \E x \in Nodes : Start(x) \/ Quit(x)
  <2>1. UNCHANGED <<trackerVars, threadVars>>
    BY <1>1 DEF vars, Start, Quit
  <2> QED
    BY <1>0, <2>1 DEF trackerVars, threadVars, Kept, Listed, Known, Of, Adding,
                      Counting, Serves, At, Node, Id
<1>2. CASE \/ \E r \in Threads, x \in Nodes, t \in Torrents : Announce(r, x, t)
           \/ \E r \in Threads, q \in sent : Receive(r, q)
           \/ \E r \in Threads, x \in Nodes, y \in Nodes : Answer(r, x, y)
  <2>1. ASSUME NEW r \in Threads, NEW x \in Nodes, NEW t \in Torrents,
               Announce(r, x, t)
        PROVE  Kept(m, n)'
    BY <1>0, <2>1, KeptTakes DEF Announce
  <2>2. ASSUME NEW r \in Threads, NEW q \in sent, Receive(r, q)
        PROVE  Kept(m, n)'
    BY <1>0, <2>2, KeptTakes DEF Receive
  <2>3. ASSUME NEW r \in Threads, NEW x \in Nodes, NEW y \in Nodes,
               Answer(r, x, y)
        PROVE  Kept(m, n)'
    BY <1>0, <2>3, KeptTakes DEF Answer
  <2> QED
    BY <1>2, <2>1, <2>2, <2>3
<1>3. CASE \E r \in Threads : Eliminate(r)
  <2>1. PICK r \in Threads : Eliminate(r)
    BY <1>3
  <2>2. At(r, "eliminate") /\ UNCHANGED <<torrent_peers, request>>
    BY <2>1 DEF Eliminate
  <2>3. /\ ~Adding(r, m, n) /\ (Listed(m, n)' <=> Listed(m, n))
    BY <2>2 DEF Adding, At, Listed, Of
  <2>4. CASE Others(request[r]) = {}
    <3>1. place' = [place EXCEPT ![r] = "find"] /\ UNCHANGED <<peers_map, pi>>
      BY <2>1, <2>4 DEF Eliminate, GoTo
    <3>2. /\ place'[r] = "find"
          /\ \A x \in Threads : x # r => place'[x] = place[x]
      BY <1>0, <3>1
    <3>3. ~Counting(r, m, n)' /\ (Known(m, n)' <=> Known(m, n))
      BY <3>1, <3>2 DEF Counting, At, Known, Of
    <3> QED
      BY <1>0, <2>2, <2>3, <3>1, <3>2, <3>3, KeptGoes
  <2>5. CASE Others(request[r]) # {}
    <3>1. PICK i \in Others(request[r]) :
              /\ peers_map' = [peers_map EXCEPT ![Node(r)] = @ \ {i}]
              /\ Deleted(Node(r), i)
              /\ place' = [place EXCEPT ![r] = "drop"]
      BY <2>1, <2>5 DEF Eliminate, GoTo
    <3>2. /\ place'[r] = "drop"
          /\ \A x \in Threads : x # r => place'[x] = place[x]
      BY <1>0, <3>1
    <3>3. Node(r) \in Nodes /\ i \in peers_map[Node(r)] /\ Home[i] = Home[Id(r)]
      BY <2>2, <3>1, Serving DEF Others, At, Node, Id
    <3>4. i # NoId
      BY <1>0, <3>3
    <3>5. \A x \in Threads : pi'[x] = NoId <=> pi[x] = NoId
      BY <1>0, <3>1, <3>4 DEF Deleted
    <3>6. \A x \in Nodes : peers_map'[x] = IF x = Node(r) THEN peers_map[x] \ {i}
                                            ELSE peers_map[x]
      BY <1>0, <3>1, <3>3
    <3>7. ~Counting(r, m, n)'
      BY <3>2 DEF Counting, At
    <3>8. Known(m, n) => Known(m, n)' \/ Adding(r, m, n)'
      <4>1. CASE m = Node(r) /\ n = Home[i]
        BY <2>2, <3>2, <3>3, <4>1 DEF Adding, Serves, At, Node, Id
      <4>2. CASE ~(m = Node(r) /\ n = Home[i])
        BY <3>6, <4>2 DEF Known, Of
      <4> QED
        BY <4>1, <4>2
    <3> QED
      BY <1>0, <2>2, <2>3, <3>2, <3>5, <3>7, <3>8, KeptGoes
  <2> QED
    BY <2>4, <2>5
<1>4. CASE \E r \in Threads : Drop(r)
  <2>1. PICK r \in Threads : Drop(r)
    BY <1>4
  <2>2. /\ At(r, "drop") /\ place' = [place EXCEPT ![r] = "find"]
        /\ UNCHANGED <<peers_map, request, pi>>
    BY <2>1 DEF Drop, GoTo
  <2>3. Node(r) \in Nodes /\ request[r].torrent \in Torrents
    BY <2>2, Serving DEF At
  <2> DEFINE L == torrent_peers[Node(r)][request[r].torrent] \ {victim[r]}
  <2>4. L \in SUBSET Ids
        /\ torrent_peers' = [torrent_peers EXCEPT ![Node(r)][request[r].torrent] = L]
    BY <1>0, <2>1, <2>3 DEF Drop
  <2>5. \A x \in Nodes, t \in Torrents :
            torrent_peers'[x][t] = IF x = Node(r) /\ t = request[r].torrent
                                   THEN L ELSE torrent_peers[x][t]
    <3> HIDE DEF L
    <3> QED
      BY <1>0, <2>3, <2>4, ListsChange
  <2>6. Listed(m, n)' => Listed(m, n)
    BY <2>5 DEF Listed, Of
  <2>7. /\ place'[r] = "find"
        /\ \A x \in Threads : x # r => place'[x] = place[x]
    BY <1>0, <2>2
  <2>8. ~Counting(r, m, n)' /\ (Adding(r, m, n) => Adding(r, m, n)')
    BY <2>2, <2>7 DEF Counting, Adding, Serves, At, Node, Id
  <2>9. Known(m, n)' <=> Known(m, n)
    BY <2>2 DEF Known, Of
  <2> QED
    BY <1>0, <2>2, <2>6, <2>7, <2>8, <2>9, KeptGoes
<1>5. CASE \E r \in Threads : Find(r)
  <2>1. PICK r \in Threads : Find(r)
    BY <1>5
  <2>2. /\ At(r, "find") /\ place' = [place EXCEPT ![r] = "record"]
        /\ UNCHANGED <<peers_map, torrent_peers, request>>
    BY <2>1 DEF Find, GoTo
  <2>3. pi[r] = NoId
    BY <1>s, <2>2 DEF ShapeOf, At, NoPointer
  <2>4. /\ \A x \in Threads : x # r => pi'[x] = pi[x]
        /\ pi'[r] = NoId \/ Id(r) \in peers_map[Node(r)]
    BY <1>0, <2>1, <2>3 DEF Find
  <2>5. /\ place'[r] = "record"
        /\ \A x \in Threads : x # r => place'[x] = place[x]
    BY <1>0, <2>2
  <2>6. (Known(m, n)' <=> Known(m, n)) /\ (Listed(m, n)' <=> Listed(m, n))
    BY <2>2 DEF Known, Listed, Of
  <2>7. Serves(r, m, n) /\ Id(r) \in peers_map[Node(r)] => Known(m, n)
    BY <1>0, <2>2, Serving DEF Serves, Known, Of, At
  <2>8. Counting(r, m, n)' => Known(m, n)
    BY <2>2, <2>4, <2>5, <2>7 DEF Counting, Serves, At, Node, Id
  <2>9. Adding(r, m, n) => Adding(r, m, n)' \/ Known(m, n)
    BY <2>2, <2>4, <2>5, <2>7 DEF Adding, Serves, At, Node, Id
  <2> QED
    BY <1>0, <2>2, <2>4, <2>5, <2>6, <2>8, <2>9, KeptGoes
<1>6. CASE \E r \in Threads : Record(r)
  <2>1. PICK r \in Threads : Record(r)
    BY <1>6
  <2>2. /\ At(r, "record") /\ place' = [place EXCEPT ![r] = "join"]
        /\ UNCHANGED <<torrent_peers, request>>
    BY <2>1 DEF Record, GoTo
  <2>3. Node(r) \in Nodes /\ Id(r) \in Ids
    BY <2>2, Serving DEF At
  <2>4. /\ \A x \in Threads : x # r => pi'[x] = pi[x]
        /\ pi[r] = NoId => Id(r) \in peers_map'[Node(r)]
        /\ \A x \in Nodes : peers_map[x] \subseteq peers_map'[x]
    <3>1. CASE pi[r] = NoId
      <4>1. /\ peers_map' = [peers_map EXCEPT ![Node(r)] =
                                peers_map[Node(r)] \cup {Id(r)}]
            /\ pi' = [pi EXCEPT ![r] = Id(r)]
        BY <2>1, <3>1 DEF Record
      <4> QED
        BY <1>0, <2>3, <4>1
    <3>2. CASE pi[r] # NoId
      BY <1>0, <2>1, <3>2 DEF Record
    <3> QED
      BY <3>1, <3>2
  <2>5. /\ place'[r] = "join"
        /\ \A x \in Threads : x # r => place'[x] = place[x]
    BY <1>0, <2>2
  <2>6. Known(m, n) => Known(m, n)'
    BY <2>4 DEF Known, Of
  <2>7. Listed(m, n)' <=> Listed(m, n)
    BY <2>2 DEF Listed, Of
  <2>8. Serves(r, m, n) /\ pi[r] = NoId => Known(m, n)'
    BY <2>4 DEF Serves, Known, Of
  <2>9. Counting(r, m, n)' => Counting(r, m, n) \/ Known(m, n)'
    BY <2>2, <2>5, <2>8 DEF Counting, Serves, At, Node, Id
  <2>10. Adding(r, m, n) => Known(m, n)'
    BY <2>2, <2>8 DEF Adding, At
  <2> QED
    BY <1>0, <2>2, <2>4, <2>5, <2>6, <2>7, <2>9, <2>10, KeptGoes
<1>7. CASE \E r \in Threads : Join(r) \/ Merge(r)
  <2>1. PICK r \in Threads : Join(r) \/ Merge(r)
    BY <1>7
  <2>2. /\ place[r] \in {"join", "merge"} /\ Joined(r) /\ UNCHANGED peers_map
        /\ At(r, "merge") => GoTo(r, "add") /\ UNCHANGED request
        /\ GoTo(r, "send") \/ GoTo(r, "add") \/ Ends(r)
        /\ UNCHANGED <<request, pi>> \/ Ends(r)
    BY <2>1 DEF Join, Merge, At
  <2>3. /\ Node(r) \in Nodes /\ Id(r) \in Ids /\ request[r].torrent \in Torrents
    BY <2>2, Serving
  <2> DEFINE L == torrent_peers[Node(r)][request[r].torrent] \cup {Id(r)}
  <2>4. /\ L \in SUBSET Ids
        /\ torrent_peers' = [torrent_peers EXCEPT ![Node(r)][request[r].torrent] = L]
    BY <1>0, <2>2, <2>3 DEF Joined
  <2>5. \A x \in Nodes, t \in Torrents :
            torrent_peers'[x][t] = IF x = Node(r) /\ t = request[r].torrent
                                   THEN L ELSE torrent_peers[x][t]
    <3> HIDE DEF L
    <3> QED
      BY <1>0, <2>3, <2>4, ListsChange
  <2>6. Known(m, n)' <=> Known(m, n)
    BY <2>2 DEF Known, Of
  <2>7. Listed(m, n)' => Listed(m, n) \/ Serves(r, m, n)
    <3>1. CASE m = Node(r) /\ n = Home[Id(r)]
      BY <2>2, <3>1 DEF Serves, At
    <3>2. CASE ~(m = Node(r) /\ n = Home[Id(r)])
      BY <2>5, <3>2 DEF Listed, Of
    <3> QED
      BY <3>1, <3>2
  <2>8. /\ place'[r] \in {"send", "add", "free"}
        /\ At(r, "merge") => place'[r] = "add" /\ request'[r] = request[r]
        /\ \A x \in Threads : x # r =>
              /\ place'[x] = place[x] /\ request'[x] = request[x]
              /\ pi'[x] = pi[x]
    BY <1>0, <2>2 DEF GoTo, Ends
  <2>9. ~Counting(r, m, n)' /\ ~Adding(r, m, n)
    BY <2>2, <2>8 DEF Counting, Adding, At
  <2>10. Serves(r, m, n) => Counting(r, m, n) \/ Adding(r, m, n)'
    BY <2>2, <2>8 DEF Serves, Counting, Adding, At, Node, Id
  <2> QED
    BY <1>0, <2>6, <2>7, <2>8, <2>9, <2>10, KeptGoes
<1>8. CASE \E r \in Threads : Add(r)
  <2>1. PICK r \in Threads : Add(r)
    BY <1>8
  <2>2. /\ At(r, "add") /\ Ends(r) /\ UNCHANGED torrent_peers
        /\ peers_map' = [peers_map EXCEPT ![Node(r)] = @ \cup {Id(r)}]
    BY <2>1 DEF Add
  <2>3. Node(r) \in Nodes /\ Id(r) \in Ids
    BY <2>2, Serving DEF At
  <2>4. /\ \A x \in Nodes : peers_map[x] \subseteq peers_map'[x]
        /\ Id(r) \in peers_map'[Node(r)]
    BY <1>0, <2>2, <2>3
  <2>5. /\ place'[r] = "free"
        /\ \A x \in Threads : x # r =>
              /\ place'[x] = place[x] /\ request'[x] = request[x]
              /\ pi'[x] = pi[x]
    BY <1>0, <2>2 DEF Ends, GoTo
  <2>6. Known(m, n) => Known(m, n)'
    BY <2>4 DEF Known, Of
  <2>7. Listed(m, n)' <=> Listed(m, n)
    BY <2>2 DEF Listed, Of
  <2>8. ~Counting(r, m, n)' /\ (Adding(r, m, n) => Known(m, n)')
    BY <2>4, <2>5 DEF Counting, Adding, Serves, At, Known, Of
  <2> QED
    BY <1>0, <2>5, <2>6, <2>7, <2>8, KeptGoes
<1>9. CASE \E r \in Threads : \E dest \in Dests(r) :
              At(r, "send") /\ Send(r, dest)
  <2>1. PICK r \in Threads : /\ At(r, "send") /\ Ends(r)
                             /\ UNCHANGED <<peers_map, torrent_peers>>
    BY <1>9 DEF Send, trackerVars
  <2>2. /\ place'[r] = "free"
        /\ \A x \in Threads : x # r =>
              /\ place'[x] = place[x] /\ request'[x] = request[x]
              /\ pi'[x] = pi[x]
    BY <1>0, <2>1 DEF Ends, GoTo
  <2>3. (Known(m, n)' <=> Known(m, n)) /\ (Listed(m, n)' <=> Listed(m, n))
    BY <2>1 DEF Known, Listed, Of
  <2>4. ~Counting(r, m, n)' /\ ~Adding(r, m, n)
    BY <2>1, <2>2 DEF Counting, Adding, Serves, At
  <2> QED
    BY <1>0, <2>2, <2>3, <2>4, KeptGoes
<1> QED
  BY <1>1, <1>2, <1>3, <1>4, <1>5, <1>6, <1>7, <1>8, <1>9, Cases

(* A tracker that lists a client of a node does not forget the node.       *)
THEOREM NodesKept == Spec => []NotForgotten
<1>1. Init => IType /\ IKept
  <2>1. Init => IKept
    BY DEF Init, IKept, Kept, Listed, Of, Counting, Serves, At
  <2> QED
    BY <2>1, InitType
<1>2. (IType /\ IKept) /\ [Next]_vars => (IType /\ IKept)'
  BY TypeStep, KeptStep DEF IKept
<1>3. IType /\ IKept => NotForgotten
  BY DEF IKept, Kept, Known, NotForgotten, Adding
<1> QED
  BY <1>1, <1>2, <1>3, PTL DEF Spec
=============================================================================
