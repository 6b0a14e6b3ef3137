------------------------------ MODULE Registry ------------------------------
(* The peers a tracker knows (PeersManager, TorrentManager), the handlers  *)
(* that write them (/announce, /t2t-info and the searcher threads that     *)
(* bring peers from other trackers), and NeighborsManager, which tells     *)
(* the other trackers of every announce.                                   *)
(*                                                                         *)
(* A node runs a client and a tracker, and a client announces to its own   *)
(* tracker, so that an identifier belongs to one address, its Home.  Every *)
(* request is handled by a thread of its own; an action is what a thread   *)
(* does under one critical section.  iUseTrackerOverlay is 0.              *)
EXTENDS Integers, FiniteSets

CONSTANTS
    Nodes,
    Torrents,
    Ids,           \* what uPeerId may be: drawn each time a client starts
    Home,          \* the node whose client draws it
    Threads,       \* bound on the requests handled at a time, in all nodes
    PeerKnown,     \* whether the routing table may have the peer of a request
    NoId, Freed    \* no identifier, and a pointer to a deleted object

ASSUME HomeAssumption == Home \in [Ids -> Nodes]
ASSUME PeerKnownAssumption == PeerKnown \subseteq BOOLEAN

ASSUME NoIdAssumption == NoId \notin Ids /\ Freed \notin Ids \cup {NoId}

VARIABLES
    client,          \* the identifier of the client that runs on a node
    fresh,           \* the identifiers not drawn yet
    told,            \* the torrents for which it has got an answer
    late,            \* history: the clients that started while a thread of
                     \* the client before was still to look for others
    peers_map,       \* PeersManager: the identifiers a tracker knows
    torrent_peers,   \* TorrentManager: who is interested in a torrent
    stuck,           \* exploration_map_sync was left entered by a thread
    sent,            \* t2t-info on its way, and to whom
    place,           \* where a thread is ...
    request,         \* ... in which request ...
    victim,          \* ... whom it takes off a list ...
    pi               \* ... and the object its pointer refers to

clientVars == <<client, fresh, told, late>>
trackerVars == <<peers_map, torrent_peers, stuck>>
threadVars == <<place, request, victim, pi>>
vars == <<clientVars, trackerVars, sent, threadVars>>

Announces == [kind : {"announce"}, node : Nodes, torrent : Torrents, id : Ids]
Infos     == [kind : {"info"}, node : Nodes, torrent : Torrents, id : Ids]
Founds    == [kind : {"found"}, node : Nodes, torrent : Torrents, id : Ids]
NoRequest == [kind |-> "none"]

Places == {"free", "eliminate", "drop", "find", "record", "join", "send",
           "merge", "add"}

Init ==
    /\ client = [n \in Nodes |-> NoId]
    /\ fresh = Ids
    /\ told = [n \in Nodes |-> {}]
    /\ late = {}
    /\ peers_map = [n \in Nodes |-> {}]
    /\ torrent_peers = [n \in Nodes |-> [t \in Torrents |-> {}]]
    /\ stuck = [n \in Nodes |-> FALSE]
    /\ sent = {}
    /\ place = [r \in Threads |-> "free"]
    /\ request = [r \in Threads |-> NoRequest]
    /\ victim = [r \in Threads |-> NoId]
    /\ pi = [r \in Threads |-> NoId]

At(r, p) == place[r] = p
GoTo(r, p) == place' = [place EXCEPT ![r] = p]
Node(r) == request[r].node
Id(r) == request[r].id

(* A thread takes a request, and ends.                                     *)
Takes(r, q, p) ==
    /\ At(r, "free")
    /\ GoTo(r, p)
    /\ request' = [request EXCEPT ![r] = q]
    /\ UNCHANGED <<victim, pi>>

Ends(r) ==
    /\ GoTo(r, "free")
    /\ request' = [request EXCEPT ![r] = NoRequest]
    /\ victim' = [victim EXCEPT ![r] = NoId]
    /\ pi' = [pi EXCEPT ![r] = NoId]

-----------------------------------------------------------------------------
(* The client of a node: it starts with a new identifier, announces its    *)
(* torrents again and again, and is closed or killed.                      *)

\* No thread of an announce of the node has its first step before it.
Begun(n) ==
    \A r \in Threads :
        At(r, "eliminate") => request[r].kind = "info" \/ Node(r) # n

Start(n) ==
    /\ client[n] = NoId
    /\ \E i \in fresh :
          /\ Home[i] = n
          /\ client' = [client EXCEPT ![n] = i]
          /\ fresh' = fresh \ {i}
          /\ late' = IF Begun(n) THEN late ELSE late \cup {i}
    /\ UNCHANGED <<told, trackerVars, sent, threadVars>>

Quit(n) ==
    /\ client[n] # NoId
    /\ client' = [client EXCEPT ![n] = NoId]
    /\ told' = [told EXCEPT ![n] = {}]
    /\ UNCHANGED <<fresh, late, trackerVars, sent, threadVars>>

(* A client waits for the answer before it announces a torrent again.      *)
Announce(r, n, t) ==
    /\ client[n] # NoId
    /\ LET q == [kind |-> "announce", node |-> n, torrent |-> t,
                 id |-> client[n]]
       IN  /\ \A x \in Threads : request[x] # q
           /\ Takes(r, q, "eliminate")
    /\ UNCHANGED <<clientVars, trackerVars, sent>>

-----------------------------------------------------------------------------
(* The handlers.                                                           *)

(* Objects of PeersManager that are deleted leave pointers to them.        *)
Deleted(n, i) ==
    pi' = [x \in Threads |-> IF pi[x] = i /\ Node(x) = n THEN Freed ELSE pi[x]]

(* PeersManager::eliminate_confusion: one other identifier of the address, *)
(* in the order of the map.  A t2t-info has no parameter peer_id, so that  *)
(* any identifier is an other one.                                         *)
(* Mutant of Others: the identifier of the request counts as well.         *)
OthersAndItself(q) == {i \in peers_map[q.node] : Home[i] = Home[q.id]}

Others(q) ==
    {i \in peers_map[q.node] : Home[i] = Home[q.id]
                               /\ (q.kind = "announce" => i # q.id)}

(* Mutant of Eliminate: it goes on to the list although there is nobody    *)
(* to delete.                                                              *)
EliminateNobody(r) ==
    /\ At(r, "eliminate")
    /\ \E i \in Others(request[r]) \cup {NoId} :
          /\ i = NoId <=> Others(request[r]) = {}
          /\ peers_map' = [peers_map EXCEPT ![Node(r)] = @ \ {i}]
          /\ victim' = [victim EXCEPT ![r] = i]
          /\ IF i = NoId THEN UNCHANGED pi ELSE Deleted(Node(r), i)
    /\ GoTo(r, "drop")
    /\ UNCHANGED <<clientVars, torrent_peers, stuck, sent, request>>

Eliminate(r) ==
    /\ At(r, "eliminate")
    /\ IF Others(request[r]) = {}
       THEN /\ GoTo(r, "find")
            /\ UNCHANGED <<peers_map, victim, pi>>
       ELSE \E i \in Others(request[r]) :
            /\ peers_map' = [peers_map EXCEPT ![Node(r)] = @ \ {i}]
            /\ victim' = [victim EXCEPT ![r] = i]
            /\ Deleted(Node(r), i)
            /\ GoTo(r, "drop")
    /\ UNCHANGED <<clientVars, torrent_peers, stuck, sent, request>>

(* Mutant of Drop: eliminate_confusion starts again until it finds nobody. *)
DropAndAgain(r) ==
    /\ At(r, "drop")
    /\ torrent_peers' =
          [torrent_peers EXCEPT ![Node(r)][request[r].torrent] = @ \ {victim[r]}]
    /\ victim' = [victim EXCEPT ![r] = NoId]
    /\ GoTo(r, "eliminate")
    /\ UNCHANGED <<clientVars, peers_map, stuck, sent, request, pi>>

(* delete_peer_from_torrent, for the torrent of the request only.          *)
Drop(r) ==
    /\ At(r, "drop")
    /\ torrent_peers' =
          [torrent_peers EXCEPT ![Node(r)][request[r].torrent] = @ \ {victim[r]}]
    /\ victim' = [victim EXCEPT ![r] = NoId]
    /\ GoTo(r, "find")
    /\ UNCHANGED <<clientVars, peers_map, stuck, sent, request, pi>>

(* GetNumberOfHops: it needs exploration_map_sync, and leaves it entered   *)
(* when the table has the address, which is never the tracker's own.       *)
Hops(r) ==
    /\ ~stuck[Node(r)]
    /\ \E known \in PeerKnown :
          stuck' = [stuck EXCEPT ![Node(r)] =
                       known /\ Home[Id(r)] # Node(r)]

(* get_peer_info, and for a peer that is not known the hops to it.         *)
Find(r) ==
    /\ At(r, "find")
    /\ IF Id(r) \in peers_map[Node(r)]
       THEN /\ pi' = [pi EXCEPT ![r] = Id(r)]
            /\ UNCHANGED stuck
       ELSE /\ Hops(r)
            /\ UNCHANGED pi
    /\ GoTo(r, "record")
    /\ UNCHANGED <<clientVars, peers_map, torrent_peers, sent, request, victim>>

(* Mutants of Record: the object that add_peer_2 returns is not kept, and  *)
(* a t2t-info updates the peers that are known only.                       *)
RecordUnkept(r) ==
    /\ At(r, "record")
    /\ peers_map' = IF pi[r] = NoId
                    THEN [peers_map EXCEPT ![Node(r)] = @ \cup {Id(r)}]
                    ELSE peers_map
    /\ GoTo(r, "join")
    /\ UNCHANGED <<clientVars, torrent_peers, stuck, sent, request, victim, pi>>

RecordOwn(r) ==
    /\ At(r, "record")
    /\ IF pi[r] = NoId /\ request[r].kind = "announce"
       THEN /\ peers_map' = [peers_map EXCEPT ![Node(r)] = @ \cup {Id(r)}]
            /\ pi' = [pi EXCEPT ![r] = Id(r)]
       ELSE UNCHANGED <<peers_map, pi>>
    /\ GoTo(r, "join")
    /\ UNCHANGED <<clientVars, torrent_peers, stuck, sent, request, victim>>

(* add_peer_2 or update_peer, which does nothing to a peer that has gone.  *)
(* What else an announce does before it joins the list, check_info_hash    *)
(* and send_t2t_request, changes nothing here: T2T_Request does not rewind *)
(* its iterator and starts no searcher.                                    *)
Record(r) ==
    /\ At(r, "record")
    /\ IF pi[r] = NoId
       THEN /\ peers_map' = [peers_map EXCEPT ![Node(r)] = @ \cup {Id(r)}]
            /\ pi' = [pi EXCEPT ![r] = Id(r)]
       ELSE UNCHANGED <<peers_map, pi>>
    /\ GoTo(r, "join")
    /\ UNCHANGED <<clientVars, torrent_peers, stuck, sent, request, victim>>

Joined(r) ==
    torrent_peers' =
        [torrent_peers EXCEPT ![Node(r)][request[r].torrent] = @ \cup {Id(r)}]

(* add_peer_to_torrent.  With iUseTrackerOverlay 0 a t2t-info goes no      *)
(* further.                                                                *)
Join(r) ==
    /\ At(r, "join")
    /\ Joined(r)
    /\ IF request[r].kind = "announce"
       THEN GoTo(r, "send") /\ UNCHANGED <<request, victim, pi>>
       ELSE Ends(r)
    /\ UNCHANGED <<clientVars, peers_map, stuck, sent>>

(* The answer, and the thread T2T_Info_to_all.  It needs                   *)
(* exploration_map_sync; a tracker that does not connect is skipped.       *)
Send(r, dest) ==
    /\ At(r, "send")
    /\ told' = IF client[Node(r)] = Id(r)
               THEN [told EXCEPT ![Node(r)] = @ \cup {request[r].torrent}]
               ELSE told
    /\ sent' = IF stuck[Node(r)] THEN sent
               ELSE sent \cup [kind : {"info"}, node : dest,
                               torrent : {request[r].torrent}, id : {Id(r)}]
    /\ Ends(r)
    /\ UNCHANGED <<client, fresh, late, trackerVars>>

Dests(r) == SUBSET (Nodes \ {Node(r)})

(* A t2t-info arrives.                                                     *)
Receive(r, q) ==
    /\ q \in sent
    /\ sent' = sent \ {q}
    /\ Takes(r, q, "eliminate")
    /\ UNCHANGED <<clientVars, trackerVars>>

(* A searcher of tracker n reads an answer of tracker m: the peers of a    *)
(* torrent that m knows, those of the address of n apart.                  *)
Answer(r, n, m) ==
    /\ m # n
    /\ \E t \in Torrents : \E i \in torrent_peers[m][t] \cap peers_map[m] :
          /\ Home[i] # n
          /\ Takes(r, [kind |-> "found", node |-> n, torrent |-> t, id |-> i],
                   "merge")
    /\ UNCHANGED <<clientVars, trackerVars, sent>>

(* It enters them without eliminate_confusion, the list first.             *)
Merge(r) ==
    /\ At(r, "merge")
    /\ Joined(r)
    /\ GoTo(r, "add")
    /\ UNCHANGED <<clientVars, peers_map, stuck, sent, request, victim, pi>>

Add(r) ==
    /\ At(r, "add")
    /\ Hops(r)
    /\ peers_map' = [peers_map EXCEPT ![Node(r)] = @ \cup {Id(r)}]
    /\ Ends(r)
    /\ UNCHANGED <<clientVars, torrent_peers, sent>>

-----------------------------------------------------------------------------
Step(r) ==
    \/ Eliminate(r) \/ Drop(r) \/ Find(r) \/ Record(r) \/ Join(r)
    \/ Merge(r) \/ Add(r)
    \/ At(r, "send") /\ \E dest \in Dests(r) : Send(r, dest)

Next ==
    \/ \E n \in Nodes : Start(n) \/ Quit(n)
    \/ \E r \in Threads, n \in Nodes, t \in Torrents : Announce(r, n, t)
    \/ \E r \in Threads : \E q \in sent : Receive(r, q)
    \/ \E r \in Threads, n, m \in Nodes : Answer(r, n, m)
    \/ \E r \in Threads : Step(r)

Spec == Init /\ [][Next]_vars

(* Threads run.                                                            *)
FairSpec == Spec /\ \A r \in Threads : WF_vars(Step(r))

-----------------------------------------------------------------------------
(* The type invariant.  A thread between the two parts of                  *)
(* eliminate_confusion has somebody to take off the list.                  *)
TypeOK ==
    /\ client \in [Nodes -> Ids \cup {NoId}]
    /\ fresh \subseteq Ids
    /\ told \in [Nodes -> SUBSET Torrents]
    /\ late \subseteq Ids
    /\ peers_map \in [Nodes -> SUBSET Ids]
    /\ torrent_peers \in [Nodes -> [Torrents -> SUBSET Ids]]
    /\ stuck \in [Nodes -> BOOLEAN]
    /\ sent \subseteq Infos
    /\ place \in [Threads -> Places]
    /\ request \in [Threads -> Announces \cup Infos \cup Founds \cup {NoRequest}]
    /\ victim \in [Threads -> Ids \cup {NoId}]
    /\ pi \in [Threads -> Ids \cup {NoId, Freed}]
    /\ \A r \in Threads : At(r, "drop") <=> victim[r] # NoId

(* A client that got its answer stays in its own tracker, whatever earlier *)
(* clients of the node have left there: threads that still serve them, and *)
(* what other trackers remember and send back.  Only a thread of an        *)
(* earlier client that is still before its eliminate_confusion when the    *)
(* client starts can take it out (ClientStays).                            *)
OwnClientKnown ==
    \A n \in Nodes : \A t \in told[n] :
        client[n] \notin late => client[n] \in peers_map[n] \cap torrent_peers[n][t]

(* The answer to a client that is still there is written with a pointer    *)
(* (pi->get_bencoded_info) taken many steps before; no other thread has    *)
(* deleted the object, with the same exception.                            *)
PointerValid ==
    \A r \in Threads :
        /\ request[r].kind = "announce" /\ client[Node(r)] = Id(r)
        /\ Id(r) \notin late /\ place[r] \in {"join", "send"}
        => pi[r] = Id(r) /\ Id(r) \in peers_map[Node(r)]

(* What eliminate_confusion says of itself (PeersManager.cpp:323-325): of  *)
(* two identifiers of one address it drops the last one that was there,    *)
(* and never the client that runs now.                                     *)
ClientStays ==
    [][\A n \in Nodes :
          client[n] \in peers_map[n] /\ client'[n] = client[n]
          => client[n] \in peers_map'[n]]_vars

(* A tracker that lists a client of another node never loses the last      *)
(* identifier it knows there: who deletes one comes to enter one, unless   *)
(* another thread does.  Several threads may delete what others have just  *)
(* entered, with pointers that were taken before.                          *)
Of(n, S) == {i \in S : Home[i] = n}
Listed(m, n) == \E t \in Torrents : Of(n, torrent_peers[m][t]) # {}
Serves(r, m, n) == ~At(r, "free") /\ Node(r) = m /\ Home[Id(r)] = n

NotForgotten ==
    \A m, n \in Nodes :
        Listed(m, n) => \/ Of(n, peers_map[m]) # {}
                        \/ \E r \in Threads : Serves(r, m, n)

(* The thread of a request comes to its end, whatever the others delete    *)
(* and enter, unless GetNumberOfHops has left exploration_map_sync entered *)
(* at its tracker (WMRoutingTable.cpp:760).                                *)
Served ==
    \A r \in Threads : ~At(r, "free") ~> At(r, "free") \/ stuck[Node(r)]
=============================================================================
