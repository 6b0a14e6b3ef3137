---------------------------- MODULE ChokePolicy ----------------------------
(***************************************************************************)
(* Whom the client serves: at the end of Session::Update the connection    *)
(* with the lowest rate is choked (PeerHandler::CheckDownloadRate), and    *)
(* one of the choked peers gets its turn (ChooseAPeer): iQ turns for a     *)
(* peer within the scope of hops, then one for a peer out of it.  The      *)
(* counter of turns is shared by all sessions, and the rates are taken     *)
(* over the connections of all of them.  Updates and handlers run in one   *)
(* thread.  Which connections have a rate, and which is the least, is left *)
(* open: a rate is read through an index that may point anywhere.          *)
(***************************************************************************)
EXTENDS Integers, FiniteSets

CONSTANTS
    Sessions,
    Peers,        \* the peers in the lists m_peers of the sessions
    SessionOf,    \* the session that has a peer in its list
    Place,        \* the place of a peer in the list of its session
    NoPeer,
    Limit,        \* GetDownloaders() + GetOptimistic()
    Few,          \* 4: a session with no more peers chokes nobody
    FirstQ,       \* iQ when the program starts
    MaxQ,         \* bound: what the user enters for iQ
    MaxChokes,    \* bound: how often somebody is choked
    MaxHops,      \* bound: how often a peer comes in or out of the scope
    MaxConfigs    \* bound: how often the user enters iQ

ASSUME PolicyAssumption ==
    /\ IsFiniteSet(Peers) /\ NoPeer \notin Peers
    /\ SessionOf \in [Peers -> Sessions]
    /\ Place \in [Peers -> Nat]
    /\ {Limit, Few, FirstQ, MaxQ, MaxChokes, MaxHops, MaxConfigs} \subseteq Nat
    /\ FirstQ <= MaxQ

VARIABLES
    conn,         \* the socket of a peer: none, open, or ready (CTS)
    choked,       \* pSocket::m_choke: we sent a choke
    far,          \* the peer is more than iPeersScope hops away
    iCount,
    iQ,
    last,         \* pLastChoosedPeer of each session
    granted,      \* history: peers whose last unchoke was their turn
    used          \* how much of each bound is used up

vars == <<conn, choked, far, iCount, iQ, last, granted, used>>
peerVars == <<conn, choked, far, granted>>
turnVars == <<iCount, iQ, last>>

\* Beyond MaxQ + 1 the counter meets no value of iQ + 1 any more.
MaxCount == MaxQ + 2

Init ==
    /\ conn = [p \in Peers |-> "none"]
    /\ choked = [p \in Peers |-> FALSE]
    /\ far \in [Peers -> BOOLEAN]
    /\ iCount = 0 /\ iQ = FirstQ
    /\ last = [s \in Sessions |-> NoPeer]
    /\ granted = {}
    /\ used = [chokes |-> 0, hops |-> 0, configs |-> 0]
-----------------------------------------------------------------------------
Of(s) == {p \in Peers : SessionOf[p] = s}

\* qd and interested_choked of a session, given who is choked.
Served(s, c) == {p \in Of(s) : conn[p] # "none" /\ ~c[p]}
Waiting(s, c) == {p \in Of(s) : conn[p] # "none" /\ c[p]}

\* The connections that CheckDownloadRate looks at, of whatever session, if
\* the remote end does not choke us and enough seconds were measured.
Rated == {p \in Peers : conn[p] = "ready"}

\* CheckDownloadRate, in a session that is large enough: just as many as Limit
\* of them have a rate, and one, which may be choked already, has less than
\* another.  The result is who is choked then.
Rechoked(s) ==
    {choked} \cup
    IF Cardinality(Of(s)) > Few /\ Limit > 1 /\ Cardinality(Rated) >= Limit /\ used.chokes < MaxChokes
    THEN {[choked EXCEPT ![p] = TRUE] : p \in Rated} ELSE {}

\* ChooseAPeer: the first of the list in, or out of, the scope, except the
\* one that was chosen last unless nobody else waits.
Candidates(q, diff, out) == {p \in q : far[p] = out /\ (Cardinality(q) > 1 => p # diff)}
ChooseAPeer(q, diff, out) ==
    LET all == Candidates(q, diff, out) IN
    IF all = {} THEN {NoPeer} ELSE {p \in all : \A o \in all : Place[p] <= Place[o]}

\* The counter after one more turn, and whether the turn is one for far peers.
Raised == IF iCount < MaxCount THEN iCount + 1 ELSE MaxCount
FarTurn == Raised = iQ + 1

\* Mutant of NextCount: the counter is not reset.
NeverReset == iCount + 1
NextCount == IF FarTurn THEN 0 ELSE Raised

\* Mutant of Free: one too many.
FreeOneMore(s, c) == Cardinality(Served(s, c)) <= Limit
Free(s, c) == Cardinality(Served(s, c)) < Limit

\* Mutant of Turn: only a turn that finds a peer counts.
TurnWhenFound(s, c) ==
    /\ Free(s, c) /\ Waiting(s, c) # {}
    /\ \E p \in ChooseAPeer(Waiting(s, c), last[s], FarTurn) :
        /\ iCount' = IF p = NoPeer THEN iCount ELSE NextCount
        /\ last' = [last EXCEPT ![s] = p]
        /\ choked' = [q \in Peers |-> c[q] /\ q # p]
        /\ granted' = {g \in granted : ~c[g]} \cup ({p} \ {NoPeer})

\* The turn of a choked peer, when less than Limit are served.
Turn(s, c) ==
    /\ Free(s, c) /\ Waiting(s, c) # {}
    /\ \E p \in ChooseAPeer(Waiting(s, c), last[s], FarTurn) :
        /\ iCount' = NextCount
        /\ last' = [last EXCEPT ![s] = p]
        /\ choked' = [q \in Peers |-> c[q] /\ q # p]
        /\ granted' = {g \in granted : ~c[g]} \cup ({p} \ {NoPeer})

\* The end of Update: perhaps the least is choked, then, when the time is a
\* multiple of four, perhaps a turn.
Update(s, turn) ==
    \E c \in Rechoked(s) :
        /\ used' = IF c = choked THEN used ELSE [used EXCEPT !.chokes = @ + 1]
        /\ \/ turn /\ Turn(s, c)
           \/ /\ ~(turn /\ Free(s, c) /\ Waiting(s, c) # {})
              /\ choked' = c
              /\ granted' = {g \in granted : ~c[g]}
              /\ UNCHANGED <<iCount, last>>
        /\ UNCHANGED <<conn, far, iQ>>
-----------------------------------------------------------------------------
\* A connection begins unchoked.
Connect(p) ==
    /\ conn[p] = "none"
    /\ conn' = [conn EXCEPT ![p] = "open"]
    /\ choked' = [choked EXCEPT ![p] = FALSE]
    /\ UNCHANGED <<far, granted, turnVars, used>>

\* The peer id has come: clear to send.
Shake(p) ==
    /\ conn[p] = "open"
    /\ conn' = [conn EXCEPT ![p] = "ready"]
    /\ UNCHANGED <<choked, far, granted, turnVars, used>>

\* cmdBitfield answers with an unchoke, however often it comes.
Bitfield(p) ==
    /\ conn[p] = "ready"
    /\ choked' = [choked EXCEPT ![p] = FALSE]
    /\ UNCHANGED <<conn, far, granted, turnVars, used>>

\* The connection ends, or the session is suspended.
Close(p) ==
    /\ conn[p] # "none"
    /\ conn' = [conn EXCEPT ![p] = "none"]
    /\ choked' = [choked EXCEPT ![p] = FALSE]
    /\ granted' = granted \ {p}
    /\ UNCHANGED <<far, turnVars, used>>

\* An announce tells a new number of hops.
SetHops(p) ==
    /\ used.hops < MaxHops
    /\ far' = [far EXCEPT ![p] = ~@]
    /\ used' = [used EXCEPT !.hops = @ + 1]
    /\ UNCHANGED <<conn, choked, granted, turnVars>>

\* The user enters iQ; the counter stays as it is.
Configure(q) ==
    /\ used.configs < MaxConfigs
    /\ iQ' = q
    /\ used' = [used EXCEPT !.configs = @ + 1]
    /\ UNCHANGED <<peerVars, iCount, last>>

PeerStep(p) ==
    \/ Connect(p) \/ Shake(p) \/ Bitfield(p) \/ Close(p) \/ SetHops(p)

Next ==
    \/ \E s \in Sessions, turn \in BOOLEAN : Update(s, turn)
    \/ \E p \in Peers : PeerStep(p)
    \/ \E q \in 0 .. MaxQ : Configure(q)

Spec == Init /\ [][Next]_vars

\* The main loop ticks at least once a second and updates every session.
FairSpec == Spec /\ \A s \in Sessions : WF_vars(Update(s, TRUE))
-----------------------------------------------------------------------------
\* Every variable has its type.
TypeOK ==
    /\ conn \in [Peers -> {"none", "open", "ready"}]
    /\ choked \in [Peers -> BOOLEAN]
    /\ far \in [Peers -> BOOLEAN]
    /\ iCount \in 0 .. MaxCount /\ iQ \in 0 .. MaxQ
    /\ last \in [Sessions -> Peers \cup {NoPeer}]
    /\ granted \subseteq Peers
    /\ used \in [{"chokes", "hops", "configs"} -> Nat]

\* Turns never fill more than the places for downloaders and the optimistic
\* one (GetDownloaders, GetOptimistic), whatever connections begin unchoked,
\* whoever is choked or reset by a bitmap between two turns.
GrantsWithinLimit ==
    \A s \in Sessions :
        Cardinality({p \in granted : SessionOf[p] = s /\ conn[p] # "none" /\ ~choked[p]}) <= Limit

\* "Choose iQ times a node within the iPeersScope and after another node out
\* of iPeersScope" (Session.cpp:1343): nobody, near or far, stays choked while
\* the session has a place free, unless the user has entered zero, or an iQ
\* that the counter is past.
Unchoked ==
    \A p \in Peers :
        conn[p] # "none" /\ choked[p]
        ~> conn[p] = "none" \/ ~choked[p] \/ ~Free(SessionOf[p], choked) \/ iQ = 0 \/ iCount > iQ
=============================================================================
