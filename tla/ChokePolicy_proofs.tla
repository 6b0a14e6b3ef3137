------------------------ MODULE ChokePolicy_proofs ------------------------
(* Proofs about ChokePolicy: its types, and that turns fill no more than   *)
(* the places there are.                                                   *)
EXTENDS ChokePolicy, FiniteSetTheorems, TLAPS

(* A peer whose last unchoke was its turn has a connection and is served.  *)
GrantsServed == \A p \in granted : conn[p] # "none" /\ ~choked[p]

Granted(s) == {p \in granted : SessionOf[p] = s}

(* Inductive: every session has granted no more than Limit.                *)
GInv ==
    /\ TypeOK
    /\ GrantsServed
    /\ \A s \in Sessions : Cardinality(Granted(s)) <= Limit

-----------------------------------------------------------------------------
(* What can be choked by the rates are the peers as before but one.        *)
LEMMA RechokedType ==
    ASSUME TypeOK, NEW s \in Sessions, NEW c \in Rechoked(s)
    PROVE  c \in [Peers -> BOOLEAN]
  BY DEF TypeOK, Rechoked, Rated

\* A peer that a comparison of rates leaves unchoked was not choked before.
LEMMA RechokedMore ==
    ASSUME TypeOK, NEW s \in Sessions, NEW c \in Rechoked(s), NEW p \in Peers, ~c[p]
    PROVE  ~choked[p]
  BY DEF TypeOK, Rechoked, Rated

(* Who is chosen waits.                                                    *)
LEMMA ChosenWaits ==
    ASSUME NEW q, NEW diff, NEW out, NEW p \in ChooseAPeer(q, diff, out)
    PROVE  p \in q \cup {NoPeer}
  BY DEF ChooseAPeer, Candidates

(* What an Update may do, whether somebody is choked or gets a turn.       *)
LEMMA TurnCases ==
    ASSUME TypeOK, NEW s \in Sessions, NEW c \in Rechoked(s), Turn(s, c)
    PROVE  \E p \in Of(s) \cup {NoPeer} :
              /\ choked' = [q \in Peers |-> c[q] /\ q # p]
              /\ granted' = {g \in granted : ~c[g]} \cup ({p} \ {NoPeer})
              /\ last' = [last EXCEPT ![s] = p]
              /\ p # NoPeer => p \in Waiting(s, c)
              /\ Free(s, c)
  <1>1. PICK p \in ChooseAPeer(Waiting(s, c), last[s], FarTurn) :
            /\ last' = [last EXCEPT ![s] = p]
            /\ choked' = [q \in Peers |-> c[q] /\ q # p]
            /\ granted' = {g \in granted : ~c[g]} \cup ({p} \ {NoPeer})
    BY DEF Turn
  <1>2. p \in Waiting(s, c) \cup {NoPeer}
    BY ChosenWaits
  <1>3. p \in Of(s) \cup {NoPeer}
    BY <1>2 DEF Waiting
  <1>4. Free(s, c)
    BY DEF Turn
  <1> QED
    BY <1>1, <1>2, <1>3, <1>4

(* The types.                                                              *)
LEMMA UpdateTypes ==
    ASSUME TypeOK, NEW s \in Sessions, NEW turn \in BOOLEAN, Update(s, turn)
    PROVE  TypeOK'
  <1>1. PICK c \in Rechoked(s) :
            /\ used' = IF c = choked THEN used ELSE [used EXCEPT !.chokes = @ + 1]
            /\ \/ turn /\ Turn(s, c)
               \/ /\ ~(turn /\ Free(s, c) /\ Waiting(s, c) # {})
                  /\ choked' = c
                  /\ granted' = {g \in granted : ~c[g]}
                  /\ UNCHANGED <<iCount, last>>
            /\ UNCHANGED <<conn, far, iQ>>
    BY DEF Update
  <1>2. c \in [Peers -> BOOLEAN]
    BY RechokedType
  <1>3. used' \in [{"chokes", "hops", "configs"} -> Nat]
    BY <1>1 DEF TypeOK
  <1>4. CASE turn /\ Turn(s, c)
    <2>1. iCount' \in 0 .. MaxCount
      BY <1>4, PolicyAssumption DEF Turn, NextCount, Raised, FarTurn, TypeOK, MaxCount
    <2>2. PICK p \in Of(s) \cup {NoPeer} :
              /\ choked' = [q \in Peers |-> c[q] /\ q # p]
              /\ granted' = {g \in granted : ~c[g]} \cup ({p} \ {NoPeer})
              /\ last' = [last EXCEPT ![s] = p]
      BY <1>4, TurnCases
    <2>3. p \in Peers \cup {NoPeer}
      BY DEF Of
    <2> QED
      BY <1>1, <1>2, <1>3, <2>1, <2>2, <2>3 DEF TypeOK
  <1>5. CASE choked' = c /\ granted' = {g \in granted : ~c[g]} /\ UNCHANGED <<iCount, last>>
    BY <1>1, <1>2, <1>3, <1>5 DEF TypeOK
  <1> QED
    BY <1>1, <1>4, <1>5

\* What a peer does keeps the types.
LEMMA PeerTypes ==
    ASSUME TypeOK, NEW p \in Peers, PeerStep(p)
    PROVE  TypeOK'
  <1>1. CASE Connect(p)
    BY <1>1 DEF Connect, TypeOK, turnVars
  <1>2. CASE Shake(p)
    BY <1>2 DEF Shake, TypeOK, turnVars
  <1>3. CASE Bitfield(p)
    BY <1>3 DEF Bitfield, TypeOK, turnVars
  <1>4. CASE Close(p)
    BY <1>4 DEF Close, TypeOK, turnVars
  <1>5. CASE SetHops(p)
    <2>1. far' \in [Peers -> BOOLEAN]
      BY <1>5 DEF SetHops, TypeOK
    <2>2. used' \in [{"chokes", "hops", "configs"} -> Nat]
      BY <1>5 DEF SetHops, TypeOK
    <2> QED
      BY <1>5, <2>1, <2>2 DEF SetHops, TypeOK, turnVars
  <1> QED
    BY <1>1, <1>2, <1>3, <1>4, <1>5 DEF PeerStep

\* An entry of iQ keeps the types.
LEMMA ConfigureTypes ==
    ASSUME TypeOK, NEW q \in 0 .. MaxQ, Configure(q)
    PROVE  TypeOK'
  <1>1. used' \in [{"chokes", "hops", "configs"} -> Nat]
    BY DEF Configure, TypeOK
  <1> QED
    BY <1>1 DEF Configure, TypeOK, peerVars

\* The types hold at first.
LEMMA InitTypes == Init => TypeOK
  BY PolicyAssumption DEF Init, TypeOK, MaxCount

\* Every step keeps the types.
LEMMA NextTypes == TypeOK /\ [Next]_vars => TypeOK'
  <1> SUFFICES ASSUME TypeOK, [Next]_vars PROVE TypeOK'
    OBVIOUS
  <1>1. CASE \E s \in Sessions, turn \in BOOLEAN : Update(s, turn)
    BY <1>1, UpdateTypes
  <1>2. CASE \E p \in Peers : PeerStep(p)
    BY <1>2, PeerTypes
  <1>3. CASE \E q \in 0 .. MaxQ : Configure(q)
    BY <1>3, ConfigureTypes
  <1>4. CASE UNCHANGED vars
    BY <1>4 DEF vars, TypeOK
  <1> QED
    BY <1>1, <1>2, <1>3, <1>4 DEF Next

(* The types of connections, counters and choices, for any sessions, peers *)
(* and limits.                                                             *)
THEOREM PolicyTyped == Spec => []TypeOK
  BY InitTypes, NextTypes, PTL DEF Spec
-----------------------------------------------------------------------------
(* The places: a turn is given only while less than Limit are served, and  *)
(* whoever was granted a turn before is among them.                        *)
LEMMA GrantedFinite ==
    ASSUME TypeOK, NEW s \in Sessions
    PROVE  IsFiniteSet(Granted(s))
  <1>1. Granted(s) \in SUBSET Peers
    BY DEF Granted, TypeOK
  <1> QED
    BY <1>1, FS_Subset, PolicyAssumption

(* Sessions that grant nothing new stay within Limit.                      *)
LEMMA FewerGranted ==
    ASSUME TypeOK, NEW s \in Sessions, Cardinality(Granted(s)) <= Limit,
           NEW T, T \subseteq Granted(s)
    PROVE  Cardinality(T) <= Limit
  <1>1. /\ IsFiniteSet(T)
        /\ Cardinality(T) <= Cardinality(Granted(s))
    BY GrantedFinite, FS_Subset
  <1>2. Cardinality(T) \in Nat /\ Cardinality(Granted(s)) \in Nat
    BY <1>1, GrantedFinite, FS_CardinalityType
  <1> QED
    BY <1>1, <1>2, PolicyAssumption

(* One more than the peers that a session serves, when a place is free.    *)
LEMMA OneMoreGranted ==
    ASSUME TypeOK, NEW s \in Sessions, NEW c, NEW p, Free(s, c),
           NEW T, T \subseteq Served(s, c) \cup {p}
    PROVE  Cardinality(T) <= Limit
  <1>1. Served(s, c) \in SUBSET Peers
    BY DEF Served, Of
  <1>2. IsFiniteSet(Served(s, c))
    BY <1>1, FS_Subset, PolicyAssumption
  <1>3. Cardinality(Served(s, c)) \in Nat
    BY <1>2, FS_CardinalityType
  <1>4. /\ IsFiniteSet(Served(s, c) \cup {p})
        /\ Cardinality(Served(s, c) \cup {p}) <= Cardinality(Served(s, c)) + 1
    BY <1>2, <1>3, FS_AddElement
  <1>5. /\ IsFiniteSet(T)
        /\ Cardinality(T) <= Cardinality(Served(s, c) \cup {p})
    BY <1>4, FS_Subset
  <1>6. Cardinality(T) \in Nat /\ Cardinality(Served(s, c) \cup {p}) \in Nat
    BY <1>4, <1>5, FS_CardinalityType
  <1> QED
    BY <1>3, <1>4, <1>5, <1>6, PolicyAssumption DEF Free

(* An Update: nobody is granted by a choke; a turn grants one.             *)
LEMMA UpdateGrants ==
    ASSUME GInv, NEW s \in Sessions, NEW turn \in BOOLEAN, Update(s, turn)
    PROVE  GInv'
  <1>1. PICK c \in Rechoked(s) :
            /\ \/ turn /\ Turn(s, c)
               \/ /\ choked' = c
                  /\ granted' = {g \in granted : ~c[g]}
            /\ UNCHANGED <<conn, far, iQ>>
    BY DEF Update
  <1>2. c \in [Peers -> BOOLEAN]
    BY RechokedType DEF GInv
  <1>3. TypeOK'
    BY UpdateTypes DEF GInv
  <1>4. CASE choked' = c /\ granted' = {g \in granted : ~c[g]}
    <2>1. GrantsServed'
      BY <1>1, <1>4 DEF GInv, GrantsServed
    <2>2. ASSUME NEW r \in Sessions PROVE Cardinality(Granted(r)') <= Limit
      <3>1. Granted(r)' \subseteq Granted(r)
        BY <1>4 DEF Granted
      <3> QED
        BY <3>1, FewerGranted DEF GInv
    <2> QED
      BY <1>3, <2>1, <2>2 DEF GInv
  <1>5. CASE turn /\ Turn(s, c)
    <2>1. PICK p \in Of(s) \cup {NoPeer} :
              /\ choked' = [q \in Peers |-> c[q] /\ q # p]
              /\ granted' = {g \in granted : ~c[g]} \cup ({p} \ {NoPeer})
              /\ p # NoPeer => p \in Waiting(s, c)
              /\ Free(s, c)
      BY <1>5, TurnCases DEF GInv
    <2>2. granted' \subseteq Peers
      BY <1>3 DEF TypeOK
    <2>3. GrantsServed'
      <3> SUFFICES ASSUME NEW q \in granted'
                   PROVE  conn'[q] # "none" /\ ~choked'[q]
        BY DEF GrantsServed
      <3>1. CASE q = p /\ p # NoPeer
        BY <1>1, <2>1, <2>2, <3>1 DEF Waiting
      <3>2. CASE q \in granted /\ ~c[q]
        BY <1>1, <2>1, <2>2, <3>2 DEF GInv, GrantsServed
      <3> QED
        BY <2>1, <3>1, <3>2
    <2>4. ASSUME NEW r \in Sessions PROVE Cardinality(Granted(r)') <= Limit
      <3>1. CASE r = s
        <4>1. Granted(s)' \subseteq Served(s, c) \cup {p}
          <5> SUFFICES ASSUME NEW q \in Granted(s)', q # p
                       PROVE  q \in Served(s, c)
            OBVIOUS
          <5>1. q \in granted /\ ~c[q] /\ q \in Of(s)
            BY <2>1, <2>2 DEF Granted, Of
          <5> QED
            BY <5>1 DEF Served, GInv, GrantsServed
        <4> QED
          BY <2>1, <3>1, <4>1, OneMoreGranted DEF GInv
      <3>2. CASE r # s
        <4>1. Granted(r)' \subseteq Granted(r)
          BY <2>1, <3>2 DEF Granted, Of
        <4> QED
          BY <4>1, FewerGranted DEF GInv
      <3> QED
        BY <3>1, <3>2
    <2> QED
      BY <1>3, <2>3, <2>4 DEF GInv
  <1> QED
    BY <1>1, <1>4, <1>5

(* The other steps grant nothing; a granted peer loses its turn with its   *)
(* connection.                                                             *)
LEMMA PeerGrants ==
    ASSUME GInv, NEW p \in Peers, PeerStep(p)
    PROVE  GInv'
  <1>1. TypeOK'
    BY PeerTypes DEF GInv
  <1>2. granted' \subseteq granted
    BY DEF PeerStep, Connect, Shake, Bitfield, Close, SetHops
  <1>3. GrantsServed'
    <2> SUFFICES ASSUME NEW q \in granted'
                 PROVE  conn'[q] # "none" /\ ~choked'[q]
      BY DEF GrantsServed
    <2>1. q \in Peers /\ conn[q] # "none" /\ ~choked[q]
      BY <1>2 DEF GInv, GrantsServed, TypeOK
    <2>2. CASE Connect(p)
      BY <2>1, <2>2 DEF Connect, GInv, TypeOK
    <2>3. CASE Shake(p)
      BY <2>1, <2>3 DEF Shake, GInv, TypeOK
    <2>4. CASE Bitfield(p)
      BY <2>1, <2>4 DEF Bitfield, GInv, TypeOK
    <2>5. CASE Close(p)
      BY <2>1, <2>5 DEF Close, GInv, TypeOK
    <2>6. CASE SetHops(p)
      BY <2>1, <2>6 DEF SetHops
    <2> QED
      BY <2>2, <2>3, <2>4, <2>5, <2>6 DEF PeerStep
  <1>4. ASSUME NEW r \in Sessions PROVE Cardinality(Granted(r)') <= Limit
    <2>1. Granted(r)' \subseteq Granted(r)
      BY <1>2 DEF Granted
    <2> QED
      BY <2>1, FewerGranted DEF GInv
  <1> QED
    BY <1>1, <1>3, <1>4 DEF GInv

\* No turn has been given at first.
LEMMA InitGrants == Init => GInv
  <1> SUFFICES ASSUME Init PROVE GInv
    OBVIOUS
  <1>1. granted = {}
    BY DEF Init
  <1>2. ASSUME NEW s \in Sessions PROVE Cardinality(Granted(s)) <= Limit
    <2>1. Granted(s) = {}
      BY <1>1 DEF Granted
    <2> QED
      BY <2>1, FS_EmptySet, PolicyAssumption
  <1> QED
    BY <1>1, <1>2, InitTypes DEF GInv, GrantsServed

\* Every step keeps the bound on the turns.
LEMMA NextGrants == GInv /\ [Next]_vars => GInv'
  <1> SUFFICES ASSUME GInv, [Next]_vars PROVE GInv'
    OBVIOUS
  <1>1. CASE \E s \in Sessions, turn \in BOOLEAN : Update(s, turn)
    BY <1>1, UpdateGrants
  <1>2. CASE \E p \in Peers : PeerStep(p)
    BY <1>2, PeerGrants
  <1>3. CASE \E q \in 0 .. MaxQ : Configure(q)
    <2>1. TypeOK'
      BY <1>3, ConfigureTypes DEF GInv
    <2> QED
      BY <1>3, <2>1 DEF GInv, GrantsServed, Granted, Configure, peerVars
  <1>4. CASE UNCHANGED vars
    <2>1. TypeOK'
      BY <1>4, NextTypes DEF GInv
    <2> QED
      BY <1>4, <2>1 DEF GInv, GrantsServed, Granted, vars
  <1> QED
    BY <1>1, <1>2, <1>3, <1>4 DEF Next

\* The invariant bounds the turns that hold a place.
LEMMA InvWithinLimit == GInv => GrantsWithinLimit
  <1> SUFFICES ASSUME GInv, NEW s \in Sessions
               PROVE  Cardinality({p \in granted : SessionOf[p] = s /\ conn[p] # "none" /\ ~choked[p]}) <= Limit
    BY DEF GrantsWithinLimit
  <1>1. {p \in granted : SessionOf[p] = s /\ conn[p] # "none" /\ ~choked[p]} \subseteq Granted(s)
    BY DEF Granted
  <1> QED
    BY <1>1, FewerGranted DEF GInv

(* Turns never fill more than the places of a session, for any sessions,   *)
(* peers and limits, and whatever the user makes of iQ.                    *)
THEOREM PolicyWithinLimit == Spec => []GrantsWithinLimit
  BY InitGrants, NextGrants, InvWithinLimit, PTL DEF Spec
=============================================================================
