------------------------ MODULE RelayMatching_proofs ------------------------
(***************************************************************************)
(* The relay implements the matching of module Matching, for any sets of   *)
(* peers, sessions, devices and requests, any timeout and backpressure,    *)
(* among clients that register once per connection.                        *)
(***************************************************************************)
EXTENDS RelayServer_proofs

\* The partners of the abstract matching.
Partners(st) == [p \in Peer |-> IF p \in st.peers THEN st.paired_peer_id[p] ELSE None]

\* From st to x the peers of S left, and nothing else changed.
Left(st, x, S) ==
    /\ x.peers = st.peers \ S
    /\ Partners(x) = [p \in Peer |-> IF p \in S \/ Partners(st)[p] \in S
                                     THEN None ELSE Partners(st)[p]]

-----------------------------------------------------------------------------
(***************************************************************************)
(* What the methods are in the matching.                                   *)
(***************************************************************************)

LEMMA RemovePeerLeft ==
  ASSUME NEW st \in State, Sound(st), NEW p \in st.peers
  PROVE  Left(st, RemovePeer(st, p), {p})
<1> DEFINE rest == RemovePeer(st, p)
<1>1. rest.peers = st.peers \ {p} /\ rest.paired_peer_id = Unpair(st, p)
  BY RemovePeerTables
<1>2. p \in Peer /\ st.peers \subseteq Peer
  BY DEF State
<1> HIDE DEF rest
<1>3. ASSUME NEW q \in Peer
      PROVE  Partners(rest)[q] = IF q \in {p} \/ Partners(st)[q] \in {p}
                                 THEN None ELSE Partners(st)[q]
  <2>1. CASE q \in rest.peers
    <3>1. q \in st.peers /\ q # p
      BY <1>1, <2>1
    <3>2. Partners(rest)[q] = Unpair(st, p)[q] /\ Partners(st)[q] = st.paired_peer_id[q]
      BY <1>1, <2>1, <3>1 DEF Partners
    <3>3. CASE st.paired_peer_id[q] = p
      <4>1. st.paired_peer_id[p] = q
        BY <1>2, <3>1, <3>3, NoneAssumption DEF Sound, PairsSound, Mutual
      <4>2. Unpair(st, p)[q] = None
        BY <3>1, <3>3, <4>1 DEF Unpair, Partner
      <4> QED BY <3>2, <3>3, <4>2
    <3>4. CASE st.paired_peer_id[q] # p
      <4>1. Unpair(st, p)[q] = st.paired_peer_id[q]
        BY <3>4 DEF Unpair
      <4> QED BY <3>1, <3>2, <3>4, <4>1
    <3> QED BY <3>3, <3>4
  <2>2. CASE q \notin rest.peers
    BY <1>1, <2>2 DEF Partners
  <2> QED BY <2>1, <2>2
<1>4. Partners(rest) = [q \in Peer |-> IF q \in {p} \/ Partners(st)[q] \in {p}
                                       THEN None ELSE Partners(st)[q]]
  BY <1>3 DEF Partners
<1> QED BY <1>1, <1>4 DEF Left, rest

\* A failed send: its peer leaves, if it is there.
LEMMA SendFailedLeft ==
  ASSUME NEW st \in State, Sound(st), NEW p \in Peer
  PROVE  LET x == SendFailed(st, p)
         IN \/ p \in st.peers /\ Left(st, x, {p})
            \/ x.peers = st.peers /\ Partners(x) = Partners(st)
<1> DEFINE freed == ForceUnpair(st, p)
           x == SendFailed(st, p)
<1>1. /\ freed \in State /\ freed.peers = st.peers
      /\ freed.paired_peer_id = [Unpair(st, p) EXCEPT ![p] = None]
  BY ForceUnpairType, ForceUnpairTables
<1>2. x = RemovePeer(freed, p)
  BY DEF SendFailed
<1>3. /\ Unpair(st, p) \in [Peer -> Peer \cup {None}]
      /\ st.peers \subseteq Peer /\ st.paired_peer_id \in [Peer -> Peer \cup {None}]
  BY UnpairType DEF State
<1> HIDE DEF freed, x
\* Of the others, those that were paired with p are freed.
<1>4. \A q \in st.peers \ {p} :
        freed.paired_peer_id[q] = IF st.paired_peer_id[q] = p THEN None
                                  ELSE st.paired_peer_id[q]
  <2> SUFFICES ASSUME NEW q \in st.peers \ {p}
               PROVE  freed.paired_peer_id[q] = IF st.paired_peer_id[q] = p THEN None
                                                ELSE st.paired_peer_id[q]
    OBVIOUS
  <2>1. freed.paired_peer_id[q] = Unpair(st, p)[q]
    BY <1>1, <1>3
  <2>2. st.paired_peer_id[q] = p => q \in Partner(st, p)
    BY NoneAssumption DEF Sound, PairsSound, Mutual, Partner
  <2> QED BY <1>3, <2>1, <2>2 DEF Unpair
<1>5. CASE p \in st.peers
  <2>1. freed.paired_peer_id[p] = None
    BY <1>1, <1>3
  <2>2. Partner(freed, p) = {}
    BY <1>1, <1>3, <2>1, NoneAssumption DEF Partner
  <2>3. x.peers = st.peers \ {p} /\ x.paired_peer_id = Unpair(freed, p)
    BY <1>1, <1>2, <1>5, RemovePeerTables
  <2>4. \A q \in Peer : x.paired_peer_id[q] = freed.paired_peer_id[q]
    BY <2>2, <2>3 DEF Unpair
  <2>5. ASSUME NEW q \in Peer
        PROVE  Partners(x)[q] = IF q \in {p} \/ Partners(st)[q] \in {p}
                                THEN None ELSE Partners(st)[q]
    BY <1>4, <2>3, <2>4 DEF Partners
  <2>6. Partners(x) = [q \in Peer |-> IF q \in {p} \/ Partners(st)[q] \in {p}
                                      THEN None ELSE Partners(st)[q]]
    BY <2>5 DEF Partners
  <2> QED BY <1>5, <2>3, <2>6 DEF Left, x
<1>6. CASE p \notin st.peers
  <2>1. x = freed
    BY <1>1, <1>2, <1>6 DEF RemovePeer
  <2>2. \A q \in st.peers : st.paired_peer_id[q] # p
    BY <1>6, NoneAssumption DEF Sound, PairsSound, Mutual
  <2>3. \A q \in st.peers : x.paired_peer_id[q] = st.paired_peer_id[q]
    BY <1>4, <1>6, <2>1, <2>2
  <2>4. x.peers = st.peers /\ Partners(x) = Partners(st)
    BY <1>1, <2>1, <2>3 DEF Partners
  <2> QED BY <2>4 DEF x
<1> QED BY <1>5, <1>6

\* Freeing a host: its partner leaves, if it has one.
LEMMA DropStalePairedLeft ==
  ASSUME NEW st \in State, Sound(st), NEW h \in st.peers
  PROVE  Left(st, DropStalePaired(st, h), {st.paired_peer_id[h]} \ {None})
<1> DEFINE old == st.paired_peer_id[h]
           host == [st EXCEPT !.paired_peer_id = [@ EXCEPT ![h] = None]]
           free == RemovePeer(host, old)
<1>1. free = DropStalePaired(st, h)
  BY DEF DropStalePaired
<1>2. /\ host \in State /\ host.peers = st.peers
      /\ host.paired_peer_id = [st.paired_peer_id EXCEPT ![h] = None]
      /\ h \in Peer /\ old \in Peer \cup {None} /\ st.peers \subseteq Peer
      /\ st.paired_peer_id \in [Peer -> Peer \cup {None}]
  BY DEF State
<1> HIDE DEF host
<1>3. CASE old = None
  <2>1. free = host
    BY <1>2, <1>3, NoneAssumption DEF RemovePeer
  <2>2. host.paired_peer_id = st.paired_peer_id
    BY <1>2, <1>3
  <2>3. Partners(host) = Partners(st)
    BY <1>2, <2>2 DEF Partners
  <2>4. {old} \ {None} = {}
    BY <1>3
  <2>5. Partners(st) = [q \in Peer |-> IF q \in {} \/ Partners(st)[q] \in {}
                                       THEN None ELSE Partners(st)[q]]
    BY DEF Partners
  <2> HIDE DEF free, old
  <2>6. Left(st, free, {old} \ {None})
    BY <1>2, <2>1, <2>3, <2>4, <2>5 DEF Left
  <2> QED BY <1>1, <2>6 DEF old
<1>4. CASE old # None
  <2>1. old # h /\ old \in st.peers /\ st.paired_peer_id[old] = h
    BY <1>4 DEF Sound, PairsSound, Mutual
  <2>2. free.peers = st.peers \ {old} /\ free.paired_peer_id = Unpair(host, old)
    BY <1>2, <2>1, RemovePeerTables
  <2>3. \A q \in Peer : host.paired_peer_id[q] = IF q = h THEN None ELSE st.paired_peer_id[q]
    BY <1>2
  <2>4. \A q \in Peer : free.paired_peer_id[q] = IF q = h THEN None ELSE st.paired_peer_id[q]
    BY <1>2, <2>1, <2>2, <2>3 DEF Unpair, Partner
  <2> HIDE DEF free
  <2>5. \A q \in st.peers : st.paired_peer_id[q] = old <=> q = h
    BY <1>4, <2>1 DEF Sound, PairsSound, Mutual
  <2>6. ASSUME NEW q \in Peer
        PROVE  Partners(free)[q] = IF q \in {old} \/ Partners(st)[q] \in {old}
                                   THEN None ELSE Partners(st)[q]
    BY <1>4, <2>2, <2>4, <2>5 DEF Partners
  <2>7. Partners(free) = [q \in Peer |-> IF q \in {old} \/ Partners(st)[q] \in {old}
                                         THEN None ELSE Partners(st)[q]]
    BY <2>6 DEF Partners
  <2>8. {old} \ {None} = {old}
    BY <1>4
  <2> HIDE DEF old
  <2>9. Left(st, free, {old} \ {None})
    BY <2>2, <2>7, <2>8 DEF Left
  <2> QED BY <1>1, <2>9 DEF old
<1> QED BY <1>3, <1>4

-----------------------------------------------------------------------------
(***************************************************************************)
(* Every step is a step of the matching, or none.                          *)
(***************************************************************************)

\* The mapped variables, and what follows from them.
LEMMA MappedSame ==
  ASSUME srv'.peers = srv.peers, Partners(srv') = Partners(srv)
  PROVE  UNCHANGED Abstract!mvars
BY DEF Partners, Abstract!mvars

LEMMA MappedLeave ==
  ASSUME srv \in State, NEW S, S # {}, S \subseteq srv.peers, Left(srv, srv', S)
  PROVE  Abstract!Next
<1>1. Abstract!Leave(S)
  BY DEF Left, Partners, Abstract!Leave, Abstract!Without
<1>2. S \in SUBSET Peer
  BY DEF State
<1> QED BY <1>1, <1>2 DEF Abstract!Next

\* A REGISTER matches its sender with a host, or leaves the matching alone.
LEMMA RegisterMapped ==
  ASSUME WellBehaved, PairingInv, NEW c \in Peer, HandleRegister(c)
  PROVE  Abstract!Next \/ UNCHANGED Abstract!mvars
<1> PICK d \in DeviceId \cup {None} :
       LET st == RegisterDevice(srv, c, d)
       IN \/ srv' = st
          \/ \E s \in SessionId : Hosted(st, c, s)
          \/ \E s \in SessionId : Joined(st, c, s)
  BY RegisterOutcome DEF PairingInv
<1> DEFINE st == RegisterDevice(srv, c, d)
<1>1. c \in srv.peers /\ Unused(srv, c)
  BY RegisterOutcome DEF PairingInv, WellBehaved, ReceivesRegister, Receives, Readable, WriterMatches
<1>2. /\ srv \in State /\ st \in State /\ Sound(st)
      /\ st.peers = srv.peers /\ st.paired_peer_id = srv.paired_peer_id
      /\ st.sessions = srv.sessions
  BY <1>1, RegisterDeviceSound DEF PairingInv, TypeOK
<1> HIDE DEF st
<1>3. ASSUME srv'.peers = st.peers, srv'.paired_peer_id = st.paired_peer_id
      PROVE  UNCHANGED Abstract!mvars
  BY <1>2, <1>3, MappedSame DEF Partners
<1>4. ASSUME NEW s \in SessionId, Hosted(st, c, s) PROVE UNCHANGED Abstract!mvars
  <2>1. srv'.peers = st.peers /\ srv'.paired_peer_id = st.paired_peer_id
    BY <1>2, <1>4 DEF Hosted, HostSession, State
  <2> QED BY <1>3, <2>1
<1>5. ASSUME NEW s \in SessionId, Joined(st, c, s) PROVE Abstract!Next
  <2> DEFINE h == st.sessions[s]
             old == st.paired_peer_id[h]
             free == DropStalePaired(st, h)
             gone == {old} \ {None}
  <2>1. /\ h \in st.peers /\ srv' = Pair(free, c, h, s)
        /\ h \in Peer /\ h # c /\ old \in Peer \cup {None}
    BY <1>1, <1>2, <1>5 DEF Joined, Unused, State
  <2>2. /\ free \in State /\ Left(st, free, gone)
        /\ c \in free.peers /\ h \in free.peers
    BY <1>1, <1>2, <2>1, DropStalePairedType, DropStalePairedLeft, DropStalePairedSound
       DEF Unused
  <2>3. None \notin srv.peers
    BY <1>2, NoneAssumption DEF State
  <2>4. Partners(srv)[h] = old /\ Partners(srv)[c] = None
    BY <1>1, <1>2, <2>1 DEF Partners, Unused
  <2> HIDE DEF h, old, free
  <2>5. /\ srv'.peers = free.peers
        /\ srv'.paired_peer_id = [free.paired_peer_id EXCEPT ![c] = h, ![h] = c]
        /\ free.paired_peer_id \in [Peer -> Peer \cup {None}]
    BY <2>1, <2>2 DEF Pair, State
  <2>6. Partners(st) = Partners(srv)
    BY <1>2 DEF Partners
  <2>7. free.peers = srv.peers \ {old} /\ srv'.peers = srv.peers \ {old}
    BY <1>2, <2>2, <2>3, <2>5 DEF Left
  <2>8. Partners(srv') = [Partners(free) EXCEPT ![c] = h, ![h] = c]
    BY <2>1, <2>2, <2>5 DEF Partners
  <2>9. Partners(free) = [q \in Peer |-> IF q \in gone \/ Partners(srv)[q] \in gone
                                         THEN None ELSE Partners(srv)[q]]
    BY <2>2, <2>6 DEF Left
  <2>10. \E g \in Peer : g = h
    BY <2>1
  <2>11. ASSUME NEW g \in Peer, g = h PROVE Abstract!Match(c, g)
    <3>1. {c, h} \subseteq srv.peers
      BY <1>1, <1>2, <2>1
    <3> HIDE DEF gone
    <3>2. Abstract!Without(gone) = Partners(free)
      BY <2>9 DEF Abstract!Without, Partners
    <3>3. Partners(srv') = [Abstract!Without({Partners(srv)[h]} \ {None})
                              EXCEPT ![c] = h, ![h] = c]
      BY <2>4, <2>8, <3>2 DEF gone
    <3>4. srv'.peers = srv.peers \ {Partners(srv)[h]}
      BY <2>4, <2>7
    <3> QED BY <2>1, <2>4, <2>11, <3>1, <3>3, <3>4 DEF Abstract!Match, Partners
  <2> QED BY <2>10, <2>11 DEF Abstract!Next
<1> QED BY <1>3, <1>4, <1>5 DEF st

LEMMA NextMapped ==
  ASSUME WellBehaved, PairingInv, Next
  PROVE  Abstract!Next \/ UNCHANGED Abstract!mvars
<1> srv \in State /\ Sound(srv)
  BY DEF PairingInv, TypeOK
<1>1. ASSUME srv'.peers = srv.peers, srv'.paired_peer_id = srv.paired_peer_id
      PROVE  UNCHANGED Abstract!mvars
  BY <1>1, MappedSame DEF Partners
<1>2. ASSUME NEW p, srv'.peers = RemovePeer(srv, p).peers,
             srv'.paired_peer_id = RemovePeer(srv, p).paired_peer_id
      PROVE  Abstract!Next \/ UNCHANGED Abstract!mvars
  <2>1. CASE p \in srv.peers
    <3>1. Left(srv, srv', {p})
      BY <1>2, <2>1, RemovePeerLeft DEF Left, Partners
    <3> QED BY <2>1, <3>1, MappedLeave
  <2>2. CASE p \notin srv.peers
    BY <1>1, <1>2, <2>2 DEF RemovePeer
  <2> QED BY <2>1, <2>2
<1>3. ASSUME NEW p \in Peer, srv' = srv \/ srv' = SendFailed(srv, p)
      PROVE  Abstract!Next \/ UNCHANGED Abstract!mvars
  BY <1>3, SendFailedLeft, MappedLeave, MappedSame
<1>4. ASSUME NEW c \in Peer, Accept(c) PROVE Abstract!Next
  <2>1. /\ srv'.peers = srv.peers \cup {c} /\ c \notin running
        /\ srv'.paired_peer_id = [srv.paired_peer_id EXCEPT ![c] = None]
    BY <1>4 DEF Accept, Unreferenced, State
  <2>2. c \notin srv.peers
    BY <2>1 DEF PairingInv, WriterMatches
  <2>3. Partners(srv') = Partners(srv)
    BY <2>1, <2>2 DEF Partners, State
  <2>4. Abstract!Connect(c)
    BY <2>1, <2>2, <2>3 DEF Abstract!Connect, Partners
  <2> QED BY <2>4 DEF Abstract!Next
<1>5. ASSUME NEW c \in Peer, HandlerExit(c)
      PROVE  Abstract!Next \/ UNCHANGED Abstract!mvars
  <2> DEFINE rest == RemovePeer(srv, c)
  <2>1. rest \in State
    BY RemovePeerType
  <2>2. srv' = [rest EXCEPT !.metrics = OnDisconnection(@)]
    BY <1>5 DEF HandlerExit
  <2> HIDE DEF rest
  <2>3. srv'.peers = rest.peers /\ srv'.paired_peer_id = rest.paired_peer_id
    BY <2>1, <2>2 DEF State
  <2> QED BY <1>2, <2>3 DEF rest
<1>6. ASSUME NEW c \in Peer, HandleForward(c) \/ HandlePing(c)
      PROVE  UNCHANGED Abstract!mvars
  BY <1>1, <1>6 DEF HandleForward, HandlePing, WriteTo
<1>7. ASSUME NEW c \in Peer, NEW p \in Peer, Resume(c, p)
      PROVE  Abstract!Next \/ UNCHANGED Abstract!mvars
  BY <1>3, <1>7 DEF Resume
<1>8. ASSUME NEW c \in Peer, BgDrained(c)
      PROVE  Abstract!Next \/ UNCHANGED Abstract!mvars
  BY <1>3, <1>8 DEF BgDrained
<1>9. ASSUME NEW c \in Peer, CleanupRemove(c) \/ DisconnectPeer(c)
      PROVE  Abstract!Next \/ UNCHANGED Abstract!mvars
  BY <1>2, <1>9 DEF CleanupRemove, DisconnectPeer
<1>10. ASSUME NEW c \in Peer, LinkLost(c) \/ StartNotify(c) PROVE UNCHANGED Abstract!mvars
  BY <1>1, <1>10 DEF LinkLost, StartNotify, State
<1>11. CASE StartRelist
  BY <1>1, <1>11 DEF StartRelist, State
<1>12. CASE Tick \/ CleanupTick
  BY <1>1, <1>12 DEF Tick, CleanupTick
<1>13. CASE Stop
  <2>1. srv'.peers = {}
    BY <1>13 DEF Stop, State
  <2>2. CASE srv.peers = {}
    BY <2>1, <2>2, MappedSame DEF Partners
  <2>3. CASE srv.peers # {}
    <3>1. Left(srv, srv', srv.peers)
      BY <2>1 DEF Left, Partners
    <3> QED BY <2>3, <3>1, MappedLeave
  <2> QED BY <2>2, <2>3
\* c has not registered, so it leaves nobody behind.
<1>14. ASSUME NEW c \in Peer, RegisterUnhashable(c) PROVE Abstract!Next
  <2>1. /\ srv'.peers = srv.peers \ {c} /\ srv'.paired_peer_id = srv.paired_peer_id
        /\ c \in srv.peers
    BY <1>14 DEF RegisterUnhashable, State
  <2>2. srv.paired_peer_id[c] = None /\ c # None
    BY <1>14, NoneAssumption DEF RegisterUnhashable, PairingInv, WellBehaved, Unused
  <2>3. \A q \in srv.peers : srv.paired_peer_id[q] # c
    BY <2>2, NoneAssumption DEF Sound, PairsSound, Mutual, State
  <2>4. Left(srv, srv', {c})
    BY <2>1, <2>2, <2>3 DEF Left, Partners
  <2> QED BY <2>1, <2>4, MappedLeave
<1>15. ASSUME NEW c \in Peer, NEW p \in Peer, HandleUnpackable(c, p)
       PROVE  Abstract!Next \/ UNCHANGED Abstract!mvars
  BY <1>3, <1>15 DEF HandleUnpackable
<1> QED
  BY <1>4, <1>5, <1>6, <1>7, <1>8, <1>9, <1>10, <1>11, <1>12, <1>13, <1>14, <1>15,
     RegisterMapped DEF Next

\* Among clients that register once per connection, the pairings are a matching of
\* the connected peers: it grows only by two free peers, and shrinks only with a peer
\* that leaves.
THEOREM MatchingCorrect == WellBehaved => (Spec => ImplementsMatching)
<1> SUFFICES ASSUME WellBehaved PROVE Spec => ImplementsMatching
  OBVIOUS
<1>1. Init => Abstract!Init
  BY DEF Init, Abstract!Init
<1>2. PairingInv /\ [Next]_vars => [Abstract!Next]_Abstract!mvars
  <2> SUFFICES ASSUME PairingInv, [Next]_vars
               PROVE  Abstract!Next \/ UNCHANGED Abstract!mvars
    OBVIOUS
  <2>1. CASE UNCHANGED vars
    BY <2>1 DEF vars, Abstract!mvars
  <2> QED BY <2>1, NextMapped
<1>3. Spec => []PairingInv
  BY PairingInvariant
<1> QED BY <1>1, <1>2, <1>3, PTL DEF Spec, ImplementsMatching, Abstract!Spec
=============================================================================
