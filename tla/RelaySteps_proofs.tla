------------------------- MODULE RelaySteps_proofs -------------------------
(***************************************************************************)
(* Theorems about the steps of RelayServer: what may end a pairing, what   *)
(* may remove a peer and what may take its entries, in every environment.  *)
(***************************************************************************)
EXTENDS RelayServer_proofs

-----------------------------------------------------------------------------
(***************************************************************************)
(* What the methods leave of a pairing.                                    *)
(***************************************************************************)

\* A removal, late or not, leaves the pairings of others alone.
LEMMA RemovePeerMutual ==
  ASSUME NEW st \in State, NEW p, NEW x \in Peer, NEW y \in Peer,
         Mutual(st, x, y), {x, y} \subseteq RemovePeer(st, p).peers
  PROVE  Mutual(RemovePeer(st, p), x, y)
<1> DEFINE rest == RemovePeer(st, p)
<1>1. rest.peers = st.peers \ {p}
  BY RemovePeerTables
<1>2. rest.paired_peer_id = IF p \in st.peers THEN Unpair(st, p) ELSE st.paired_peer_id
  BY RemovePeerTables
<1>3. p # x /\ p # y
  BY <1>1
<1>4. Unpair(st, p)[x] = y /\ Unpair(st, p)[y] = x
  BY <1>3 DEF Mutual, Unpair
<1> HIDE DEF rest
<1> QED BY <1>1, <1>2, <1>3, <1>4 DEF Mutual, rest

\* So does a failed send.
LEMMA SendFailedMutual ==
  ASSUME NEW st \in State, NEW p \in Peer, NEW x \in Peer, NEW y \in Peer,
         Mutual(st, x, y), {x, y} \subseteq SendFailed(st, p).peers
  PROVE  Mutual(SendFailed(st, p), x, y)
<1> DEFINE freed == ForceUnpair(st, p)
<1>1. freed \in State /\ freed.peers = st.peers
  BY ForceUnpairType, ForceUnpairTables
<1>2. freed.paired_peer_id = [Unpair(st, p) EXCEPT ![p] = None]
  BY ForceUnpairTables
<1>3. SendFailed(st, p) = RemovePeer(freed, p)
  BY DEF SendFailed
<1> HIDE DEF freed
<1>4. RemovePeer(freed, p).peers = st.peers \ {p}
  BY <1>1, RemovePeerTables
<1>5. p # x /\ p # y
  BY <1>3, <1>4
<1>6. Mutual(freed, x, y)
  <2>1. Unpair(st, p)[x] = y /\ Unpair(st, p)[y] = x
    BY <1>5 DEF Mutual, Unpair
  <2>2. freed.paired_peer_id[x] = y /\ freed.paired_peer_id[y] = x
    BY <1>2, <1>5, <2>1, UnpairType
  <2> QED BY <1>1, <2>2 DEF Mutual
<1> QED BY <1>1, <1>3, <1>6, RemovePeerMutual

\* _drop_stale_paired removes the host's partner, if it is connected, and no one else.
LEMMA DropStalePairedPeers ==
  ASSUME NEW st \in State, NEW h \in Peer
  PROVE  /\ DropStalePaired(st, h).peers = st.peers \ {st.paired_peer_id[h]}
         /\ [st EXCEPT !.paired_peer_id = [@ EXCEPT ![h] = None]] \in State
<1> DEFINE freed == [st EXCEPT !.paired_peer_id = [@ EXCEPT ![h] = None]]
<1>1. freed \in State /\ freed.peers = st.peers
  BY DEF State
<1> HIDE DEF freed
<1>2. RemovePeer(freed, st.paired_peer_id[h]).peers = st.peers \ {st.paired_peer_id[h]}
  BY <1>1, RemovePeerTables
<1> QED BY <1>1, <1>2 DEF DropStalePaired, freed

\* A join that is let through takes no host with a working pairing whose two ends
\* both stay, and no pairing from anyone else.
LEMMA DropStalePairedMutual ==
  ASSUME NEW st \in State, NEW h \in Peer, NEW x \in Peer, NEW y \in Peer,
         Mutual(st, x, y), {x, y} \subseteq DropStalePaired(st, h).peers
  PROVE  h # x /\ h # y /\ Mutual(DropStalePaired(st, h), x, y)
<1> DEFINE old == st.paired_peer_id[h]
           freed == [st EXCEPT !.paired_peer_id = [@ EXCEPT ![h] = None]]
<1>1. old # x /\ old # y
  BY DropStalePairedPeers
<1>2. h # x /\ h # y
  BY <1>1 DEF Mutual
<1>3. freed \in State
  BY DropStalePairedPeers
<1>4. Mutual(freed, x, y)
  BY <1>2 DEF Mutual, State
<1>5. DropStalePaired(st, h) = RemovePeer(freed, old)
  BY DEF DropStalePaired
<1> HIDE DEF freed, old
<1> QED BY <1>2, <1>3, <1>4, <1>5, RemovePeerMutual

-----------------------------------------------------------------------------
(***************************************************************************)
(* Pairings.                                                               *)
(***************************************************************************)

\* Only a REGISTER of one of the two ends a pairing of peers that stay.
LEMMA NextMutual ==
  ASSUME TypeOK, WriterMatches(srv), Next,
         NEW x \in Peer, NEW y \in Peer,
         Mutual(srv, x, y), {x, y} \subseteq srv'.peers,
         ~ HandleRegister(x), ~ HandleRegister(y)
  PROVE  Mutual(srv', x, y)
<1> srv \in State
  BY DEF TypeOK
<1>1. ASSUME srv'.paired_peer_id = srv.paired_peer_id
      PROVE  Mutual(srv', x, y)
  BY <1>1 DEF Mutual
<1>2. ASSUME NEW c \in Peer, Accept(c) PROVE Mutual(srv', x, y)
  <2>1. c \notin srv.peers
    BY <1>2 DEF Accept, Unreferenced, WriterMatches
  <2>2. srv'.paired_peer_id = [srv.paired_peer_id EXCEPT ![c] = None]
    BY <1>2 DEF Accept, State
  <2> QED BY <2>1, <2>2 DEF Mutual, State
<1>3. ASSUME NEW c \in Peer, HandlerExit(c) PROVE Mutual(srv', x, y)
  <2> DEFINE rest == RemovePeer(srv, c)
  <2>1. rest \in State
    BY RemovePeerType
  <2>2. srv' = [rest EXCEPT !.metrics = OnDisconnection(@)]
    BY <1>3 DEF HandlerExit
  <2> HIDE DEF rest
  <2>3. srv'.peers = rest.peers /\ srv'.paired_peer_id = rest.paired_peer_id
    BY <2>1, <2>2 DEF State
  <2>4. Mutual(rest, x, y)
    BY <2>3, RemovePeerMutual DEF rest
  <2> QED BY <2>3, <2>4 DEF Mutual
<1>4. ASSUME NEW c \in Peer, HandleRegister(c) PROVE Mutual(srv', x, y)
  <2>1. c # x /\ c # y
    BY <1>4
  <2> PICK d \in DeviceId \cup {None} :
         LET st == RegisterDevice(srv, c, d)
         IN \/ srv' = st
            \/ \E s \in SessionId : Hosted(st, c, s)
            \/ \E s \in SessionId : Joined(st, c, s)
    BY <1>4, RegisterOutcome
  <2> DEFINE st == RegisterDevice(srv, c, d)
  <2>2. st \in State /\ st.peers = srv.peers /\ st.paired_peer_id = srv.paired_peer_id
    <3>1. st \in State
      BY RegisterDeviceType
    <3> QED BY <3>1 DEF RegisterDevice, State
  <2> HIDE DEF st
  <2>3. CASE srv' = st
    BY <1>1, <2>2, <2>3
  <2>4. ASSUME NEW s \in SessionId, Hosted(st, c, s) PROVE Mutual(srv', x, y)
    <3>1. srv'.paired_peer_id = st.paired_peer_id
      BY <2>2, <2>4 DEF Hosted, HostSession, State
    <3> QED BY <1>1, <2>2, <3>1
  <2>5. ASSUME NEW s \in SessionId, Joined(st, c, s) PROVE Mutual(srv', x, y)
    <3> DEFINE h == st.sessions[s]
               free == DropStalePaired(st, h)
    <3>1. h \in Peer /\ srv' = Pair(free, c, h, s)
      BY <2>2, <2>5 DEF Joined, State
    <3>2. free \in State
      BY <2>2, DropStalePairedType
    <3>3. Mutual(st, x, y)
      BY <2>2 DEF Mutual
    <3> HIDE DEF h
    <3>4. /\ srv'.peers = free.peers
          /\ srv'.paired_peer_id = [free.paired_peer_id EXCEPT ![c] = h, ![h] = c]
      <4> HIDE DEF free
      <4> QED BY <3>1, <3>2 DEF Pair, State
    <3>5. h # x /\ h # y /\ Mutual(free, x, y)
      BY <2>2, <3>1, <3>3, <3>4, DropStalePairedMutual
    <3> HIDE DEF free
    <3>6. free.paired_peer_id \in [Peer -> Peer \cup {None}]
      BY <3>2 DEF State
    <3>7. srv'.paired_peer_id[x] = y /\ srv'.paired_peer_id[y] = x
      BY <2>1, <3>4, <3>5, <3>6 DEF Mutual
    <3> QED BY <3>7 DEF Mutual
  <2> QED BY <2>3, <2>4, <2>5 DEF st
<1>5. ASSUME NEW c \in Peer, NEW p \in Peer, Resume(c, p) \/ (BgDrained(p) /\ c = p)
      PROVE  Mutual(srv', x, y)
  BY <1>5, DrainOutcome, SendFailedMutual
<1>6. ASSUME NEW c \in Peer, CleanupRemove(c) \/ DisconnectPeer(c)
      PROVE  Mutual(srv', x, y)
  BY <1>6, RemovePeerMutual DEF CleanupRemove, DisconnectPeer
<1>7. ASSUME NEW c \in Peer,
             LinkLost(c) \/ HandleForward(c) \/ HandlePing(c) \/ StartNotify(c)
      PROVE  Mutual(srv', x, y)
  BY <1>1, <1>7 DEF LinkLost, HandleForward, HandlePing, WriteTo, StartNotify, State
<1>8. CASE StartRelist \/ Tick \/ CleanupTick \/ Stop
  BY <1>1, <1>8 DEF StartRelist, Tick, CleanupTick, Stop, State
<1>9. ASSUME NEW c \in Peer, RegisterUnhashable(c) PROVE Mutual(srv', x, y)
  BY <1>1, <1>9 DEF RegisterUnhashable, State
<1>10. ASSUME NEW c \in Peer, NEW p \in Peer, HandleUnpackable(c, p)
       PROVE  Mutual(srv', x, y)
  BY <1>10, SendFailedMutual DEF HandleUnpackable
<1> QED BY <1>2, <1>3, <1>4, <1>5, <1>6, <1>7, <1>8, <1>9, <1>10 DEF Next

\* No third party takes a working pairing away: for any number of peers and sessions,
\* whatever they send and however often they register, in whatever order former
\* partners are removed and sends fail.
THEOREM PairingKept == Spec => PairingNotStolen
<1>1. TypeOK /\ WriterMatchesTable /\ [Next]_vars =>
        [\A x, y \in Peer :
           /\ Mutual(srv, x, y)
           /\ {x, y} \subseteq srv'.peers
           => \/ Mutual(srv', x, y)
              \/ HandleRegister(x)
              \/ HandleRegister(y)]_vars
  <2> SUFFICES ASSUME TypeOK, WriterMatchesTable, Next,
                      NEW x \in Peer, NEW y \in Peer,
                      Mutual(srv, x, y), {x, y} \subseteq srv'.peers
               PROVE  Mutual(srv', x, y) \/ HandleRegister(x) \/ HandleRegister(y)
    OBVIOUS
  <2>1. WriterMatches(srv)
    BY DEF TypeOK, WriterMatches, WriterMatchesTable
  <2> QED BY <2>1, NextMutual
<1> QED BY <1>1, TypeCorrect, TableCorrect, PTL DEF Spec, PairingNotStolen

-----------------------------------------------------------------------------
(***************************************************************************)
(* Removals.                                                               *)
(***************************************************************************)

\* The pass under way visits stale peers only: no one is heard of meanwhile.
Swept == \A p \in sweep : age[p] > PeerTimeout

LEMMA NextSwept ==
  ASSUME Swept, [Next]_vars
  PROVE  Swept'
<1>1. CASE LoopFree /\ UNCHANGED sweep
  BY <1>1 DEF LoopFree, Swept
<1>2. CASE CleanupTick
  BY <1>2 DEF CleanupTick, Swept
<1>3. ASSUME NEW p \in Peer, CleanupRemove(p) PROVE Swept'
  BY <1>3 DEF CleanupRemove, Swept
<1>4. CASE UNCHANGED vars
  BY <1>4 DEF vars, Swept
<1>5. ASSUME NEW c \in Peer, HandleRegister(c) PROVE Swept'
  <2>1. Receives(c)
    BY <1>5 DEF HandleRegister, RegisterLookup, RegisterLegacy, RegisterJoin, RegisterHost,
                ReceivesRegister
  <2> QED BY <1>1, <2>1 DEF Receives, Readable
<1> QED
  BY <1>1, <1>2, <1>3, <1>4, <1>5 DEF Next, Accept, HandlerExit, LinkLost, HandleForward, HandlePing,
     RegisterUnhashable, HandleUnpackable, Receives, Readable, Resume, StartNotify, BgDrained, DisconnectPeer, StartRelist, Tick, Stop

LEMMA SendFailedPeers ==
  ASSUME NEW st \in State, NEW p
  PROVE  SendFailed(st, p).peers = st.peers \ {p}
<1> DEFINE freed == ForceUnpair(st, p)
<1>1. freed \in State /\ freed.peers = st.peers
  BY ForceUnpairType, ForceUnpairTables
<1> HIDE DEF freed
<1>2. RemovePeer(freed, p).peers = freed.peers \ {p}
  BY <1>1, RemovePeerTables
<1> QED BY <1>1, <1>2 DEF SendFailed, freed

LEMMA NextRemoved ==
  ASSUME TypeOK, Swept, Next, NEW p \in srv.peers \ srv'.peers
  PROVE  \/ p \notin running'
         \/ age[p] > PeerTimeout
         \/ srv.link[p] # "open"
         \/ DisconnectPeer(p)
         \/ Stop
         \/ \E c \in Peer : HandleUnpackable(c, p)
<1> srv \in State
  BY DEF TypeOK
<1>1. ASSUME srv'.peers = srv.peers PROVE FALSE
  BY <1>1
<1>2. ASSUME NEW c \in Peer, Accept(c) PROVE FALSE
  BY <1>2 DEF Accept, State
<1>3. ASSUME NEW c \in Peer, HandlerExit(c) PROVE p \notin running'
  <2> DEFINE rest == RemovePeer(srv, c)
  <2>1. rest \in State /\ rest.peers = srv.peers \ {c}
    BY RemovePeerType, RemovePeerTables
  <2>2. srv' = [rest EXCEPT !.metrics = OnDisconnection(@)] /\ running' = running \ {c}
    BY <1>3 DEF HandlerExit
  <2> HIDE DEF rest
  <2>3. srv'.peers = rest.peers
    BY <2>1, <2>2 DEF State
  <2> QED BY <2>1, <2>2, <2>3
<1>4. ASSUME NEW c \in Peer, HandleRegister(c) PROVE age[p] > PeerTimeout
  <2> PICK d \in DeviceId \cup {None} :
         LET st == RegisterDevice(srv, c, d)
         IN \/ srv' = st
            \/ \E s \in SessionId : Hosted(st, c, s)
            \/ \E s \in SessionId : Joined(st, c, s)
    BY <1>4, RegisterOutcome
  <2> DEFINE st == RegisterDevice(srv, c, d)
  <2>1. st \in State /\ st.peers = srv.peers
    <3>1. st \in State
      BY RegisterDeviceType
    <3> QED BY <3>1 DEF RegisterDevice, State
  <2> HIDE DEF st
  <2>2. CASE srv' = st
    BY <1>1, <2>1, <2>2
  <2>3. ASSUME NEW s \in SessionId, Hosted(st, c, s) PROVE FALSE
    <3>1. srv'.peers = st.peers
      BY <2>1, <2>3 DEF Hosted, HostSession, State
    <3> QED BY <1>1, <2>1, <3>1
  <2>4. ASSUME NEW s \in SessionId, Joined(st, c, s) PROVE age[p] > PeerTimeout
    <3> DEFINE h == st.sessions[s]
               free == DropStalePaired(st, h)
    <3>1. h \in Peer /\ srv' = Pair(free, c, h, s) /\ ~ Refuses(st, h, c)
      BY <2>1, <2>4 DEF Joined, State
    <3>2. free \in State /\ free.peers = st.peers \ {st.paired_peer_id[h]}
      BY <2>1, <3>1, DropStalePairedType, DropStalePairedPeers
    <3> HIDE DEF free, h
    <3>3. srv'.peers = free.peers
      BY <3>1, <3>2 DEF Pair, State
    <3>4. p = st.paired_peer_id[h]
      BY <2>1, <3>2, <3>3
    <3>5. p \in Peer /\ ~ (age[p] <= PeerTimeout)
      BY <2>1, <3>1, <3>4 DEF Refuses, State
    <3> QED BY <3>5, BoundsAssumption DEF TypeOK
  <2> QED BY <2>2, <2>3, <2>4 DEF st
<1>5. ASSUME NEW c \in Peer, NEW q \in Peer, Resume(c, q) \/ (BgDrained(q) /\ c = q)
      PROVE  srv.link[p] # "open"
  <2> DEFINE failed == SendFailed(srv, q)
  <2>0. Drained(q, srv')
    BY <1>5 DEF Resume, BgDrained
  <2>1. srv' = srv \/ (srv.link[q] # "open" /\ srv' = failed)
    <3>1. srv' = srv \/ (srv.link[q] \in {"closing", "lost"} /\ srv' = failed)
      BY <2>0 DEF Drained
    <3> HIDE DEF failed
    <3> QED BY <3>1
  <2>2. SendFailed(srv, q).peers = srv.peers \ {q}
    BY SendFailedPeers
  <2> QED BY <1>1, <2>1, <2>2
<1>6. ASSUME NEW c \in Peer, CleanupRemove(c) PROVE age[p] > PeerTimeout
  <2>1. srv'.peers = srv.peers \ {c} /\ c \in sweep
    BY <1>6, RemovePeerTables DEF CleanupRemove
  <2> QED BY <2>1 DEF Swept
<1>7. ASSUME NEW c \in Peer, DisconnectPeer(c) PROVE DisconnectPeer(p)
  <2>1. srv'.peers = srv.peers \ {c}
    BY <1>7, RemovePeerTables DEF DisconnectPeer
  <2> QED BY <1>7, <2>1
<1>8. ASSUME NEW c \in Peer,
             LinkLost(c) \/ HandleForward(c) \/ HandlePing(c) \/ StartNotify(c)
      PROVE  FALSE
  BY <1>1, <1>8 DEF LinkLost, HandleForward, HandlePing, WriteTo, StartNotify, State
<1>9. CASE StartRelist \/ Tick \/ CleanupTick
  BY <1>1, <1>9 DEF StartRelist, Tick, CleanupTick, State
<1>10. CASE Stop
  BY <1>10
<1>11. ASSUME NEW c \in Peer, RegisterUnhashable(c) PROVE p \notin running'
  BY <1>11 DEF RegisterUnhashable, State
<1>12. ASSUME NEW c \in Peer, NEW q \in Peer, HandleUnpackable(c, q)
       PROVE  HandleUnpackable(c, p)
  <2>1. srv'.peers = srv.peers \ {q}
    BY <1>12, SendFailedPeers DEF HandleUnpackable
  <2> QED BY <1>12, <2>1
<1> QED BY <1>2, <1>3, <1>4, <1>5, <1>6, <1>7, <1>8, <1>9, <1>10, <1>11, <1>12 DEF Next

\* A client that did not leave is dropped only when it was silent for too long, its
\* transport failed, an operator or stop() did so, or a frame of its own or of its partner
\* could not be packed: for any number of peers and any behaviour of theirs.
THEOREM DeadOnly == Spec => OnlyDeadRemoved
<1>1. Init => Swept
  BY DEF Init, Swept
<1>2. Swept /\ [Next]_vars => Swept'
  BY NextSwept
<1>3. TypeOK /\ Swept /\ [Next]_vars =>
        [\A p \in srv.peers \ srv'.peers :
           \/ p \notin running'
           \/ age[p] > PeerTimeout
           \/ srv.link[p] # "open"
           \/ DisconnectPeer(p)
           \/ Stop
           \/ \E c \in Peer : HandleUnpackable(c, p)]_vars
  BY NextRemoved
<1> QED BY <1>1, <1>2, <1>3, TypeCorrect, PTL DEF Spec, OnlyDeadRemoved

-----------------------------------------------------------------------------
(***************************************************************************)
(* Entries.                                                                *)
(***************************************************************************)

\* From st to rest the entries of no peer are lost that is connected in rest.
Kept(st, rest) ==
    /\ \A s \in SessionId : \/ rest.sessions[s] = st.sessions[s]
                            \/ st.sessions[s] \in st.peers \ rest.peers
    /\ \A d \in DeviceId : \/ rest.devices[d] = st.devices[d]
                           \/ st.devices[d] \in st.peers \ rest.peers

LEMMA RemovePeerKept ==
  ASSUME NEW st \in State, NEW p
  PROVE  Kept(st, RemovePeer(st, p))
<1> DEFINE rest == RemovePeer(st, p)
<1>1. /\ rest.peers = st.peers \ {p}
      /\ rest.sessions =
           IF p \in st.peers THEN Disown(st.sessions, st.session_id[p], p) ELSE st.sessions
      /\ rest.devices =
           IF p \in st.peers THEN Disown(st.devices, st.device_id[p], p) ELSE st.devices
  BY RemovePeerTables
<1> HIDE DEF rest
<1>2. DOMAIN st.sessions = SessionId /\ DOMAIN st.devices = DeviceId
  BY DEF State
<1>3. Kept(st, rest)
  BY <1>1, <1>2 DEF Kept, Disown
<1> QED BY <1>3 DEF rest

LEMMA SendFailedKept ==
  ASSUME NEW st \in State, NEW p
  PROVE  Kept(st, SendFailed(st, p))
<1> DEFINE freed == ForceUnpair(st, p)
<1>1. /\ freed \in State /\ freed.peers = st.peers
      /\ freed.sessions = st.sessions /\ freed.devices = st.devices
  BY ForceUnpairType, ForceUnpairTables
<1> HIDE DEF freed
<1>2. Kept(freed, RemovePeer(freed, p))
  BY <1>1, RemovePeerKept
<1> QED BY <1>1, <1>2 DEF Kept, SendFailed, freed

LEMMA DropStalePairedKept ==
  ASSUME NEW st \in State, NEW h \in Peer
  PROVE  Kept(st, DropStalePaired(st, h))
<1> DEFINE freed == [st EXCEPT !.paired_peer_id = [@ EXCEPT ![h] = None]]
<1>1. /\ freed \in State /\ freed.peers = st.peers
      /\ freed.sessions = st.sessions /\ freed.devices = st.devices
  BY DropStalePairedPeers DEF State
<1> HIDE DEF freed
<1>2. Kept(freed, RemovePeer(freed, st.paired_peer_id[h]))
  BY <1>1, RemovePeerKept
<1> QED BY <1>1, <1>2 DEF Kept, DropStalePaired, freed

\* What EntriesKept says of one step.
SessionsKept ==
    \A s \in SessionId :
      srv.sessions[s] \in srv.peers \cap srv'.peers =>
        \/ srv'.sessions[s] = srv.sessions[s]
        \/ \E c \in Peer, r \in Requests : RegisterLegacy(c, r)

DevicesKept ==
    \A d \in DeviceId :
      srv.devices[d] \in srv.peers \cap srv'.peers =>
        \/ srv'.devices[d] = srv.devices[d]
        \/ HandleRegister(srv'.devices[d])

LEMMA RegisterKept ==
  ASSUME TypeOK, NEW c \in Peer, HandleRegister(c)
  PROVE  SessionsKept /\ DevicesKept
<1> PICK d \in DeviceId \cup {None} :
       LET st == RegisterDevice(srv, c, d)
       IN \/ srv' = st
          \/ \E s \in SessionId :
               /\ srv' = HostSession(st, c, s)
               /\ srv.sessions[s] = None \/ \E r \in Requests : RegisterLegacy(c, r)
          \/ \E s \in SessionId :
               /\ srv' = TakeOver(st, c, s)
               /\ srv.sessions[s] \notin srv.peers \cup {None}
          \/ \E s \in SessionId : Joined(st, c, s)
  BY RegisterCases
<1> DEFINE st == RegisterDevice(srv, c, d)
<1>1. st \in State /\ srv \in State
  BY RegisterDeviceType DEF TypeOK
<1>2. /\ st.peers = srv.peers /\ st.sessions = srv.sessions
      /\ st.paired_peer_id = srv.paired_peer_id
      /\ \A k \in DeviceId : st.devices[k] \in {srv.devices[k], c}
  BY <1>1 DEF RegisterDevice, State
<1> HIDE DEF st
\* c's own REGISTER gives it the device; the tables of sessions are those of st.
<1>3. ASSUME srv'.devices = st.devices PROVE DevicesKept
  BY <1>2, <1>3 DEF DevicesKept
<1>4. CASE srv' = st
  BY <1>2, <1>3, <1>4 DEF SessionsKept
<1>5. ASSUME NEW s \in SessionId,
             srv'.sessions = [st.sessions EXCEPT ![s] = c], srv'.devices = st.devices,
             \/ srv.sessions[s] \notin srv.peers
             \/ \E r \in Requests : RegisterLegacy(c, r)
      PROVE  SessionsKept /\ DevicesKept
  <2>1. \A k \in SessionId \ {s} : srv'.sessions[k] = srv.sessions[k]
    BY <1>1, <1>2, <1>5 DEF State
  <2>2. SessionsKept
    BY <1>5, <2>1 DEF SessionsKept
  <2> QED BY <1>3, <1>5, <2>2
<1>6. ASSUME NEW s \in SessionId, srv' = HostSession(st, c, s),
             srv.sessions[s] = None \/ \E r \in Requests : RegisterLegacy(c, r)
      PROVE  SessionsKept /\ DevicesKept
  <2>1. srv'.sessions = [st.sessions EXCEPT ![s] = c] /\ srv'.devices = st.devices
    BY <1>1, <1>6 DEF HostSession, State
  <2>2. None \notin srv.peers
    BY <1>1, NoneAssumption DEF State
  <2> QED BY <1>5, <1>6, <2>1, <2>2
<1>7. ASSUME NEW s \in SessionId, srv' = TakeOver(st, c, s),
             srv.sessions[s] \notin srv.peers \cup {None}
      PROVE  SessionsKept /\ DevicesKept
  <2>1. srv'.sessions = [st.sessions EXCEPT ![s] = c] /\ srv'.devices = st.devices
    BY <1>1, <1>7 DEF TakeOver, HostSession, State
  <2> QED BY <1>5, <1>7, <2>1
<1>8. ASSUME NEW s \in SessionId, Joined(st, c, s)
      PROVE  SessionsKept /\ DevicesKept
  <2> DEFINE h == st.sessions[s]
             old == st.paired_peer_id[h]
             free == DropStalePaired(st, h)
  <2>1. h \in Peer /\ srv' = Pair(free, c, h, s) /\ ~ Refuses(st, h, c)
    BY <1>1, <1>8 DEF Joined, State
  <2>2. free \in State /\ free.peers = st.peers \ {old} /\ Kept(st, free)
    BY <1>1, <2>1, DropStalePairedType, DropStalePairedPeers, DropStalePairedKept
  \* The peer that is dropped is not c: such a join is refused.
  <2>3. old \in st.peers => old # c
    BY <2>1 DEF Refuses
  <2> HIDE DEF free, old, h
  <2>4. /\ srv'.peers = free.peers
        /\ srv'.sessions = free.sessions /\ srv'.devices = free.devices
    BY <2>1, <2>2 DEF Pair, State
  <2>5. SessionsKept
    BY <1>2, <2>2, <2>4 DEF Kept, SessionsKept
  <2>6. DevicesKept
    <3> SUFFICES ASSUME NEW k \in DeviceId, srv.devices[k] \in srv'.peers
                 PROVE  srv'.devices[k] \in {srv.devices[k], c}
      BY DEF DevicesKept
    <3>1. CASE st.devices[k] = srv.devices[k]
      BY <1>2, <2>2, <2>4, <3>1 DEF Kept
    <3>2. CASE st.devices[k] = c
      BY <2>2, <2>3, <2>4, <3>2 DEF Kept
    <3> QED BY <1>2, <3>1, <3>2
  <2> QED BY <2>5, <2>6
<1> QED BY <1>4, <1>6, <1>7, <1>8 DEF st

LEMMA NextKept ==
  ASSUME TypeOK, Next
  PROVE  SessionsKept /\ DevicesKept
<1> srv \in State
  BY DEF TypeOK
<1>1. ASSUME srv'.sessions = srv.sessions, srv'.devices = srv.devices
      PROVE  SessionsKept /\ DevicesKept
  BY <1>1 DEF SessionsKept, DevicesKept
<1>2. ASSUME NEW rest, Kept(srv, rest), srv'.peers = rest.peers,
             srv'.sessions = rest.sessions, srv'.devices = rest.devices
      PROVE  SessionsKept /\ DevicesKept
  BY <1>2 DEF Kept, SessionsKept, DevicesKept
<1>3. ASSUME NEW c \in Peer, HandlerExit(c) PROVE SessionsKept /\ DevicesKept
  <2> DEFINE rest == RemovePeer(srv, c)
  <2>1. rest \in State /\ Kept(srv, rest)
    BY RemovePeerType, RemovePeerKept
  <2>2. srv' = [rest EXCEPT !.metrics = OnDisconnection(@)]
    BY <1>3 DEF HandlerExit
  <2> HIDE DEF rest
  <2>3. /\ srv'.peers = rest.peers
        /\ srv'.sessions = rest.sessions /\ srv'.devices = rest.devices
    BY <2>1, <2>2 DEF State
  <2> QED BY <1>2, <2>1, <2>3
<1>4. ASSUME NEW c \in Peer, HandleRegister(c) PROVE SessionsKept /\ DevicesKept
  BY <1>4, RegisterKept
<1>5. ASSUME NEW p \in Peer, srv' = SendFailed(srv, p) PROVE SessionsKept /\ DevicesKept
  BY <1>2, <1>5, SendFailedKept
<1>6. ASSUME NEW c \in Peer, NEW p \in Peer, Resume(c, p) \/ (BgDrained(p) /\ c = p)
      PROVE  SessionsKept /\ DevicesKept
  BY <1>1, <1>5, <1>6, DrainOutcome
<1>7. ASSUME NEW c \in Peer, NEW p \in Peer, HandleUnpackable(c, p)
      PROVE  SessionsKept /\ DevicesKept
  BY <1>5, <1>7 DEF HandleUnpackable
<1>8. ASSUME NEW c \in Peer, CleanupRemove(c) \/ DisconnectPeer(c)
      PROVE  SessionsKept /\ DevicesKept
  BY <1>2, <1>8, RemovePeerKept DEF CleanupRemove, DisconnectPeer
<1>9. ASSUME NEW c \in Peer,
             \/ Accept(c) \/ LinkLost(c) \/ HandleForward(c) \/ HandlePing(c)
             \/ RegisterUnhashable(c) \/ StartNotify(c)
      PROVE  SessionsKept /\ DevicesKept
  BY <1>1, <1>9 DEF Accept, LinkLost, HandleForward, HandlePing, RegisterUnhashable, WriteTo,
                    StartNotify, State
<1>10. CASE StartRelist \/ Tick \/ CleanupTick
  BY <1>1, <1>10 DEF StartRelist, Tick, CleanupTick, State
<1>11. CASE Stop
  BY <1>11 DEF Stop, State, SessionsKept, DevicesKept
<1> QED
  BY <1>3, <1>4, <1>6, <1>7, <1>8, <1>9, <1>10, <1>11 DEF Next

\* No step of others takes the session or the device of a connected peer, except a
\* generated session id that is in use and a REGISTER of the same device: for any
\* clients, also those whose frames are read late, and in whatever order the former
\* owners of an id are removed.
THEOREM EntriesCorrect == Spec => EntriesKept
<1>1. TypeOK /\ [Next]_vars => [SessionsKept /\ DevicesKept]_vars
  BY NextKept
<1>2. SessionsKept /\ DevicesKept =>
        /\ \A s \in SessionId :
             srv.sessions[s] \in srv.peers \cap srv'.peers =>
               \/ srv'.sessions[s] = srv.sessions[s]
               \/ \E c \in Peer, r \in Requests : RegisterLegacy(c, r)
        /\ \A d \in DeviceId :
             srv.devices[d] \in srv.peers \cap srv'.peers =>
               \/ srv'.devices[d] = srv.devices[d]
               \/ HandleRegister(srv'.devices[d])
  BY DEF SessionsKept, DevicesKept
<1>3. TypeOK /\ [Next]_vars =>
        [/\ \A s \in SessionId :
              srv.sessions[s] \in srv.peers \cap srv'.peers =>
                \/ srv'.sessions[s] = srv.sessions[s]
                \/ \E c \in Peer, r \in Requests : RegisterLegacy(c, r)
         /\ \A d \in DeviceId :
              srv.devices[d] \in srv.peers \cap srv'.peers =>
                \/ srv'.devices[d] = srv.devices[d]
                \/ HandleRegister(srv'.devices[d])]_vars
  BY <1>1, <1>2
<1> QED BY <1>3, TypeCorrect, PTL DEF Spec, EntriesKept
=============================================================================
