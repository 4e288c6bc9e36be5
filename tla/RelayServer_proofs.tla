------------------------- MODULE RelayServer_proofs -------------------------
(***************************************************************************)
(* Theorems about RelayServer, for any sets of peers, sessions, devices    *)
(* and requests, any timeout and any backpressure.                         *)
(***************************************************************************)
EXTENDS RelayServer, TLAPS

-----------------------------------------------------------------------------
(***************************************************************************)
(* The synchronous methods map states to states.                           *)
(***************************************************************************)

\* Removing an entry leaves a table a table.
LEMMA DisownType ==
  ASSUME NEW K, NEW table \in [K -> Peer \cup {None}], NEW key, NEW p
  PROVE  Disown(table, key, p) \in [K -> Peer \cup {None}]
BY DEF Disown

LEMMA UnpairType ==
  ASSUME NEW st \in State, NEW p
  PROVE  Unpair(st, p) \in [Peer -> Peer \cup {None}]
BY DEF State, Unpair

\* The hooks count by integers.
LEMMA HookTypes ==
  ASSUME NEW m \in Metrics
  PROVE  /\ OnConnection(m) \in Metrics /\ OnDisconnection(m) \in Metrics
         /\ OnSessionCreated(m) \in Metrics /\ OnSessionClosed(m) \in Metrics
         /\ OnDeviceRegistered(m) \in Metrics /\ OnDeviceOffline(m) \in Metrics
BY DEF Metrics, OnConnection, OnDisconnection, OnSessionCreated, OnSessionClosed,
       OnDeviceRegistered, OnDeviceOffline

LEMMA RemovalMetricsType ==
  ASSUME NEW st \in State, NEW p
  PROVE  RemovalMetrics(st, p) \in Metrics
<1> DEFINE m == IF WasDevice(st, p) THEN OnDeviceOffline(st.metrics) ELSE st.metrics
<1>1. st.metrics \in Metrics
  BY DEF State
<1>2. m \in Metrics
  BY <1>1, HookTypes
<1>3. RemovalMetrics(st, p) \in {m, OnSessionClosed(m)}
  BY DEF RemovalMetrics
<1> HIDE DEF m
<1> QED BY <1>2, <1>3, HookTypes

LEMMA RemovePeerType ==
  ASSUME NEW st \in State, NEW p
  PROVE  RemovePeer(st, p) \in State
<1>1. CASE p \notin st.peers
  BY <1>1 DEF RemovePeer
<1>2. CASE p \in st.peers
  <2>1. Disown(st.devices, st.device_id[p], p) \in [DeviceId -> Peer \cup {None}]
    BY DisownType DEF State
  <2>2. Disown(st.sessions, st.session_id[p], p) \in [SessionId -> Peer \cup {None}]
    BY DisownType DEF State
  <2>3. CloseWriter(st, p) \in [Peer -> LinkState]
    BY DEF State, CloseWriter, LinkState
  <2>4. Partner(st, p) \subseteq Peer
    BY DEF State, Partner
  <2>5. RemovalMetrics(st, p) \in Metrics /\ WasDevice(st, p) \in BOOLEAN
    BY RemovalMetricsType DEF WasDevice
  <2> QED
    BY <1>2, <2>1, <2>2, <2>3, <2>4, <2>5, UnpairType DEF State, RemovePeer
<1> QED BY <1>1, <1>2

LEMMA ForceUnpairType ==
  ASSUME NEW st \in State, NEW p
  PROVE  ForceUnpair(st, p) \in State
<1>1. [Unpair(st, p) EXCEPT ![p] = None] \in [Peer -> Peer \cup {None}]
  BY UnpairType
<1> QED BY <1>1 DEF State, ForceUnpair

LEMMA SendFailedType ==
  ASSUME NEW st \in State, NEW p
  PROVE  SendFailed(st, p) \in State
BY ForceUnpairType, RemovePeerType DEF SendFailed

LEMMA DropStalePairedType ==
  ASSUME NEW st \in State, NEW h
  PROVE  DropStalePaired(st, h) \in State
<1>1. [st EXCEPT !.paired_peer_id = [@ EXCEPT ![h] = None]] \in State
  BY DEF State
<1> QED BY <1>1, RemovePeerType DEF DropStalePaired

LEMMA PairType ==
  ASSUME NEW st \in State, NEW c \in Peer, NEW h \in Peer, NEW s \in SessionId
  PROVE  Pair(st, c, h, s) \in State
BY DEF State, Pair

LEMMA HostSessionType ==
  ASSUME NEW st \in State, NEW c \in Peer, NEW s \in SessionId
  PROVE  HostSession(st, c, s) \in State
<1>1. OnSessionCreated(st.metrics) \in Metrics
  BY HookTypes DEF State
<1> QED BY <1>1 DEF State, HostSession

LEMMA TakeOverType ==
  ASSUME NEW st \in State, NEW c \in Peer, NEW s \in SessionId
  PROVE  TakeOver(st, c, s) \in State
<1> DEFINE closed == [st EXCEPT !.metrics = OnSessionClosed(@)]
<1>1. OnSessionClosed(st.metrics) \in Metrics
  BY HookTypes DEF State
<1>2. closed \in State
  BY <1>1 DEF State
<1> HIDE DEF closed
<1>3. HostSession(closed, c, s) \in State
  BY <1>2, HostSessionType
<1> QED BY <1>3 DEF TakeOver, closed

LEMMA RegisterDeviceType ==
  ASSUME NEW st \in State, NEW c \in Peer, NEW d
  PROVE  RegisterDevice(st, c, d) \in State
<1>1. OnDeviceRegistered(st.metrics) \in Metrics
  BY HookTypes DEF State
<1> QED BY <1>1 DEF State, RegisterDevice

LEMMA LookupSessionType ==
  ASSUME NEW st \in State, NEW c, NEW x
  PROVE  LookupSession(st, c, x) \in SessionId \cup {None}
BY DEF LookupSession

-----------------------------------------------------------------------------
(***************************************************************************)
(* Type correctness.                                                       *)
(***************************************************************************)

LEMMA TellType ==
  ASSUME NEW notices \in [Peer -> Notice], NEW st, NEW p, NEW q \in Peer \cup {None}
  PROVE  Tell(notices, st, p, q) \in [Peer -> Notice]
BY DEF Tell, Notice

LEMMA TellDevicesType ==
  ASSUME NEW notices \in [Peer -> Notice], NEW st \in State
  PROVE  TellDevices(notices, st) \in [Peer -> Notice]
<1>1. DeviceList(st) \subseteq DeviceId \cup {None}
  BY DEF DeviceList, State
<1> QED BY <1>1 DEF TellDevices, Notice

\* What the parts of an action that writes keep well typed.
SendTypes == /\ wait \in [Peer -> SUBSET Peer]
             /\ cont \in [Peer -> Continuation]
             /\ told \in [Peer -> Notice]

LEMMA FinishType ==
  ASSUME SendTypes, NEW c \in Peer, NEW st \in State, NEW k \in Continuation,
         NEW notices \in [Peer -> Notice],
         Finish(c, st, k, notices)
  PROVE  SendTypes'
<1>1. Recipients(st, k) \subseteq Peer
  BY DEF Recipients, Listeners, State, Continuation
<1>2. wait' \in [Peer -> SUBSET Peer]
  BY <1>1 DEF Finish, SendTypes
<1>3. cont' \in [Peer -> Continuation]
  BY DEF Finish, SendTypes, Continuation, Done
<1>4. told' \in [Peer -> Notice]
  <2>1. CASE k.op = "done"
    BY <2>1 DEF Finish
  <2>2. CASE k.op = "list"
    BY <2>2, TellDevicesType DEF Finish
  <2>3. CASE k.op = "guest"
    <3>1. k.to \in Peer
      BY <2>3 DEF Continuation
    <3> QED BY <2>3, <3>1, TellType DEF Finish
  <2> QED BY <2>1, <2>2, <2>3 DEF Continuation
<1> QED BY <1>2, <1>3, <1>4 DEF SendTypes

LEMMA WriteToType ==
  ASSUME SendTypes, NEW c \in Peer, NEW p \in Peer, NEW st \in State,
         NEW k \in Continuation, NEW notices \in [Peer -> Notice],
         WriteTo(c, p, st, k, notices)
  PROVE  srv' \in State /\ SendTypes'
<1>1. CASE Blocks(st, p)
  BY <1>1 DEF WriteTo, SendTypes
<1>2. CASE ~ Blocks(st, p)
  BY <1>2, FinishType DEF WriteTo
<1> QED BY <1>1, <1>2

\* The transitions that handle a frame.
LEMMA JoinSessionType ==
  ASSUME SendTypes, NEW c \in Peer, NEW st \in State, NEW s \in SessionId,
         st.sessions[s] \in st.peers,
         JoinSession(st, c, s)
  PROVE  srv' \in State /\ SendTypes'
<1> DEFINE h == st.sessions[s]
           paired == Pair(DropStalePaired(st, h), c, h, s)
<1>1. h \in Peer
  BY DEF State
<1>2. CASE Refuses(st, h, c)
  <2>1. WriteTo(c, c, st, Done, told)
    BY <1>2 DEF JoinSession
  <2>2. Done \in Continuation
    BY DEF Done, Continuation
  <2> QED BY <2>1, <2>2, WriteToType DEF SendTypes
<1>3. CASE ~ Refuses(st, h, c)
  <2>1. WriteTo(c, c, paired, Guest(h), Tell(told, paired, c, h))
    BY <1>3 DEF JoinSession
  <2>2. Guest(h) \in Continuation
    BY <1>1 DEF Guest, Continuation
  <2>3. paired \in State
    BY <1>1, DropStalePairedType, PairType
  <2>4. Tell(told, paired, c, h) \in [Peer -> Notice]
    BY <1>1, TellType DEF SendTypes
  <2> HIDE DEF h, paired
  <2> QED BY <2>1, <2>2, <2>3, <2>4, WriteToType
<1> QED BY <1>2, <1>3

LEMMA HandleRegisterType ==
  ASSUME TypeOK, NEW c \in Peer, HandleRegister(c)
  PROVE  TypeOK'
<1> SUFFICES ASSUME NEW r \in Requests,
                    \/ RegisterLookup(c, r)
                    \/ RegisterLegacy(c, r)
                    \/ RegisterJoin(c, r)
                    \/ RegisterHost(c, r)
             PROVE  TypeOK'
  BY DEF HandleRegister
<1> DEFINE st == RegisterDevice(srv, c, r.device_id)
<1>1. ReceivesRegister(c)
  BY DEF RegisterLookup, RegisterLegacy, RegisterJoin, RegisterHost
<1>2. /\ age' \in [Peer -> 0..(PeerTimeout + 1)]
      /\ running' \subseteq Peer /\ bg' \subseteq Peer /\ sweep' \subseteq Peer
      /\ joined' \subseteq Peer /\ serving' \in BOOLEAN
  BY <1>1, BoundsAssumption DEF TypeOK, ReceivesRegister, Receives
<1>3. st \in State
  BY RegisterDeviceType DEF TypeOK
<1>4. SendTypes
  BY DEF TypeOK, SendTypes
<1>5. Done \in Continuation /\ List \in Continuation
  BY DEF Done, List, Continuation
<1>6. r.session_id \in SessionId \cup {None}
  BY RequestsAssumption
<1>7. SessionId \cap {None} = {}
  BY NoneAssumption
<1>8. st.sessions = srv.sessions /\ st.peers = srv.peers
  BY DEF RegisterDevice, TypeOK, State
<1>9. srv' \in State /\ SendTypes'
  <2> HIDE DEF st
  <2>1. CASE RegisterLookup(c, r)
    <3> DEFINE s == LookupSession(st, c, r.lookup_device)
    <3>1. \/ WriteTo(c, c, st, Done, told)
          \/ s # None /\ JoinSession(st, c, s)
      BY <2>1 DEF RegisterLookup, st
    <3>2. CASE WriteTo(c, c, st, Done, told)
      BY <1>3, <1>4, <1>5, <3>2, WriteToType DEF SendTypes
    <3>3. CASE s # None /\ JoinSession(st, c, s)
      <4>1. s \in SessionId
        BY <1>3, <3>3, LookupSessionType
      <4>2. st.sessions[s] \in st.peers
        BY <3>3, <4>1, <1>7 DEF LookupSession
      <4> HIDE DEF s
      <4> QED BY <1>3, <1>4, <3>3, <4>1, <4>2, JoinSessionType
    <3> QED BY <3>1, <3>2, <3>3
  <2>2. CASE RegisterLegacy(c, r)
    <3>1. PICK s \in SessionId : WriteTo(c, c, HostSession(st, c, s), List, told)
      BY <2>2 DEF RegisterLegacy, st
    <3>2. HostSession(st, c, s) \in State
      BY <1>3, HostSessionType
    <3> QED BY <1>4, <1>5, <3>1, <3>2, WriteToType DEF SendTypes
  <2>3. CASE RegisterJoin(c, r)
    <3> DEFINE s == r.session_id
    <3>1. s \in SessionId
      BY <1>6, <2>3 DEF RegisterJoin
    <3>2. \/ WriteTo(c, c, TakeOver(st, c, s), Done, told)
          \/ st.sessions[s] \in st.peers /\ JoinSession(st, c, s)
      BY <1>8, <2>3 DEF RegisterJoin, st
    <3>3. TakeOver(st, c, s) \in State
      BY <1>3, <3>1, TakeOverType
    <3> HIDE DEF s
    <3>4. CASE WriteTo(c, c, TakeOver(st, c, s), Done, told)
      BY <1>4, <1>5, <3>3, <3>4, WriteToType DEF SendTypes
    <3>5. CASE st.sessions[s] \in st.peers /\ JoinSession(st, c, s)
      BY <1>3, <1>4, <3>1, <3>5, JoinSessionType
    <3> QED BY <3>2, <3>4, <3>5
  <2>4. CASE RegisterHost(c, r)
    <3> DEFINE s == r.session_id
    <3>1. s \in SessionId
      BY <1>6, <2>4 DEF RegisterHost
    <3>2. WriteTo(c, c, HostSession(st, c, s), List, told)
      BY <2>4 DEF RegisterHost, st
    <3>3. HostSession(st, c, s) \in State
      BY <1>3, <3>1, HostSessionType
    <3> HIDE DEF s
    <3> QED BY <1>4, <1>5, <3>2, <3>3, WriteToType DEF SendTypes
  <2> QED BY <2>1, <2>2, <2>3, <2>4
<1> QED BY <1>2, <1>9 DEF TypeOK, SendTypes

\* The transitions that end a drain.
LEMMA DrainedType ==
  ASSUME TypeOK, NEW p, NEW q, q \in {srv, SendFailed(srv, p)}
  PROVE  q \in State
BY SendFailedType DEF TypeOK

LEMMA ResumeType ==
  ASSUME TypeOK, NEW c \in Peer, NEW p \in Peer, Resume(c, p)
  PROVE  TypeOK'
<1>1. srv' \in State
  BY DrainedType DEF Resume
<1>2. SendTypes /\ cont[c] \in Continuation
  BY DEF TypeOK, SendTypes
<1>3. SendTypes'
  <2>1. CASE Finish(c, srv', cont[c], told)
    BY <1>1, <1>2, <2>1, FinishType DEF SendTypes
  <2>2. CASE wait' = [wait EXCEPT ![c] = wait[c] \ {p}] /\ UNCHANGED <<cont, told>>
    BY <1>2, <2>2 DEF SendTypes
  <2> QED BY <2>1, <2>2 DEF Resume
<1>4. UNCHANGED <<age, running, bg, sweep, joined, serving>>
  BY DEF Resume
<1> QED BY <1>1, <1>3, <1>4 DEF TypeOK, SendTypes

LEMMA HandleForwardType ==
  ASSUME TypeOK, NEW c \in Peer, HandleForward(c)
  PROVE  TypeOK'
<1> DEFINE target == srv.paired_peer_id[c]
<1>1. age' \in [Peer -> 0..(PeerTimeout + 1)]
  BY BoundsAssumption DEF TypeOK, HandleForward, Receives
<1>2. SendTypes /\ srv \in State /\ Done \in Continuation
  BY DEF TypeOK, SendTypes, Done, Continuation
<1>3. srv' \in State /\ SendTypes'
  <2>1. CASE target \in srv.peers /\ WriteTo(c, target, srv, Done, told)
    <3>1. target \in Peer
      BY <1>2, <2>1 DEF State
    <3> HIDE DEF target
    <3> QED BY <1>2, <2>1, <3>1, WriteToType DEF SendTypes
  <2>2. CASE UNCHANGED <<srv, wait, cont, told>>
    BY <1>2, <2>2 DEF SendTypes
  <2> QED BY <2>1, <2>2 DEF HandleForward
<1>4. UNCHANGED <<running, bg, sweep, serving, joined>>
  BY DEF HandleForward, Receives
<1> QED BY <1>1, <1>3, <1>4 DEF TypeOK, SendTypes

LEMMA HandlePingType ==
  ASSUME TypeOK, NEW c \in Peer, HandlePing(c)
  PROVE  TypeOK'
<1>1. age' \in [Peer -> 0..(PeerTimeout + 1)]
  BY BoundsAssumption DEF TypeOK, HandlePing, Receives
<1>2. SendTypes /\ srv \in State /\ Done \in Continuation
  BY DEF TypeOK, SendTypes, Done, Continuation
<1>3. srv' \in State /\ SendTypes'
  BY <1>2, WriteToType DEF HandlePing, SendTypes
<1>4. UNCHANGED <<running, bg, sweep, serving, joined>>
  BY DEF HandlePing, Receives
<1> QED BY <1>1, <1>3, <1>4 DEF TypeOK, SendTypes

LEMMA NextType ==
  ASSUME TypeOK, Next
  PROVE  TypeOK'
<1> USE DEF TypeOK
<1>1. ASSUME NEW c \in Peer, Accept(c) PROVE TypeOK'
  <2>1. OnConnection(srv.metrics) \in Metrics
    BY HookTypes DEF State
  <2>2. srv' \in State
    BY <1>1, <2>1 DEF Accept, State, LinkState
  <2>3. told' \in [Peer -> Notice]
    BY <1>1 DEF Accept, Notice, NoNotice
  <2> QED BY <1>1, <2>2, <2>3, BoundsAssumption DEF Accept
<1>2. ASSUME NEW c \in Peer, HandlerExit(c) PROVE TypeOK'
  <2> DEFINE rest == RemovePeer(srv, c)
  <2>1. rest \in State
    BY RemovePeerType
  <2>2. srv' = [rest EXCEPT !.metrics = OnDisconnection(@)]
    BY <1>2 DEF HandlerExit
  <2> HIDE DEF rest
  <2>3. OnDisconnection(rest.metrics) \in Metrics
    BY <2>1, HookTypes DEF State
  <2>4. srv' \in State
    BY <2>1, <2>2, <2>3 DEF State
  <2> QED BY <1>2, <2>4 DEF HandlerExit
<1>3. ASSUME NEW c \in Peer, LinkLost(c) PROVE TypeOK'
  <2>1. srv' \in State
    BY <1>3 DEF LinkLost, State, LinkState
  <2> QED BY <1>3, <2>1 DEF LinkLost
<1>4. ASSUME NEW c \in Peer, NEW p \in Peer, Resume(c, p) PROVE TypeOK'
  BY <1>4, ResumeType
<1>5. ASSUME NEW c \in Peer, StartNotify(c) PROVE TypeOK'
  <2>1. srv' \in State
    BY <1>5 DEF StartNotify, State
  <2>2. told' \in [Peer -> Notice]
    BY <1>5, TellType DEF StartNotify
  <2> QED BY <1>5, <2>1, <2>2 DEF StartNotify
<1>6. ASSUME NEW c \in Peer, BgDrained(c) PROVE TypeOK'
  <2>1. srv' \in State
    BY <1>6, DrainedType DEF BgDrained
  <2> QED BY <1>6, <2>1 DEF BgDrained
<1>7. ASSUME NEW c \in Peer, CleanupRemove(c) PROVE TypeOK'
  <2>1. srv' \in State
    BY <1>7, RemovePeerType DEF CleanupRemove
  <2> QED BY <1>7, <2>1 DEF CleanupRemove
<1>8. ASSUME NEW c \in Peer, DisconnectPeer(c) PROVE TypeOK'
  <2>1. srv' \in State
    BY <1>8, RemovePeerType DEF DisconnectPeer
  <2> QED BY <1>8, <2>1 DEF DisconnectPeer
<1>9. CASE StartRelist
  <2>1. srv' \in State
    BY <1>9 DEF StartRelist, State
  <2>2. Listeners(srv) \subseteq Peer
    BY DEF Listeners, State
  <2>3. told' \in [Peer -> Notice]
    BY <1>9, TellDevicesType DEF StartRelist
  <2> QED BY <1>9, <2>1, <2>2, <2>3 DEF StartRelist
<1>10. CASE Tick
  BY <1>10, BoundsAssumption DEF Tick
<1>11. CASE CleanupTick
  <2>1. sweep' \subseteq Peer
    BY <1>11 DEF CleanupTick, State
  <2> QED BY <1>11, <2>1 DEF CleanupTick
<1>12. CASE Stop
  <2>1. srv' \in State
    BY <1>12 DEF Stop, State, LinkState
  <2> QED BY <1>12, <2>1 DEF Stop
<1>13. ASSUME NEW c \in Peer, RegisterUnhashable(c) PROVE TypeOK'
  <2>1. CloseWriter(srv, c) \in [Peer -> LinkState]
    BY DEF State, CloseWriter, LinkState
  <2>2. srv' \in State
    BY <1>13, <2>1 DEF RegisterUnhashable, State
  <2> QED BY <1>13, <2>2 DEF RegisterUnhashable
<1>14. ASSUME NEW c \in Peer, NEW p \in Peer, HandleUnpackable(c, p) PROVE TypeOK'
  <2>1. srv' \in State
    BY <1>14, SendFailedType DEF HandleUnpackable
  <2> QED BY <1>14, <2>1, BoundsAssumption DEF HandleUnpackable, Receives
<1> QED
  BY <1>1, <1>2, <1>3, <1>4, <1>5, <1>6, <1>7, <1>8, <1>9, <1>10, <1>11, <1>12, <1>13, <1>14,
     HandleRegisterType, HandleForwardType, HandlePingType DEF Next

LEMMA InitType == Init => TypeOK
BY BoundsAssumption DEF Init, TypeOK, State, LinkState, Continuation, Done, Notice, NoNotice,
                        Metrics, NoMetrics

\* Every variable keeps its type: in particular a pairing, a session and a device
\* always name peers, and what a handler still has to send names a peer where it
\* must.
THEOREM TypeCorrect == Spec => []TypeOK
<1>1. Init => TypeOK
  BY InitType
<1>2. TypeOK /\ [Next]_vars => TypeOK'
  <2> SUFFICES ASSUME TypeOK, [Next]_vars PROVE TypeOK'
    OBVIOUS
  <2>1. CASE Next
    BY <2>1, NextType
  <2>2. CASE UNCHANGED vars
    BY <2>2 DEF TypeOK, vars
  <2> QED BY <2>1, <2>2
<1> QED BY <1>1, <1>2, PTL DEF Spec

-----------------------------------------------------------------------------
(***************************************************************************)
(* What the frames do to the tables.                                       *)
(***************************************************************************)

\* c is refused, or paired with the host of s.
Joined(st, c, s) ==
    /\ st.sessions[s] \in st.peers
    /\ ~ Refuses(st, st.sessions[s], c)
    /\ srv' = Pair(DropStalePaired(st, st.sessions[s]), c, st.sessions[s], s)

LEMMA JoinOutcome ==
  ASSUME NEW c, NEW st, NEW s, st.sessions[s] \in st.peers, JoinSession(st, c, s)
  PROVE  srv' = st \/ Joined(st, c, s)
BY DEF JoinSession, WriteTo, Joined

\* A REGISTER leaves the tables as its device part did, makes c the host of a session
\* that is free, lost its host, or has an id that was generated, or pairs it.
LEMMA RegisterCases ==
  ASSUME TypeOK, NEW c \in Peer, HandleRegister(c)
  PROVE  \E d \in DeviceId \cup {None} :
           LET st == RegisterDevice(srv, c, d)
           IN \/ srv' = st
              \/ \E s \in SessionId :
                   /\ srv' = HostSession(st, c, s)
                   /\ srv.sessions[s] = None \/ \E r \in Requests : RegisterLegacy(c, r)
              \/ \E s \in SessionId :
                   /\ srv' = TakeOver(st, c, s)
                   /\ srv.sessions[s] \notin srv.peers \cup {None}
              \/ \E s \in SessionId : Joined(st, c, s)
<1> PICK r \in Requests : \/ RegisterLookup(c, r)
                         \/ RegisterLegacy(c, r)
                         \/ RegisterJoin(c, r)
                         \/ RegisterHost(c, r)
  BY DEF HandleRegister
<1>1. r.device_id \in DeviceId \cup {None} /\ r.session_id \in SessionId \cup {None}
  BY RequestsAssumption
<1> DEFINE d == r.device_id
           st == RegisterDevice(srv, c, d)
<1>2. st.sessions = srv.sessions /\ st.peers = srv.peers
  BY DEF RegisterDevice, TypeOK, State
<1> SUFFICES \/ srv' = st
             \/ \E s \in SessionId :
                  /\ srv' = HostSession(st, c, s)
                  /\ srv.sessions[s] = None \/ \E x \in Requests : RegisterLegacy(c, x)
             \/ \E s \in SessionId :
                  /\ srv' = TakeOver(st, c, s)
                  /\ srv.sessions[s] \notin srv.peers \cup {None}
             \/ \E s \in SessionId : Joined(st, c, s)
  BY <1>1
<1>3. CASE RegisterLookup(c, r)
  <2> DEFINE s == LookupSession(st, c, r.lookup_device)
  <2>1. srv' = st \/ (s # None /\ JoinSession(st, c, s))
    BY <1>3 DEF RegisterLookup, WriteTo
  <2>2. CASE s # None /\ JoinSession(st, c, s)
    <3>1. s \in SessionId /\ st.sessions[s] \in st.peers
      BY <2>2 DEF LookupSession
    <3> HIDE DEF s, st
    <3> QED BY <2>2, <3>1, JoinOutcome
  <2> QED BY <2>1, <2>2
<1>4. CASE RegisterLegacy(c, r)
  BY <1>4 DEF RegisterLegacy, WriteTo
<1>5. CASE RegisterJoin(c, r)
  <2> DEFINE s == r.session_id
  <2>1. s \in SessionId
    BY <1>1, <1>5 DEF RegisterJoin
  <2>2. \/ srv' = TakeOver(st, c, s) /\ srv.sessions[s] \notin srv.peers \cup {None}
        \/ st.sessions[s] \in st.peers /\ JoinSession(st, c, s)
    BY <1>2, <1>5 DEF RegisterJoin, WriteTo
  <2> HIDE DEF s, st
  <2> QED BY <2>1, <2>2, JoinOutcome
<1>6. CASE RegisterHost(c, r)
  BY <1>1, <1>6 DEF RegisterHost, WriteTo
<1> QED BY <1>3, <1>4, <1>5, <1>6

\* c hosts s, whatever the metrics.
Hosted(st, c, s) ==
    \E m \in Metrics : srv' = HostSession([st EXCEPT !.metrics = m], c, s)

\* The same, without what the metrics and the reasons are.
LEMMA RegisterOutcome ==
  ASSUME TypeOK, NEW c \in Peer, HandleRegister(c)
  PROVE  /\ ReceivesRegister(c)
         /\ \E d \in DeviceId \cup {None} :
              LET st == RegisterDevice(srv, c, d)
              IN \/ srv' = st
                 \/ \E s \in SessionId : Hosted(st, c, s)
                 \/ \E s \in SessionId : Joined(st, c, s)
<1>1. ReceivesRegister(c)
  BY DEF HandleRegister, RegisterLookup, RegisterLegacy, RegisterJoin, RegisterHost
<1>2. ASSUME NEW st \in State, NEW s, srv' = HostSession(st, c, s) \/ srv' = TakeOver(st, c, s)
      PROVE  Hosted(st, c, s)
  <2>1. st.metrics \in Metrics /\ OnSessionClosed(st.metrics) \in Metrics
    BY HookTypes DEF State
  <2>2. [st EXCEPT !.metrics = st.metrics] = st
    BY DEF State
  <2> QED BY <1>2, <2>1, <2>2 DEF Hosted, TakeOver
<1>3. \A d : RegisterDevice(srv, c, d) \in State
  BY RegisterDeviceType DEF TypeOK
<1> QED BY <1>1, <1>2, <1>3, RegisterCases

\* Frames other than REGISTER, and drains that succeed, change no table.
LEMMA DrainOutcome ==
  ASSUME NEW c, NEW p, Resume(c, p) \/ (BgDrained(p) /\ c = p)
  PROVE  srv' = srv \/ srv' = SendFailed(srv, p)
BY DEF Resume, BgDrained

-----------------------------------------------------------------------------
(***************************************************************************)
(* _peers against the writers.                                             *)
(***************************************************************************)

\* WriterMatchesTable, of a state of the tables.
WriterMatches(st) ==
    /\ running \subseteq Peer
    /\ st.peers \subseteq running
    /\ \A p \in st.peers : st.link[p] \in {"open", "lost"}
    /\ \A p \in running : st.link[p] = "open" => p \in st.peers

LEMMA RemovePeerTables ==
  ASSUME NEW st \in State, NEW p
  PROVE  /\ RemovePeer(st, p).peers = st.peers \ {p}
         /\ RemovePeer(st, p).link = IF p \in st.peers THEN CloseWriter(st, p) ELSE st.link
         /\ RemovePeer(st, p).session_id = st.session_id
         /\ RemovePeer(st, p).device_id = st.device_id
         /\ RemovePeer(st, p).paired_peer_id =
              IF p \in st.peers THEN Unpair(st, p) ELSE st.paired_peer_id
         /\ RemovePeer(st, p).sessions =
              IF p \in st.peers THEN Disown(st.sessions, st.session_id[p], p) ELSE st.sessions
         /\ RemovePeer(st, p).devices =
              IF p \in st.peers THEN Disown(st.devices, st.device_id[p], p) ELSE st.devices
<1>1. CASE p \notin st.peers
  BY <1>1 DEF RemovePeer
<1>2. CASE p \in st.peers
  BY <1>2 DEF RemovePeer, State
<1> QED BY <1>1, <1>2

LEMMA RemovePeerWriter ==
  ASSUME NEW st \in State, WriterMatches(st), NEW p
  PROVE  WriterMatches(RemovePeer(st, p))
<1>1. CASE p \notin st.peers
  BY <1>1 DEF RemovePeer
<1>2. CASE p \in st.peers
  <2> DEFINE rest == RemovePeer(st, p)
  <2>1. rest.peers = st.peers \ {p}
    BY RemovePeerTables
  <2>2. rest.link = [st.link EXCEPT ![p] = IF @ = "open" THEN "closing" ELSE @]
    BY <1>2, RemovePeerTables DEF CloseWriter
  <2>3. st.link \in [Peer -> LinkState] /\ p \in Peer
    BY <1>2 DEF State
  <2>4. \A q \in Peer \ {p} : rest.link[q] = st.link[q]
    BY <2>2, <2>3
  <2>5. rest.link[p] # "open"
    BY <2>2, <2>3
  <2> HIDE DEF rest
  <2>6. WriterMatches(rest)
    BY <2>1, <2>3, <2>4, <2>5 DEF WriterMatches
  <2> QED BY <2>6 DEF rest
<1> QED BY <1>1, <1>2

LEMMA SendFailedWriter ==
  ASSUME NEW st \in State, WriterMatches(st), NEW p
  PROVE  WriterMatches(SendFailed(st, p))
<1>1. WriterMatches(ForceUnpair(st, p))
  BY DEF WriterMatches, ForceUnpair, State
<1> QED BY <1>1, ForceUnpairType, RemovePeerWriter DEF SendFailed

LEMMA DropStalePairedWriter ==
  ASSUME NEW st \in State, WriterMatches(st), NEW h
  PROVE  WriterMatches(DropStalePaired(st, h))
<1> DEFINE freed == [st EXCEPT !.paired_peer_id = [@ EXCEPT ![h] = None]]
<1>1. freed \in State /\ WriterMatches(freed)
  BY DEF WriterMatches, State
<1> HIDE DEF freed
<1>2. WriterMatches(RemovePeer(freed, st.paired_peer_id[h]))
  BY <1>1, RemovePeerWriter
<1> QED BY <1>2 DEF DropStalePaired, freed

LEMMA NextWriter ==
  ASSUME TypeOK, WriterMatches(srv), Next
  PROVE  WriterMatches(srv)'
<1> srv \in State /\ running \subseteq Peer
  BY DEF TypeOK
<1>1. ASSUME WriterMatches(srv'), UNCHANGED running PROVE WriterMatches(srv)'
  BY <1>1 DEF WriterMatches
<1>2. ASSUME srv'.peers = srv.peers, srv'.link = srv.link, UNCHANGED running
      PROVE  WriterMatches(srv)'
  BY <1>2 DEF WriterMatches
<1>3. ASSUME NEW c \in Peer, Accept(c) PROVE WriterMatches(srv)'
  <2>1. /\ srv'.peers = srv.peers \cup {c}
        /\ srv'.link = [srv.link EXCEPT ![c] = "open"]
        /\ running' = running \cup {c}
    BY <1>3 DEF Accept, State
  <2> QED BY <2>1 DEF WriterMatches, State
<1>4. ASSUME NEW c \in Peer, HandlerExit(c) PROVE WriterMatches(srv)'
  <2> DEFINE rest == RemovePeer(srv, c)
  <2>1. WriterMatches(rest) /\ rest \in State /\ c \notin rest.peers
    BY RemovePeerWriter, RemovePeerType, RemovePeerTables
  <2>2. srv' = [rest EXCEPT !.metrics = OnDisconnection(@)] /\ running' = running \ {c}
    BY <1>4 DEF HandlerExit
  <2> HIDE DEF rest
  <2>3. srv'.peers = rest.peers /\ srv'.link = rest.link
    BY <2>1, <2>2 DEF State
  <2> QED BY <2>1, <2>2, <2>3 DEF WriterMatches
<1>5. ASSUME NEW c \in Peer, LinkLost(c) PROVE WriterMatches(srv)'
  <2>1. /\ srv'.peers = srv.peers
        /\ srv'.link = [srv.link EXCEPT ![c] = "lost"]
        /\ running' = running
    BY <1>5 DEF LinkLost, State
  <2> QED BY <2>1 DEF WriterMatches, State
<1>6. ASSUME NEW c \in Peer, HandleRegister(c) PROVE WriterMatches(srv)'
  <2>1. UNCHANGED running
    BY <1>6, RegisterOutcome DEF ReceivesRegister, Receives
  <2> PICK d \in DeviceId \cup {None} :
         LET st == RegisterDevice(srv, c, d)
         IN \/ srv' = st
            \/ \E s \in SessionId : Hosted(st, c, s)
            \/ \E s \in SessionId : Joined(st, c, s)
    BY <1>6, RegisterOutcome
  <2> DEFINE st == RegisterDevice(srv, c, d)
  <2>2. st \in State /\ WriterMatches(st)
    <3>1. st \in State
      BY RegisterDeviceType
    <3>2. st.peers = srv.peers /\ st.link = srv.link
      BY DEF RegisterDevice, State
    <3> HIDE DEF st
    <3> QED BY <3>1, <3>2 DEF WriterMatches
  <2> HIDE DEF st
  <2>3. CASE srv' = st
    BY <1>1, <2>1, <2>2, <2>3
  <2>4. ASSUME NEW s \in SessionId, Hosted(st, c, s) PROVE WriterMatches(srv)'
    <3>1. srv'.peers = st.peers /\ srv'.link = st.link
      BY <2>2, <2>4 DEF Hosted, HostSession, State
    <3> QED BY <2>1, <2>2, <3>1 DEF WriterMatches
  <2>5. ASSUME NEW s \in SessionId, Joined(st, c, s) PROVE WriterMatches(srv)'
    <3> DEFINE h == st.sessions[s]
               free == DropStalePaired(st, h)
    <3>1. free \in State /\ WriterMatches(free)
      BY <2>2, DropStalePairedType, DropStalePairedWriter
    <3>2. srv' = Pair(free, c, h, s)
      BY <2>5 DEF Joined
    <3> HIDE DEF free, h
    <3>3. srv'.peers = free.peers /\ srv'.link = free.link
      BY <3>1, <3>2 DEF Pair, State
    <3> QED BY <2>1, <3>1, <3>3 DEF WriterMatches
  <2> QED BY <2>3, <2>4, <2>5 DEF st
<1>7. ASSUME NEW c \in Peer, HandleForward(c) \/ HandlePing(c) PROVE WriterMatches(srv)'
  BY <1>2, <1>7 DEF HandleForward, HandlePing, WriteTo, Receives
<1>8. ASSUME NEW c \in Peer, NEW p \in Peer, Resume(c, p) PROVE WriterMatches(srv)'
  BY <1>1, <1>8, SendFailedWriter, DrainOutcome DEF Resume
<1>9. ASSUME NEW c \in Peer, StartNotify(c) PROVE WriterMatches(srv)'
  BY <1>2, <1>9 DEF StartNotify, State
<1>10. ASSUME NEW c \in Peer, BgDrained(c) PROVE WriterMatches(srv)'
  BY <1>1, <1>10, SendFailedWriter, DrainOutcome DEF BgDrained
<1>11. ASSUME NEW c \in Peer, CleanupRemove(c) PROVE WriterMatches(srv)'
  BY <1>1, <1>11, RemovePeerWriter DEF CleanupRemove
<1>12. ASSUME NEW c \in Peer, DisconnectPeer(c) PROVE WriterMatches(srv)'
  BY <1>1, <1>12, RemovePeerWriter DEF DisconnectPeer
<1>13. CASE StartRelist
  BY <1>2, <1>13 DEF StartRelist, State
<1>14. CASE Tick \/ CleanupTick
  BY <1>2, <1>14 DEF Tick, CleanupTick
<1>15. ASSUME NEW c \in Peer, RegisterUnhashable(c) PROVE WriterMatches(srv)'
  <2>1. /\ srv'.peers = srv.peers \ {c}
        /\ srv'.link = CloseWriter(srv, c)
        /\ running' = running \ {c}
    BY <1>15 DEF RegisterUnhashable, State
  <2> QED BY <2>1 DEF WriterMatches, CloseWriter, State
<1>16. ASSUME NEW c \in Peer, NEW p \in Peer, HandleUnpackable(c, p)
       PROVE  WriterMatches(srv)'
  BY <1>1, <1>16, SendFailedWriter DEF HandleUnpackable, Receives
<1>17. CASE Stop
  <2>1. /\ srv'.peers = {}
        /\ srv'.link = [p \in Peer |-> IF p \in srv.peers /\ srv.link[p] = "open"
                                       THEN "closing" ELSE srv.link[p]]
        /\ running' = running
    BY <1>17 DEF Stop, State
  <2> QED BY <2>1 DEF WriterMatches, State
<1> QED
  BY <1>3, <1>4, <1>5, <1>6, <1>7, <1>8, <1>9, <1>10, <1>11, <1>12, <1>13, <1>14, <1>17,
     <1>15, <1>16 DEF Next

\* In every environment - several REGISTERs per connection, frames read after the
\* writer was closed, any backpressure - the connections that are open and handled
\* are those of _peers, up to lost ones.
THEOREM TableCorrect == Spec => []WriterMatchesTable
<1>1. Init => WriterMatches(srv)
  BY DEF Init, WriterMatches
<1>2. TypeOK /\ WriterMatches(srv) /\ [Next]_vars => WriterMatches(srv)'
  <2>1. CASE UNCHANGED vars
    BY <2>1 DEF WriterMatches, vars
  <2> QED BY <2>1, NextWriter
<1>3. WriterMatches(srv) => WriterMatchesTable
  BY DEF WriterMatches, WriterMatchesTable
<1> QED BY <1>1, <1>2, <1>3, TypeCorrect, PTL DEF Spec

-----------------------------------------------------------------------------
(***************************************************************************)
(* Clients that register once per connection, and no frame read after the  *)
(* writer was closed: pairings, sessions and devices are sound.            *)
(***************************************************************************)

WellBehaved == ~ ReRegister /\ ~ LateFrames

PairsSound(st) ==
    \A p \in st.peers :
      st.paired_peer_id[p] # None => Mutual(st, p, st.paired_peer_id[p])

\* The entries of a table are entries of connected peers, under their own key.
EntriesSound(st, table, key) ==
    \A k \in DOMAIN table :
      table[k] # None => table[k] \in st.peers /\ key[table[k]] = k

Sound(st) == /\ PairsSound(st)
             /\ EntriesSound(st, st.sessions, st.session_id)
             /\ EntriesSound(st, st.devices, st.device_id)

\* No one is paired with c, and no table lists it.
Unused(st, c) == /\ st.paired_peer_id[c] = None
                 /\ \A s \in SessionId : st.sessions[s] # c
                 /\ \A d \in DeviceId : st.devices[d] # c

\* The inductive invariant.
PairingInv ==
    /\ TypeOK
    /\ WriterMatches(srv)
    /\ Sound(srv)
    /\ \A c \in srv.peers \ joined : Unused(srv, c)

LEMMA RemovePeerSound ==
  ASSUME NEW st \in State, Sound(st), NEW p
  PROVE  Sound(RemovePeer(st, p))
<1> DEFINE rest == RemovePeer(st, p)
<1>1. CASE p \notin st.peers
  BY <1>1 DEF RemovePeer
<1>2. CASE p \in st.peers
  <2>1. /\ rest.peers = st.peers \ {p}
        /\ rest.paired_peer_id = Unpair(st, p)
        /\ rest.sessions = Disown(st.sessions, st.session_id[p], p)
        /\ rest.devices = Disown(st.devices, st.device_id[p], p)
        /\ rest.session_id = st.session_id /\ rest.device_id = st.device_id
    BY <1>2, RemovePeerTables
  <2> HIDE DEF rest
  <2>2. PairsSound(rest)
    BY <1>2, <2>1, NoneAssumption DEF Sound, PairsSound, Mutual, Unpair, Partner, State
  <2>3. EntriesSound(rest, rest.sessions, rest.session_id)
    BY <2>1 DEF Sound, EntriesSound, Disown
  <2>4. EntriesSound(rest, rest.devices, rest.device_id)
    BY <2>1 DEF Sound, EntriesSound, Disown
  <2>5. Sound(rest)
    BY <2>2, <2>3, <2>4 DEF Sound
  <2> QED BY <2>5 DEF rest
<1> QED BY <1>1, <1>2

LEMMA RemovePeerUnused ==
  ASSUME NEW st \in State, NEW p, NEW c \in Peer, Unused(st, c)
  PROVE  Unused(RemovePeer(st, p), c)
<1> DEFINE rest == RemovePeer(st, p)
<1>1. CASE p \notin st.peers
  BY <1>1 DEF RemovePeer
<1>2. CASE p \in st.peers
  <2>1. /\ rest.paired_peer_id = Unpair(st, p)
        /\ rest.sessions = Disown(st.sessions, st.session_id[p], p)
        /\ rest.devices = Disown(st.devices, st.device_id[p], p)
    BY <1>2, RemovePeerTables
  <2>2. /\ DOMAIN st.sessions = SessionId /\ DOMAIN st.devices = DeviceId
        /\ c # None
    BY NoneAssumption DEF State
  <2> HIDE DEF rest
  <2>3. Unused(rest, c)
    BY <2>1, <2>2 DEF Unused, Unpair, Disown
  <2> QED BY <2>3 DEF rest
<1> QED BY <1>1, <1>2

LEMMA ForceUnpairTables ==
  ASSUME NEW st \in State, NEW p
  PROVE  /\ ForceUnpair(st, p).paired_peer_id = [Unpair(st, p) EXCEPT ![p] = None]
         /\ ForceUnpair(st, p).peers = st.peers
         /\ ForceUnpair(st, p).sessions = st.sessions
         /\ ForceUnpair(st, p).devices = st.devices
         /\ ForceUnpair(st, p).session_id = st.session_id
         /\ ForceUnpair(st, p).device_id = st.device_id
BY DEF ForceUnpair, State

LEMMA SendFailedSound ==
  ASSUME NEW st \in State, Sound(st), NEW p
  PROVE  Sound(SendFailed(st, p))
<1> DEFINE freed == ForceUnpair(st, p)
<1>1. /\ freed.paired_peer_id = [Unpair(st, p) EXCEPT ![p] = None]
      /\ freed.peers = st.peers
      /\ freed.sessions = st.sessions /\ freed.devices = st.devices
      /\ freed.session_id = st.session_id /\ freed.device_id = st.device_id
  BY ForceUnpairTables
<1> HIDE DEF freed
<1>2. PairsSound(freed)
  <2> SUFFICES ASSUME NEW q \in st.peers, freed.paired_peer_id[q] # None
               PROVE  Mutual(freed, q, freed.paired_peer_id[q])
    BY <1>1 DEF PairsSound
  <2> DEFINE r == st.paired_peer_id[q]
  <2>1. q \in Peer /\ q # p
    BY <1>1, UnpairType DEF State
  <2>2. freed.paired_peer_id[q] = r /\ r # None
    BY <1>1, <2>1, UnpairType DEF Unpair
  <2>3. Mutual(st, q, r)
    BY <2>2 DEF Sound, PairsSound
  <2>4. r # p /\ r \in Peer
    <3>1. CASE r = p
      BY <1>1, <2>1, <2>2, <2>3, <3>1, UnpairType DEF Mutual, Unpair, Partner, State
    <3> QED BY <3>1, <2>3 DEF Mutual, State
  <2>5. freed.paired_peer_id[r] = q
    <3>1. st.paired_peer_id[r] = q
      BY <2>3 DEF Mutual
    <3>2. Unpair(st, p)[r] = q
      BY <2>1, <2>4, <3>1 DEF Unpair
    <3> QED BY <1>1, <2>4, <3>2, UnpairType
  <2> QED BY <1>1, <2>2, <2>3, <2>5 DEF Mutual
<1>3. Sound(freed)
  BY <1>1, <1>2 DEF Sound, EntriesSound
<1>4. freed \in State
  BY ForceUnpairType DEF freed
<1>5. Sound(RemovePeer(freed, p))
  BY <1>3, <1>4, RemovePeerSound
<1> QED BY <1>5 DEF SendFailed, freed

LEMMA SendFailedUnused ==
  ASSUME NEW st \in State, NEW p, NEW c \in Peer, Unused(st, c)
  PROVE  Unused(SendFailed(st, p), c)
<1> DEFINE freed == ForceUnpair(st, p)
<1>1. /\ freed.paired_peer_id = [Unpair(st, p) EXCEPT ![p] = None]
      /\ freed.sessions = st.sessions /\ freed.devices = st.devices
      /\ freed \in State
  BY ForceUnpairTables, ForceUnpairType
<1> HIDE DEF freed
<1>2. Unpair(st, p) \in [Peer -> Peer \cup {None}] /\ Unpair(st, p)[c] = None
  BY UnpairType DEF Unused, Unpair
<1>3. freed.paired_peer_id[c] = None
  BY <1>1, <1>2
<1>4. Unused(freed, c)
  BY <1>1, <1>3 DEF Unused
<1>5. Unused(RemovePeer(freed, p), c)
  BY <1>1, <1>4, RemovePeerUnused
<1> QED BY <1>5 DEF SendFailed, freed

\* Freeing a host: it stays, no one is its partner, and only that partner left.
LEMMA DropStalePairedSound ==
  ASSUME NEW st \in State, Sound(st), NEW h \in st.peers
  PROVE  LET free == DropStalePaired(st, h)
         IN /\ Sound(free)
            /\ free.paired_peer_id[h] = None
            /\ h \in free.peers /\ free.peers \subseteq st.peers
            /\ \A c \in st.peers : st.paired_peer_id[c] = None => c \in free.peers
            /\ \A c \in Peer : free.paired_peer_id[c] \in {st.paired_peer_id[c], None}
            /\ \A s \in SessionId : free.sessions[s] \in {st.sessions[s], None}
            /\ \A d \in DeviceId : free.devices[d] \in {st.devices[d], None}
            /\ free.session_id = st.session_id
<1> DEFINE old == st.paired_peer_id[h]
           host == [st EXCEPT !.paired_peer_id = [@ EXCEPT ![h] = None]]
           free == RemovePeer(host, old)
<1>1. free = DropStalePaired(st, h)
  BY DEF DropStalePaired
<1>2. h \in Peer /\ old \in Peer \cup {None}
  BY DEF State
<1>3. /\ host \in State
      /\ host.peers = st.peers
      /\ host.paired_peer_id = [st.paired_peer_id EXCEPT ![h] = None]
      /\ host.sessions = st.sessions /\ host.devices = st.devices
      /\ host.session_id = st.session_id /\ host.device_id = st.device_id
  BY DEF State
<1> HIDE DEF host
<1>4. CASE old = None
  <2>1. free = host
    BY <1>3, <1>4, NoneAssumption DEF RemovePeer, State
  <2>2. host.paired_peer_id = st.paired_peer_id
    BY <1>2, <1>3, <1>4 DEF State
  <2>3. Sound(host)
    BY <1>3, <2>2 DEF Sound, PairsSound, EntriesSound, Mutual
  <2> HIDE DEF free
  <2> QED BY <1>1, <1>3, <1>4, <2>1, <2>2, <2>3
<1>5. CASE old # None
  <2>1. Mutual(st, h, old)
    BY <1>5 DEF Sound, PairsSound
  <2>2. old # h /\ old \in st.peers /\ st.paired_peer_id[old] = h
    BY <2>1 DEF Mutual
  <2>3. /\ free.peers = st.peers \ {old}
        /\ free.paired_peer_id = Unpair(host, old)
        /\ free.sessions = Disown(st.sessions, st.session_id[old], old)
        /\ free.devices = Disown(st.devices, st.device_id[old], old)
        /\ free.session_id = st.session_id /\ free.device_id = st.device_id
    BY <1>3, <2>2, RemovePeerTables
  <2>4. host.paired_peer_id[old] = h
    BY <1>2, <1>3, <2>2 DEF State
  <2>5. \A q \in Peer : host.paired_peer_id[q] =
                         IF q = h THEN None ELSE st.paired_peer_id[q]
    BY <1>2, <1>3 DEF State
  <2>6. \A q \in Peer : free.paired_peer_id[q] =
                         IF q = h THEN None ELSE st.paired_peer_id[q]
    BY <2>3, <2>4, <2>5 DEF Unpair, Partner
  <2> HIDE DEF free
  <2>7. PairsSound(free)
    <3> SUFFICES ASSUME NEW p \in free.peers, free.paired_peer_id[p] # None
                 PROVE  Mutual(free, p, free.paired_peer_id[p])
      BY DEF PairsSound
    <3>1. p \in st.peers /\ p \in Peer /\ p # old
      BY <2>3 DEF State
    <3>2. p # h /\ free.paired_peer_id[p] = st.paired_peer_id[p]
      BY <2>6, <3>1
    <3> DEFINE q == st.paired_peer_id[p]
    <3>3. Mutual(st, p, q)
      BY <3>1, <3>2 DEF Sound, PairsSound
    <3>4. q # h /\ q # old
      BY <2>2, <3>1, <3>2, <3>3 DEF Mutual
    <3>5. q \in Peer /\ free.paired_peer_id[q] = p
      BY <2>6, <3>3, <3>4 DEF Mutual, State
    <3> QED BY <2>3, <3>1, <3>2, <3>3, <3>4, <3>5 DEF Mutual
  <2>8. EntriesSound(free, free.sessions, free.session_id)
    BY <2>3 DEF Sound, EntriesSound, Disown
  <2>9. EntriesSound(free, free.devices, free.device_id)
    BY <2>3 DEF Sound, EntriesSound, Disown
  <2>10. /\ \A k \in SessionId : free.sessions[k] \in {st.sessions[k], None}
         /\ \A k \in DeviceId : free.devices[k] \in {st.devices[k], None}
    BY <2>3 DEF Disown, State
  <2>11. \A c \in st.peers : st.paired_peer_id[c] = None => c \in free.peers
    BY <1>2, <2>2, <2>3, NoneAssumption
  <2> QED BY <1>1, <1>2, <2>2, <2>3, <2>6, <2>7, <2>8, <2>9, <2>10, <2>11 DEF Sound
<1> QED BY <1>4, <1>5

\* Registering a device: only the table of devices changes, which stays sound.
LEMMA RegisterDeviceSound ==
  ASSUME NEW before \in State, Sound(before), NEW c \in before.peers, Unused(before, c), NEW d
  PROVE  LET st == RegisterDevice(before, c, d)
         IN /\ st \in State /\ Sound(st)
            /\ st.peers = before.peers /\ st.link = before.link
            /\ st.paired_peer_id = before.paired_peer_id
            /\ st.sessions = before.sessions /\ st.session_id = before.session_id
            /\ st.relist = before.relist
            /\ \A k \in DeviceId : st.devices[k] \in {before.devices[k], c}
<1> DEFINE st == RegisterDevice(before, c, d)
<1>1. CASE d \notin DeviceId
  BY <1>1 DEF RegisterDevice
<1>2. CASE d \in DeviceId
  <2>1. /\ st.peers = before.peers /\ st.link = before.link
        /\ st.paired_peer_id = before.paired_peer_id
        /\ st.sessions = before.sessions /\ st.session_id = before.session_id
        /\ st.relist = before.relist
        /\ st.devices = [before.devices EXCEPT ![d] = c]
        /\ st.device_id = [before.device_id EXCEPT ![c] = d]
        /\ c \in Peer
    BY <1>2 DEF RegisterDevice, State
  <2>2. /\ DOMAIN before.devices = DeviceId /\ DOMAIN st.devices = DeviceId
        /\ st.devices[d] = c /\ st.device_id[c] = d
        /\ \A k \in DeviceId \ {d} : st.devices[k] = before.devices[k]
        /\ \A q \in Peer \ {c} : st.device_id[q] = before.device_id[q]
    BY <1>2, <2>1 DEF State
  <2>3. st \in State
    BY <2>1, RegisterDeviceType
  <2> HIDE DEF st
  <2>4. EntriesSound(st, st.devices, st.device_id)
    <3> SUFFICES ASSUME NEW k \in DeviceId, st.devices[k] # None
                 PROVE  st.devices[k] \in st.peers /\ st.device_id[st.devices[k]] = k
      BY <2>2 DEF EntriesSound
    <3>1. CASE k = d
      BY <2>1, <2>2, <3>1
    <3>2. CASE k # d
      <4>1. st.devices[k] = before.devices[k] /\ before.devices[k] # c
        BY <2>2, <3>2 DEF Unused
      <4>2. before.devices[k] \in before.peers /\ before.device_id[before.devices[k]] = k
        BY <2>2, <4>1 DEF Sound, EntriesSound
      <4> QED BY <2>1, <2>2, <4>1, <4>2 DEF State
    <3> QED BY <3>1, <3>2
  <2>5. Sound(st)
    BY <2>1, <2>4 DEF Sound, PairsSound, EntriesSound, Mutual
  <2> QED BY <2>1, <2>2, <2>3, <2>5 DEF st
<1> QED BY <1>1, <1>2

\* A first REGISTER keeps the tables sound, and leaves the others unused.
LEMMA RegisterSound ==
  ASSUME WellBehaved, PairingInv, NEW c \in Peer, HandleRegister(c)
  PROVE  /\ Sound(srv')
         /\ \A x \in srv'.peers \ joined' : Unused(srv', x)
<1> PICK d \in DeviceId \cup {None} :
       LET st == RegisterDevice(srv, c, d)
       IN \/ srv' = st
          \/ \E s \in SessionId : Hosted(st, c, s)
          \/ \E s \in SessionId : Joined(st, c, s)
  BY RegisterOutcome DEF PairingInv
<1> DEFINE st == RegisterDevice(srv, c, d)
<1>1. /\ c \in srv.peers /\ Unused(srv, c)
      /\ joined' = joined \cup {c}
  BY RegisterOutcome DEF PairingInv, WellBehaved, ReceivesRegister, Receives, Readable, WriterMatches
<1>2. /\ srv \in State /\ st \in State
      /\ c # None
  BY RegisterDeviceType, NoneAssumption DEF PairingInv, TypeOK
<1>3. /\ st.peers = srv.peers
      /\ st.paired_peer_id = srv.paired_peer_id
      /\ st.sessions = srv.sessions /\ st.session_id = srv.session_id
      /\ \A k \in DeviceId : st.devices[k] \in {srv.devices[k], c}
      /\ Sound(st)
  BY <1>1, <1>2, RegisterDeviceSound DEF PairingInv
<1> HIDE DEF st
<1>4. Sound(st)
  BY <1>3
<1>5. \A x \in srv.peers \ joined' : x # c /\ x \in Peer /\ Unused(srv, x) /\ Unused(st, x)
  BY <1>1, <1>2, <1>3 DEF PairingInv, Unused, State
<1>6. CASE srv' = st
  BY <1>3, <1>4, <1>5, <1>6
<1>7. ASSUME NEW s \in SessionId, Hosted(st, c, s)
      PROVE  Sound(srv') /\ \A x \in srv'.peers \ joined' : Unused(srv', x)
  <2>1. /\ srv'.peers = st.peers /\ srv'.paired_peer_id = st.paired_peer_id
        /\ srv'.devices = st.devices /\ srv'.device_id = st.device_id
        /\ srv'.sessions = [st.sessions EXCEPT ![s] = c]
        /\ srv'.session_id = [st.session_id EXCEPT ![c] = s]
    BY <1>2, <1>7 DEF Hosted, HostSession, State
  <2>2. /\ DOMAIN st.sessions = SessionId /\ DOMAIN srv'.sessions = SessionId
        /\ srv'.sessions[s] = c /\ srv'.session_id[c] = s
        /\ \A k \in SessionId \ {s} : srv'.sessions[k] = st.sessions[k]
        /\ \A q \in Peer \ {c} : srv'.session_id[q] = st.session_id[q]
    BY <1>2, <2>1 DEF State
  <2>3. EntriesSound(srv', srv'.sessions, srv'.session_id)
    <3> SUFFICES ASSUME NEW k \in SessionId, srv'.sessions[k] # None
                 PROVE  /\ srv'.sessions[k] \in srv'.peers
                        /\ srv'.session_id[srv'.sessions[k]] = k
      BY <2>2 DEF EntriesSound
    <3>1. CASE k = s
      BY <1>1, <1>3, <2>1, <2>2, <3>1
    <3>2. CASE k # s
      <4>1. srv'.sessions[k] = st.sessions[k] /\ st.sessions[k] # c
        BY <1>1, <1>3, <2>2, <3>2 DEF Unused
      <4>2. st.sessions[k] \in st.peers /\ st.session_id[st.sessions[k]] = k
        BY <1>4, <2>2, <4>1 DEF Sound, EntriesSound
      <4> QED BY <1>2, <2>1, <2>2, <4>1, <4>2 DEF State
    <3> QED BY <3>1, <3>2
  <2>4. Sound(srv')
    BY <1>4, <2>1, <2>3 DEF Sound, PairsSound, EntriesSound, Mutual
  <2>5. \A x \in srv'.peers \ joined' : Unused(srv', x)
    BY <1>3, <1>5, <2>1, <2>2 DEF Unused
  <2> QED BY <2>4, <2>5
<1>8. ASSUME NEW s \in SessionId, Joined(st, c, s)
      PROVE  Sound(srv') /\ \A x \in srv'.peers \ joined' : Unused(srv', x)
  <2> DEFINE h == st.sessions[s]
             free == DropStalePaired(st, h)
  <2>1. /\ h \in st.peers /\ srv' = Pair(free, c, h, s)
        /\ h \in Peer /\ h # c
    BY <1>1, <1>2, <1>3, <1>8 DEF Joined, Unused, State
  <2>2. /\ Sound(free)
        /\ free.paired_peer_id[h] = None /\ h \in free.peers
        /\ c \in free.peers /\ free.peers \subseteq st.peers
        /\ \A x \in Peer : free.paired_peer_id[x] \in {st.paired_peer_id[x], None}
        /\ \A k \in SessionId : free.sessions[k] \in {st.sessions[k], None}
        /\ \A k \in DeviceId : free.devices[k] \in {st.devices[k], None}
    BY <1>1, <1>2, <1>3, <1>4, <2>1, DropStalePairedSound DEF Unused
  <2>3. free \in State
    BY <1>2, DropStalePairedType
  <2> HIDE DEF free
  <2>5. h \notin srv.peers \ joined'
    BY <1>3, <1>5 DEF Unused
  <2> HIDE DEF h
  <2>6. /\ srv'.peers = free.peers
        /\ srv'.sessions = free.sessions /\ srv'.devices = free.devices
        /\ srv'.device_id = free.device_id
        /\ srv'.session_id = [free.session_id EXCEPT ![c] = s]
        /\ srv'.paired_peer_id = [free.paired_peer_id EXCEPT ![c] = h, ![h] = c]
    BY <2>1, <2>3 DEF Pair, State
  <2>7. /\ srv'.paired_peer_id[c] = h /\ srv'.paired_peer_id[h] = c
        /\ \A q \in Peer \ {c, h} : srv'.paired_peer_id[q] = free.paired_peer_id[q]
        /\ \A q \in Peer \ {c} : srv'.session_id[q] = free.session_id[q]
        /\ DOMAIN free.sessions = SessionId
    BY <2>1, <2>3, <2>6 DEF State
  <2>8. free.paired_peer_id[c] = None
    BY <1>1, <1>3, <2>2 DEF Unused
  <2>9. PairsSound(srv')
    <3> SUFFICES ASSUME NEW p \in free.peers, srv'.paired_peer_id[p] # None
                 PROVE  Mutual(srv', p, srv'.paired_peer_id[p])
      BY <2>6 DEF PairsSound
    <3>1. CASE p \in {c, h}
      BY <2>1, <2>2, <2>6, <2>7, <3>1 DEF Mutual
    <3>2. CASE p \notin {c, h}
      <4> DEFINE q == free.paired_peer_id[p]
      <4>1. srv'.paired_peer_id[p] = q
        BY <2>3, <2>7, <3>2 DEF State
      <4>2. Mutual(free, p, q)
        BY <2>2, <4>1 DEF Sound, PairsSound
      <4>3. q \notin {c, h} /\ q \in Peer /\ p # None
        BY <2>2, <2>3, <2>8, <4>2, NoneAssumption DEF Mutual, State
      <4>4. srv'.paired_peer_id[q] = p
        BY <2>7, <4>2, <4>3 DEF Mutual
      <4> QED BY <2>6, <4>1, <4>2, <4>4 DEF Mutual
    <3> QED BY <3>1, <3>2
  <2>10. EntriesSound(srv', srv'.sessions, srv'.session_id)
    <3> SUFFICES ASSUME NEW k \in SessionId, free.sessions[k] # None
                 PROVE  /\ free.sessions[k] \in free.peers
                        /\ srv'.session_id[free.sessions[k]] = k
      BY <2>6, <2>7 DEF EntriesSound
    <3>1. free.sessions[k] # c
      BY <1>1, <1>3, <2>2 DEF Unused
    <3>2. free.sessions[k] \in free.peers /\ free.session_id[free.sessions[k]] = k
      BY <2>2, <2>7 DEF Sound, EntriesSound
    <3> QED BY <2>3, <2>7, <3>1, <3>2 DEF State
  <2>11. EntriesSound(srv', srv'.devices, srv'.device_id)
    BY <2>2, <2>6 DEF Sound, EntriesSound
  <2>12. \A x \in srv'.peers \ joined' : Unused(srv', x)
    <3> SUFFICES ASSUME NEW x \in srv'.peers \ joined' PROVE Unused(srv', x)
      OBVIOUS
    <3>1. x # c /\ x # h /\ x \in Peer /\ Unused(st, x)
      BY <1>3, <1>5, <2>2, <2>5, <2>6
    <3>2. x # None
      BY <3>1, NoneAssumption
    <3> QED BY <2>2, <2>6, <2>7, <3>1, <3>2 DEF Unused
  <2> QED BY <2>9, <2>10, <2>11, <2>12 DEF Sound
<1> QED BY <1>6, <1>7, <1>8 DEF st

\* Two states with the same tables and pairings.
SameTables(x, y) ==
    /\ x.peers = y.peers /\ x.paired_peer_id = y.paired_peer_id
    /\ x.sessions = y.sessions /\ x.session_id = y.session_id
    /\ x.devices = y.devices /\ x.device_id = y.device_id

LEMMA NextPairing ==
  ASSUME WellBehaved, PairingInv, Next
  PROVE  PairingInv'
<1> TypeOK' /\ WriterMatches(srv)'
  BY NextType, NextWriter DEF PairingInv
<1> srv \in State /\ Sound(srv)
  BY DEF PairingInv, TypeOK
<1>1. ASSUME Sound(srv'), \A x \in srv'.peers \ joined' : Unused(srv', x)
      PROVE  PairingInv'
  <2>1. Sound(srv)'
    BY <1>1 DEF Sound, PairsSound, EntriesSound, Mutual
  <2>2. \A x \in srv'.peers \ joined' : Unused(srv, x)'
    BY <1>1 DEF Unused
  <2> QED BY <2>1, <2>2 DEF PairingInv
\* Steps that touch neither the tables nor the pairings.
<1>2. ASSUME srv'.peers = srv.peers, srv'.paired_peer_id = srv.paired_peer_id,
             srv'.sessions = srv.sessions, srv'.session_id = srv.session_id,
             srv'.devices = srv.devices, srv'.device_id = srv.device_id,
             UNCHANGED joined
      PROVE  PairingInv'
  <2>1. Sound(srv')
    BY <1>2 DEF Sound, PairsSound, EntriesSound, Mutual
  <2>2. \A x \in srv'.peers \ joined' : Unused(srv', x)
    BY <1>2 DEF PairingInv, Unused
  <2> QED BY <1>1, <2>1, <2>2
\* Removals, whatever caused them.
<1>3. ASSUME NEW p, SameTables(srv', RemovePeer(srv, p)), joined \subseteq joined' \cup {p}
      PROVE  PairingInv'
  <2>1. Sound(srv')
    <3>1. Sound(RemovePeer(srv, p))
      BY RemovePeerSound
    <3> QED BY <1>3, <3>1 DEF SameTables, Sound, PairsSound, EntriesSound, Mutual
  <2>2. srv'.peers = srv.peers \ {p}
    BY <1>3, RemovePeerTables DEF SameTables
  <2>3. ASSUME NEW x \in srv'.peers \ joined' PROVE Unused(srv', x)
    <3>1. x \in srv.peers \ joined /\ x \in Peer
      BY <1>3, <2>2, <2>3 DEF State
    <3>2. Unused(srv, x)
      BY <3>1 DEF PairingInv
    <3>3. Unused(RemovePeer(srv, p), x)
      BY <3>1, <3>2, RemovePeerUnused
    <3> QED BY <1>3, <3>3 DEF SameTables, Unused
  <2> QED BY <1>1, <2>1, <2>3
<1>4. ASSUME NEW p, srv' = SendFailed(srv, p), UNCHANGED joined
      PROVE  PairingInv'
  <2>1. Sound(srv')
    BY <1>4, SendFailedSound
  <2>2. srv'.peers \subseteq srv.peers
    <3> DEFINE freed == ForceUnpair(srv, p)
    <3>1. freed \in State /\ freed.peers = srv.peers
      BY ForceUnpairType, ForceUnpairTables
    <3> HIDE DEF freed
    <3>2. RemovePeer(freed, p).peers = freed.peers \ {p}
      BY <3>1, RemovePeerTables
    <3> QED BY <1>4, <3>1, <3>2 DEF SendFailed, freed
  <2>3. ASSUME NEW x \in srv'.peers \ joined' PROVE Unused(srv', x)
    <3>1. x \in srv.peers \ joined /\ x \in Peer
      BY <1>4, <2>2 DEF State
    <3>2. Unused(srv, x)
      BY <3>1 DEF PairingInv
    <3>3. Unused(SendFailed(srv, p), x)
      BY <3>1, <3>2, SendFailedUnused
    <3> QED BY <1>4, <3>3
  <2> QED BY <1>1, <2>1, <2>3
<1>5. ASSUME NEW c \in Peer, Accept(c) PROVE PairingInv'
  <2>1. /\ srv'.peers = srv.peers \cup {c}
        /\ srv'.sessions = srv.sessions /\ srv'.devices = srv.devices
        /\ srv'.session_id = [srv.session_id EXCEPT ![c] = None]
        /\ srv'.device_id = [srv.device_id EXCEPT ![c] = None]
        /\ srv'.paired_peer_id = [srv.paired_peer_id EXCEPT ![c] = None]
        /\ c \notin running /\ joined' = joined
    BY <1>5 DEF Accept, Unreferenced, State
  <2>2. c \notin srv.peers /\ c # None
    BY <2>1, NoneAssumption DEF PairingInv, WriterMatches
  <2>3. /\ \A s \in SessionId : srv.sessions[s] # c
        /\ \A d \in DeviceId : srv.devices[d] # c
    BY <2>2 DEF Sound, EntriesSound, State
  <2>4. /\ srv'.paired_peer_id[c] = None
        /\ \A q \in Peer \ {c} : /\ srv'.paired_peer_id[q] = srv.paired_peer_id[q]
                                /\ srv'.session_id[q] = srv.session_id[q]
                                /\ srv'.device_id[q] = srv.device_id[q]
    BY <2>1 DEF State
  <2>5. PairsSound(srv')
    <3> SUFFICES ASSUME NEW p \in srv'.peers, srv'.paired_peer_id[p] # None
                 PROVE  Mutual(srv', p, srv'.paired_peer_id[p])
      BY DEF PairsSound
    <3>1. p # c /\ p \in srv.peers /\ p \in Peer
      BY <2>1, <2>4 DEF State
    <3>2. Mutual(srv, p, srv.paired_peer_id[p])
      BY <2>4, <3>1 DEF Sound, PairsSound
    <3>3. srv.paired_peer_id[p] # c /\ srv.paired_peer_id[p] \in Peer
      BY <2>2, <3>2 DEF Mutual, State
    <3> QED BY <2>1, <2>4, <3>1, <3>2, <3>3 DEF Mutual
  <2>6. EntriesSound(srv', srv'.sessions, srv'.session_id)
    BY <2>1, <2>3, <2>4 DEF Sound, EntriesSound, State
  <2>7. EntriesSound(srv', srv'.devices, srv'.device_id)
    BY <2>1, <2>3, <2>4 DEF Sound, EntriesSound, State
  <2>8. \A x \in srv'.peers \ joined' : Unused(srv', x)
    <3> SUFFICES ASSUME NEW x \in srv'.peers \ joined' PROVE Unused(srv', x)
      OBVIOUS
    <3>1. CASE x = c
      BY <2>1, <2>3, <2>4, <3>1 DEF Unused
    <3>2. CASE x # c
      <4>1. x \in srv.peers \ joined /\ x \in Peer
        BY <2>1, <3>2 DEF State
      <4>2. Unused(srv, x)
        BY <4>1 DEF PairingInv
      <4> QED BY <2>1, <2>4, <3>2, <4>1, <4>2 DEF Unused
    <3> QED BY <3>1, <3>2
  <2> QED BY <1>1, <2>5, <2>6, <2>7, <2>8 DEF Sound
<1>6. ASSUME NEW c \in Peer, HandlerExit(c) PROVE PairingInv'
  <2> DEFINE rest == RemovePeer(srv, c)
  <2>1. rest \in State
    BY RemovePeerType
  <2>2. srv' = [rest EXCEPT !.metrics = OnDisconnection(@)] /\ joined' = joined \ {c}
    BY <1>6 DEF HandlerExit
  <2> HIDE DEF rest
  <2>3. SameTables(srv', rest)
    BY <2>1, <2>2 DEF SameTables, State
  <2> QED BY <1>3, <2>2, <2>3 DEF rest
<1>7. ASSUME NEW c \in Peer, HandleRegister(c) PROVE PairingInv'
  BY <1>1, <1>7, RegisterSound
<1>8. ASSUME NEW c \in Peer, HandleForward(c) \/ HandlePing(c) PROVE PairingInv'
  BY <1>2, <1>8 DEF HandleForward, HandlePing, WriteTo
<1>9. ASSUME NEW c \in Peer, NEW p \in Peer, Resume(c, p) PROVE PairingInv'
  <2>1. UNCHANGED joined
    BY <1>9 DEF Resume
  <2> QED BY <1>2, <1>4, <1>9, <2>1, DrainOutcome
<1>10. ASSUME NEW c \in Peer, BgDrained(c) PROVE PairingInv'
  <2>1. UNCHANGED joined
    BY <1>10 DEF BgDrained
  <2> QED BY <1>2, <1>4, <1>10, <2>1, DrainOutcome
<1>11. ASSUME NEW c \in Peer, CleanupRemove(c) \/ DisconnectPeer(c) PROVE PairingInv'
  BY <1>3, <1>11 DEF CleanupRemove, DisconnectPeer, SameTables
<1>12. ASSUME NEW c \in Peer, LinkLost(c) \/ StartNotify(c) PROVE PairingInv'
  BY <1>2, <1>12 DEF LinkLost, StartNotify, State
<1>13. CASE StartRelist
  BY <1>2, <1>13 DEF StartRelist, State
<1>14. CASE Tick \/ CleanupTick
  BY <1>2, <1>14 DEF Tick, CleanupTick
<1>15. ASSUME NEW c \in Peer, RegisterUnhashable(c) PROVE PairingInv'
  <2>1. /\ srv'.peers = srv.peers \ {c} /\ srv'.paired_peer_id = srv.paired_peer_id
        /\ srv'.sessions = srv.sessions /\ srv'.session_id = srv.session_id
        /\ srv'.devices = srv.devices /\ srv'.device_id = srv.device_id
        /\ joined' = joined \ {c}
    BY <1>15 DEF RegisterUnhashable, State
  <2>2. Unused(srv, c) /\ c # None
    BY <1>15, NoneAssumption DEF RegisterUnhashable, PairingInv, WellBehaved
  \* c has not registered, so no pairing and no entry is one of its own.
  <2>3. PairsSound(srv')
    <3> SUFFICES ASSUME NEW p \in srv'.peers, srv'.paired_peer_id[p] # None
                 PROVE  Mutual(srv', p, srv'.paired_peer_id[p])
      BY DEF PairsSound
    <3>1. Mutual(srv, p, srv.paired_peer_id[p]) /\ p \in Peer
      BY <2>1 DEF Sound, PairsSound, State
    <3>2. srv.paired_peer_id[p] # c
      BY <2>2, <3>1, NoneAssumption DEF Mutual, Unused
    <3> QED BY <2>1, <3>1, <3>2 DEF Mutual
  <2>4. /\ EntriesSound(srv', srv'.sessions, srv'.session_id)
        /\ EntriesSound(srv', srv'.devices, srv'.device_id)
    BY <2>1, <2>2 DEF Sound, EntriesSound, Unused, State
  <2>5. \A x \in srv'.peers \ joined' : Unused(srv', x)
    BY <2>1 DEF PairingInv, Unused
  <2> QED BY <1>1, <2>3, <2>4, <2>5 DEF Sound
<1>16. ASSUME NEW c \in Peer, NEW p \in Peer, HandleUnpackable(c, p) PROVE PairingInv'
  BY <1>4, <1>16 DEF HandleUnpackable
<1>17. CASE Stop
  <2>1. /\ srv'.peers = {}
        /\ srv'.sessions = [s \in SessionId |-> None]
        /\ srv'.devices = [d \in DeviceId |-> None]
    BY <1>17 DEF Stop, State
  <2>2. Sound(srv')
    BY <2>1 DEF Sound, PairsSound, EntriesSound
  <2> QED BY <1>1, <2>1, <2>2
<1> QED
  BY <1>5, <1>6, <1>7, <1>8, <1>9, <1>10, <1>11, <1>12, <1>13, <1>14, <1>17,
     <1>15, <1>16 DEF Next

LEMMA PairingInvariant == WellBehaved => (Spec => []PairingInv)
<1> SUFFICES ASSUME WellBehaved PROVE Spec => []PairingInv
  OBVIOUS
<1>1. Init => PairingInv
  <2> SUFFICES ASSUME Init PROVE PairingInv
    OBVIOUS
  <2>1. TypeOK
    BY InitType
  <2>2. srv.peers = {} /\ running = {}
    BY DEF Init
  <2>3. srv.sessions = [s \in SessionId |-> None] /\ srv.devices = [d \in DeviceId |-> None]
    BY DEF Init
  <2>4. Sound(srv)
    BY <2>2, <2>3 DEF Sound, PairsSound, EntriesSound
  <2> QED BY <2>1, <2>2, <2>4 DEF PairingInv, WriterMatches
<1>2. PairingInv /\ [Next]_vars => PairingInv'
  <2>1. CASE UNCHANGED vars
    BY <2>1 DEF PairingInv, TypeOK, vars, WriterMatches, Sound, PairsSound, EntriesSound,
                Mutual, Unused
  <2> QED BY <2>1, NextPairing
<1> QED BY <1>1, <1>2, PTL DEF Spec

\* No peer is paired with a ghost: among clients that register once per connection,
\* whatever fails and however slowly they read, a partner is connected and mutual.
THEOREM PairingCorrect == WellBehaved => (Spec => []PairingSymmetric)
<1>1. PairingInv => PairingSymmetric
  BY DEF PairingInv, Sound, PairsSound, PairingSymmetric
<1> QED BY <1>1, PairingInvariant, PTL

\* A session that is listed has its host, which is connected.
THEOREM SessionCorrect == WellBehaved => (Spec => []SessionHosted)
<1>1. PairingInv => SessionHosted
  BY DEF PairingInv, TypeOK, State, Sound, EntriesSound, SessionHosted
<1> QED BY <1>1, PairingInvariant, PTL

\* A device that is listed is the device of a connected peer.
THEOREM DeviceCorrect == WellBehaved => (Spec => []DeviceConnected)
<1>1. PairingInv => DeviceConnected
  BY DEF PairingInv, TypeOK, State, Sound, EntriesSound, DeviceConnected
<1> QED BY <1>1, PairingInvariant, PTL
=============================================================================
