-------------------------- MODULE RelayApi_proofs --------------------------
(***************************************************************************)
(* Theorems about the answers of the API: the metrics against the tables,  *)
(* in every environment, and the lists against each other.                 *)
(***************************************************************************)
EXTENDS RelayApi, RelayServer_proofs, FiniteSetTheorems

-----------------------------------------------------------------------------
(***************************************************************************)
(* The size of a table.                                                    *)
(***************************************************************************)

\* The keys with an entry.
Listed(table) == {k \in DOMAIN table : table[k] # None}

\* Disown takes one key off a table, if it changes it.
LEMMA DisownListed ==
  ASSUME NEW K, NEW table \in [K -> Peer \cup {None}], NEW key, NEW p \in Peer,
         IsFiniteSet(Listed(table))
  PROVE  /\ IsFiniteSet(Listed(Disown(table, key, p)))
         /\ Cardinality(Listed(Disown(table, key, p))) =
              Cardinality(Listed(table)) - (IF Disown(table, key, p) # table THEN 1 ELSE 0)
<1> DEFINE rest == Disown(table, key, p)
<1>1. /\ DOMAIN rest = K /\ DOMAIN table = K
      /\ \A k \in K : rest[k] = IF k = key /\ table[k] = p THEN None ELSE table[k]
      /\ rest \in [K -> Peer \cup {None}]
  BY DEF Disown
<1> HIDE DEF rest
<1>2. CASE rest = table
  <2>1. Cardinality(Listed(table)) \in Nat
    BY FS_CardinalityType
  <2> QED BY <1>2, <2>1 DEF rest
<1>3. CASE rest # table
  <2>1. key \in K /\ table[key] = p
    BY <1>1, <1>3
  <2>2. Listed(rest) = Listed(table) \ {key} /\ key \in Listed(table)
    BY <1>1, <2>1, NoneAssumption DEF Listed
  <2> QED BY <1>3, <2>2, FS_RemoveElement DEF rest
<1> QED BY <1>2, <1>3

\* An assignment adds its key.
LEMMA AssignListed ==
  ASSUME NEW K, NEW table \in [K -> Peer \cup {None}], NEW k \in K, NEW p \in Peer,
         IsFiniteSet(Listed(table))
  PROVE  /\ IsFiniteSet(Listed([table EXCEPT ![k] = p]))
         /\ Cardinality(Listed([table EXCEPT ![k] = p])) =
              Cardinality(Listed(table)) + (IF table[k] = None THEN 1 ELSE 0)
<1> DEFINE rest == [table EXCEPT ![k] = p]
           before == Listed(table)
<1>1. Listed(rest) = before \cup {k}
  BY NoneAssumption DEF Listed
<1>2. k \in before <=> table[k] # None
  BY DEF Listed
<1>3. Cardinality(before) \in Nat
  BY FS_CardinalityType
<1> HIDE DEF rest, before
<1>4. /\ IsFiniteSet(before \cup {k})
      /\ Cardinality(before \cup {k}) =
           IF k \in before THEN Cardinality(before) ELSE Cardinality(before) + 1
  BY FS_AddElement DEF before
<1>5. /\ IsFiniteSet(Listed(rest))
      /\ Cardinality(Listed(rest)) =
           Cardinality(before) + (IF table[k] = None THEN 1 ELSE 0)
  <2>1. CASE table[k] = None
    BY <1>1, <1>2, <1>4, <2>1
  <2>2. CASE table[k] # None
    BY <1>1, <1>2, <1>3, <1>4, <2>2
  <2> QED BY <2>1, <2>2
<1> QED BY <1>5 DEF rest, before

\* A table that is cleared has none.
LEMMA ClearedListed ==
  ASSUME NEW K
  PROVE  /\ IsFiniteSet(Listed([k \in K |-> None]))
         /\ Cardinality(Listed([k \in K |-> None])) = 0
<1>1. Listed([k \in K |-> None]) = {}
  BY DEF Listed
<1> QED BY <1>1, FS_EmptySet

-----------------------------------------------------------------------------
(***************************************************************************)
(* The gauges against the sizes.                                           *)
(***************************************************************************)

\* The tables have finitely many entries.
Countable(st) == IsFiniteSet(Listed(st.sessions)) /\ IsFiniteSet(Listed(st.devices))

\* By how much a gauge is ahead of its table.
SessionSlack(st) == st.metrics.active_sessions - Cardinality(Listed(st.sessions))
DeviceSlack(st) == st.metrics.devices_online - Cardinality(Listed(st.devices))

\* From st to x the connections that are counted stay, and so do the slacks.
Kept(st, x) ==
    /\ Countable(x)
    /\ SessionSlack(x) = SessionSlack(st) /\ DeviceSlack(x) = DeviceSlack(st)
    /\ x.metrics.active_connections = st.metrics.active_connections

LEMMA SlackTypes ==
  ASSUME NEW st \in State, Countable(st)
  PROVE  /\ SessionSlack(st) \in Int /\ DeviceSlack(st) \in Int
         /\ Cardinality(Listed(st.sessions)) \in Nat /\ Cardinality(Listed(st.devices)) \in Nat
         /\ st.metrics.active_sessions \in Int /\ st.metrics.devices_online \in Int
         /\ st.metrics.active_connections \in Int
BY FS_CardinalityType DEF Countable, SessionSlack, DeviceSlack, State, Metrics

LEMMA SameKept ==
  ASSUME NEW st \in State, Countable(st), NEW x,
         x.sessions = st.sessions, x.devices = st.devices, x.metrics = st.metrics
  PROVE  Kept(st, x)
BY DEF Kept, Countable, SessionSlack, DeviceSlack

\* A removal takes off each gauge what it takes off the table, whoever it removes.
LEMMA RemovePeerKept ==
  ASSUME NEW st \in State, Countable(st), NEW p
  PROVE  Kept(st, RemovePeer(st, p))
<1> DEFINE rest == RemovePeer(st, p)
           sessions == Disown(st.sessions, st.session_id[p], p)
           devices == Disown(st.devices, st.device_id[p], p)
<1>1. CASE p \notin st.peers
  BY <1>1, SameKept DEF RemovePeer
<1>2. CASE p \in st.peers
  <2>1. p \in Peer /\ rest.sessions = sessions /\ rest.devices = devices
    BY <1>2, RemovePeerTables DEF State
  <2>2. /\ rest.metrics.active_sessions =
             st.metrics.active_sessions - (IF sessions # st.sessions THEN 1 ELSE 0)
        /\ rest.metrics.devices_online =
             st.metrics.devices_online - (IF devices # st.devices THEN 1 ELSE 0)
        /\ rest.metrics.active_connections = st.metrics.active_connections
    <3>1. rest.metrics = RemovalMetrics(st, p)
      BY <1>2 DEF RemovePeer, State
    <3>2. WasDevice(st, p) <=> devices # st.devices
      BY DEF WasDevice
    <3>3. st.metrics \in Metrics
      BY DEF State
    <3> HIDE DEF rest, sessions, devices
    <3> QED
      BY <3>1, <3>2, <3>3 DEF RemovalMetrics, Metrics, OnDeviceOffline, OnSessionClosed,
         sessions
  <2>3. /\ IsFiniteSet(Listed(sessions))
        /\ Cardinality(Listed(sessions)) =
             Cardinality(Listed(st.sessions)) - (IF sessions # st.sessions THEN 1 ELSE 0)
    BY <2>1, DisownListed DEF State, Countable
  <2>4. /\ IsFiniteSet(Listed(devices))
        /\ Cardinality(Listed(devices)) =
             Cardinality(Listed(st.devices)) - (IF devices # st.devices THEN 1 ELSE 0)
    BY <2>1, DisownListed DEF State, Countable
  <2> HIDE DEF rest, sessions, devices
  <2>5. Kept(st, rest)
    BY <2>1, <2>2, <2>3, <2>4, SlackTypes DEF Kept, Countable, SessionSlack, DeviceSlack
  <2> QED BY <2>5 DEF rest
<1> QED BY <1>1, <1>2

LEMMA SendFailedKept ==
  ASSUME NEW st \in State, Countable(st), NEW p
  PROVE  Kept(st, SendFailed(st, p))
<1> DEFINE freed == ForceUnpair(st, p)
<1>1. /\ freed \in State
      /\ freed.sessions = st.sessions /\ freed.devices = st.devices
      /\ freed.metrics = st.metrics
  BY ForceUnpairType, ForceUnpairTables DEF ForceUnpair, State
<1> HIDE DEF freed
<1>2. Kept(st, freed)
  BY <1>1, SameKept
<1>3. Kept(freed, RemovePeer(freed, p))
  BY <1>1, <1>2, RemovePeerKept DEF Kept
<1> QED BY <1>2, <1>3 DEF Kept, SendFailed, freed

LEMMA DropStalePairedKept ==
  ASSUME NEW st \in State, Countable(st), NEW h
  PROVE  Kept(st, DropStalePaired(st, h))
<1> DEFINE freed == [st EXCEPT !.paired_peer_id = [@ EXCEPT ![h] = None]]
           old == st.paired_peer_id[h]
<1>1. /\ freed \in State
      /\ freed.sessions = st.sessions /\ freed.devices = st.devices
      /\ freed.metrics = st.metrics
  BY DEF State
<1>2. DropStalePaired(st, h) = RemovePeer(freed, old)
  BY DEF DropStalePaired
<1> HIDE DEF freed, old
<1>3. Kept(st, freed)
  BY <1>1, SameKept
<1>4. Kept(freed, RemovePeer(freed, old))
  BY <1>1, <1>3, RemovePeerKept DEF Kept
<1> QED BY <1>2, <1>3, <1>4 DEF Kept

\* A new host is counted once, and listed once more unless the id was in use.
LEMMA HostSessionKept ==
  ASSUME NEW st \in State, Countable(st), NEW c \in Peer, NEW s \in SessionId
  PROVE  LET x == HostSession(st, c, s)
         IN /\ Countable(x)
            /\ SessionSlack(x) = SessionSlack(st) + (IF st.sessions[s] = None THEN 0 ELSE 1)
            /\ DeviceSlack(x) = DeviceSlack(st)
            /\ x.metrics.active_connections = st.metrics.active_connections
<1> DEFINE x == HostSession(st, c, s)
<1>1. /\ x.sessions = [st.sessions EXCEPT ![s] = c]
      /\ x.devices = st.devices
      /\ x.metrics = OnSessionCreated(st.metrics)
  BY DEF HostSession, State
<1> HIDE DEF x
<1>2. /\ x.metrics.active_sessions = st.metrics.active_sessions + 1
      /\ x.metrics.devices_online = st.metrics.devices_online
      /\ x.metrics.active_connections = st.metrics.active_connections
  BY <1>1 DEF OnSessionCreated, State, Metrics
<1>3. /\ IsFiniteSet(Listed(x.sessions))
      /\ Cardinality(Listed(x.sessions)) =
           Cardinality(Listed(st.sessions)) + (IF st.sessions[s] = None THEN 1 ELSE 0)
  BY <1>1, AssignListed DEF State, Countable
<1>4. /\ Countable(x)
      /\ SessionSlack(x) = SessionSlack(st) + (IF st.sessions[s] = None THEN 0 ELSE 1)
      /\ DeviceSlack(x) = DeviceSlack(st)
  BY <1>1, <1>2, <1>3, SlackTypes DEF Countable, SessionSlack, DeviceSlack
<1> QED BY <1>2, <1>4 DEF x

\* A takeover is counted off and on, and lists the same sessions.
LEMMA TakeOverKept ==
  ASSUME NEW st \in State, Countable(st), NEW c \in Peer, NEW s \in SessionId,
         st.sessions[s] # None
  PROVE  Kept(st, TakeOver(st, c, s))
<1> DEFINE closed == [st EXCEPT !.metrics = OnSessionClosed(@)]
<1>1. /\ closed \in State
      /\ closed.sessions = st.sessions /\ closed.devices = st.devices
      /\ closed.metrics = OnSessionClosed(st.metrics)
  <2>1. OnSessionClosed(st.metrics) \in Metrics
    BY HookTypes DEF State
  <2> QED BY <2>1 DEF State
<1>2. TakeOver(st, c, s) = HostSession(closed, c, s)
  BY DEF TakeOver
<1> HIDE DEF closed
<1>3. Countable(closed) /\ closed.sessions[s] # None
  BY <1>1 DEF Countable
<1>4. /\ SessionSlack(closed) = SessionSlack(st) - 1
      /\ DeviceSlack(closed) = DeviceSlack(st)
      /\ closed.metrics.active_connections = st.metrics.active_connections
  BY <1>1, SlackTypes DEF SessionSlack, DeviceSlack, OnSessionClosed, State, Metrics
<1>5. /\ Countable(HostSession(closed, c, s))
      /\ SessionSlack(HostSession(closed, c, s)) = SessionSlack(closed) + 1
      /\ DeviceSlack(HostSession(closed, c, s)) = DeviceSlack(closed)
      /\ HostSession(closed, c, s).metrics.active_connections =
           closed.metrics.active_connections
  BY <1>1, <1>3, HostSessionKept
<1> QED BY <1>2, <1>4, <1>5, SlackTypes DEF Kept

\* A device is counted every time it registers, and listed once.
LEMMA RegisterDeviceKept ==
  ASSUME NEW st \in State, Countable(st), NEW c \in Peer, NEW d
  PROVE  LET x == RegisterDevice(st, c, d)
         IN /\ Countable(x)
            /\ SessionSlack(x) = SessionSlack(st)
            /\ DeviceSlack(x) >= DeviceSlack(st)
            /\ x.metrics.active_connections = st.metrics.active_connections
            /\ x.sessions = st.sessions
<1> DEFINE x == RegisterDevice(st, c, d)
<1>1. CASE d \notin DeviceId
  BY <1>1, SlackTypes DEF RegisterDevice
<1>2. CASE d \in DeviceId
  <2>1. /\ x.sessions = st.sessions
        /\ x.devices = [st.devices EXCEPT ![d] = c]
        /\ x.metrics = OnDeviceRegistered(st.metrics)
    BY <1>2 DEF RegisterDevice, State
  <2> HIDE DEF x
  <2>2. /\ x.metrics.active_sessions = st.metrics.active_sessions
        /\ x.metrics.devices_online = st.metrics.devices_online + 1
        /\ x.metrics.active_connections = st.metrics.active_connections
    BY <2>1 DEF OnDeviceRegistered, State, Metrics
  <2>3. /\ IsFiniteSet(Listed(x.devices))
        /\ Cardinality(Listed(x.devices)) =
             Cardinality(Listed(st.devices)) + (IF st.devices[d] = None THEN 1 ELSE 0)
    BY <1>2, <2>1, AssignListed DEF State, Countable
  <2>4. /\ Countable(x)
        /\ SessionSlack(x) = SessionSlack(st)
        /\ DeviceSlack(x) >= DeviceSlack(st)
    BY <2>1, <2>2, <2>3, SlackTypes DEF Countable, SessionSlack, DeviceSlack
  <2> QED BY <2>1, <2>2, <2>4 DEF x
<1> QED BY <1>1, <1>2

-----------------------------------------------------------------------------
(***************************************************************************)
(* What a step does to the slacks.                                         *)
(***************************************************************************)

\* No REGISTER is answered with a generated session id that is in use: what the
\* code relies on (uuid4) and nothing in it ensures.
FreshIds ==
    \A c \in Peer, r \in Requests :
      RegisterLegacy(c, r) => srv.sessions[srv'.session_id[c]] = None

LEMMA RegisterCount ==
  ASSUME TypeOK, Countable(srv), NEW c \in Peer, HandleRegister(c)
  PROVE  /\ Countable(srv')
         /\ SessionSlack(srv') >= SessionSlack(srv)
         /\ FreshIds => SessionSlack(srv') = SessionSlack(srv)
         /\ DeviceSlack(srv') >= DeviceSlack(srv)
         /\ srv'.metrics.active_connections = srv.metrics.active_connections
<1> PICK d \in DeviceId \cup {None} :
       LET st == RegisterDevice(srv, c, d)
       IN \/ srv' = st
          \/ \E s \in SessionId :
               /\ srv' = HostSession(st, c, s)
               /\ srv.sessions[s] = None \/ \E r \in Requests : RegisterLegacy(c, r)
          \/ \E s \in SessionId :
               /\ srv' = TakeOver(st, c, s)
               /\ srv.sessions[s] \notin srv.peers \cup {None}
          \/ \E s \in SessionId : Joined(st, c, s)
  BY RegisterCases
<1> DEFINE st == RegisterDevice(srv, c, d)
<1>1. /\ srv \in State /\ st \in State /\ Countable(st)
      /\ SessionSlack(st) = SessionSlack(srv) /\ DeviceSlack(st) >= DeviceSlack(srv)
      /\ st.metrics.active_connections = srv.metrics.active_connections
      /\ st.sessions = srv.sessions
  BY RegisterDeviceType, RegisterDeviceKept DEF TypeOK
<1>2. \/ srv' = st
      \/ \E s \in SessionId :
           /\ srv' = HostSession(st, c, s)
           /\ srv.sessions[s] = None \/ \E r \in Requests : RegisterLegacy(c, r)
      \/ \E s \in SessionId : srv' = TakeOver(st, c, s) /\ st.sessions[s] # None
      \/ \E s \in SessionId : Joined(st, c, s)
  BY <1>1
<1> HIDE DEF st
<1>3. /\ SessionSlack(srv) \in Int /\ DeviceSlack(srv) \in Int
      /\ SessionSlack(st) \in Int /\ DeviceSlack(st) \in Int
  BY <1>1, SlackTypes
<1>4. CASE Kept(st, srv')
  BY <1>1, <1>3, <1>4 DEF Kept
<1>5. CASE srv' = st
  BY <1>1, <1>3, <1>5
<1>6. ASSUME NEW s \in SessionId, srv' = HostSession(st, c, s),
             srv.sessions[s] = None \/ \E r \in Requests : RegisterLegacy(c, r)
      PROVE  /\ Countable(srv')
             /\ SessionSlack(srv') >= SessionSlack(srv)
             /\ FreshIds => SessionSlack(srv') = SessionSlack(srv)
             /\ DeviceSlack(srv') >= DeviceSlack(srv)
             /\ srv'.metrics.active_connections = srv.metrics.active_connections
  <2>1. /\ Countable(srv')
        /\ SessionSlack(srv') = SessionSlack(st) + (IF st.sessions[s] = None THEN 0 ELSE 1)
        /\ DeviceSlack(srv') = DeviceSlack(st)
        /\ srv'.metrics.active_connections = st.metrics.active_connections
    BY <1>1, <1>6, HostSessionKept
  <2>2. srv'.session_id[c] = s
    BY <1>1, <1>6 DEF HostSession, State
  <2>3. FreshIds => st.sessions[s] = None
    BY <1>1, <1>6, <2>2 DEF FreshIds
  <2> QED BY <1>1, <1>3, <2>1, <2>3
<1>7. ASSUME NEW s \in SessionId, srv' = TakeOver(st, c, s), st.sessions[s] # None
      PROVE  Kept(st, srv')
  BY <1>1, <1>7, TakeOverKept
<1>8. ASSUME NEW s \in SessionId, Joined(st, c, s)
      PROVE  Kept(st, srv')
  <2> DEFINE h == st.sessions[s]
             free == DropStalePaired(st, h)
  <2>1. free \in State /\ Kept(st, free)
    BY <1>1, DropStalePairedType, DropStalePairedKept
  <2>2. srv' = Pair(free, c, h, s)
    BY <1>8 DEF Joined
  <2> HIDE DEF free, h
  <2>3. /\ srv'.sessions = free.sessions /\ srv'.devices = free.devices
        /\ srv'.metrics = free.metrics
    BY <2>1, <2>2 DEF Pair, State
  <2>4. Kept(free, srv')
    BY <2>1, <2>3, SameKept DEF Kept
  <2> QED BY <2>1, <2>4 DEF Kept
<1> QED BY <1>2, <1>4, <1>5, <1>6, <1>7, <1>8

\* What the theorems on the gauges rest on: everything that is counted is finite.
CountInv == TypeOK /\ Countable(srv) /\ IsFiniteSet(running)

\* The connections that are counted, beyond those that are handled.
HandledSlack == srv.metrics.active_connections - Cardinality(running)

\* A step moves no gauge behind its table as long as the relay serves.
LEMMA NextCount ==
  ASSUME CountInv, Next
  PROVE  /\ CountInv'
         /\ HandledSlack' >= HandledSlack
         /\ HandledSlack' = HandledSlack \/ \E c \in Peer : RegisterUnhashable(c)
         /\ serving' => /\ serving
                        /\ SessionSlack(srv') >= SessionSlack(srv)
                        /\ FreshIds => SessionSlack(srv') = SessionSlack(srv)
                        /\ DeviceSlack(srv') >= DeviceSlack(srv)
<1> DEFINE Uncounted == \E c \in Peer : RegisterUnhashable(c)
           Advance == /\ Countable(srv') /\ IsFiniteSet(running')
                      /\ HandledSlack' >= HandledSlack
                      /\ HandledSlack' = HandledSlack \/ Uncounted
                      /\ serving' => /\ serving
                                     /\ SessionSlack(srv') >= SessionSlack(srv)
                                     /\ FreshIds => SessionSlack(srv') = SessionSlack(srv)
                                     /\ DeviceSlack(srv') >= DeviceSlack(srv)
<1>0. ASSUME Advance PROVE CountInv' /\ Advance
  <2>1. TypeOK'
    BY NextType DEF CountInv
  <2>2. Countable(srv)'
    BY <1>0 DEF Countable, Listed
  <2> QED BY <1>0, <2>1, <2>2 DEF CountInv
<1> /\ TypeOK /\ Countable(srv) /\ IsFiniteSet(running) /\ srv \in State
    /\ SessionSlack(srv) \in Int /\ DeviceSlack(srv) \in Int
  BY SlackTypes DEF CountInv, TypeOK
<1>a. srv.metrics.active_connections \in Int /\ Cardinality(running) \in Nat
  BY FS_CardinalityType DEF State, Metrics
<1>b. HandledSlack \in Int
  BY <1>a DEF HandledSlack
<1>1. ASSUME Kept(srv, srv'), UNCHANGED <<running, serving>> PROVE Advance
  <2>1. HandledSlack' = HandledSlack
    BY <1>1 DEF Kept, HandledSlack
  <2> QED BY <1>1, <1>b, <2>1 DEF Kept
<1>2. ASSUME srv'.sessions = srv.sessions, srv'.devices = srv.devices,
             srv'.metrics = srv.metrics, UNCHANGED <<running, serving>>
      PROVE  Advance
  BY <1>1, <1>2, SameKept
<1>3. ASSUME NEW c \in Peer, Accept(c) PROVE Advance
  <2>1. /\ srv'.sessions = srv.sessions /\ srv'.devices = srv.devices
        /\ srv'.metrics = OnConnection(srv.metrics)
        /\ running' = running \cup {c} /\ c \notin running /\ serving' = serving
    BY <1>3 DEF Accept, Unreferenced, State
  <2>2. /\ srv'.metrics.active_connections = srv.metrics.active_connections + 1
        /\ srv'.metrics.active_sessions = srv.metrics.active_sessions
        /\ srv'.metrics.devices_online = srv.metrics.devices_online
        /\ srv.metrics.active_connections \in Int
    BY <2>1 DEF OnConnection, State, Metrics
  <2>3. /\ IsFiniteSet(running') /\ Cardinality(running') = Cardinality(running) + 1
        /\ Cardinality(running) \in Nat
    BY <2>1, FS_AddElement, FS_CardinalityType
  <2>4. HandledSlack' = HandledSlack
    BY <2>2, <2>3 DEF HandledSlack
  <2>5. Countable(srv') /\ SessionSlack(srv') = SessionSlack(srv)
                        /\ DeviceSlack(srv') = DeviceSlack(srv)
    BY <2>1, <2>2 DEF Countable, SessionSlack, DeviceSlack
  <2> QED BY <1>b, <2>1, <2>3, <2>4, <2>5
<1>4. ASSUME NEW c \in Peer, HandlerExit(c) PROVE Advance
  <2> DEFINE rest == RemovePeer(srv, c)
  <2>1. rest \in State /\ Kept(srv, rest)
    BY RemovePeerType, RemovePeerKept
  <2>2. /\ srv' = [rest EXCEPT !.metrics = OnDisconnection(@)]
        /\ running' = running \ {c} /\ c \in running /\ serving' = serving
    BY <1>4 DEF HandlerExit
  <2> HIDE DEF rest
  <2>3. /\ srv'.sessions = rest.sessions /\ srv'.devices = rest.devices
        /\ srv'.metrics.active_connections = rest.metrics.active_connections - 1
        /\ srv'.metrics.active_sessions = rest.metrics.active_sessions
        /\ srv'.metrics.devices_online = rest.metrics.devices_online
        /\ rest.metrics.active_connections \in Int
    BY <2>1, <2>2 DEF OnDisconnection, State, Metrics
  <2>4. /\ IsFiniteSet(running') /\ Cardinality(running') = Cardinality(running) - 1
        /\ Cardinality(running) \in Nat
    BY <2>2, FS_RemoveElement, FS_CardinalityType
  <2>5. HandledSlack' = HandledSlack
    BY <2>1, <2>3, <2>4 DEF HandledSlack, Kept
  <2>6. Countable(srv') /\ SessionSlack(srv') = SessionSlack(srv)
                        /\ DeviceSlack(srv') = DeviceSlack(srv)
    BY <2>1, <2>3 DEF Kept, Countable, SessionSlack, DeviceSlack
  <2> QED BY <1>b, <2>2, <2>4, <2>5, <2>6
<1>5. ASSUME NEW c \in Peer, HandleRegister(c) PROVE Advance
  <2>1. UNCHANGED <<running, serving>>
    BY <1>5, RegisterOutcome DEF ReceivesRegister, Receives
  <2>2. HandledSlack' = HandledSlack
    BY <1>5, <2>1, RegisterCount DEF HandledSlack
  <2> QED BY <1>5, <1>b, <2>1, <2>2, RegisterCount
<1>6. ASSUME NEW c \in Peer, HandleForward(c) \/ HandlePing(c) PROVE Advance
  BY <1>2, <1>6 DEF HandleForward, HandlePing, WriteTo, Receives
<1>7. ASSUME NEW p, srv' = srv \/ srv' = SendFailed(srv, p), UNCHANGED <<running, serving>>
      PROVE  Advance
  BY <1>1, <1>2, <1>7, SendFailedKept
<1>8. ASSUME NEW c \in Peer, NEW p \in Peer, Resume(c, p) PROVE Advance
  BY <1>7, <1>8 DEF Resume
<1>9. ASSUME NEW c \in Peer, BgDrained(c) PROVE Advance
  BY <1>7, <1>9 DEF BgDrained
<1>10. ASSUME NEW c \in Peer, CleanupRemove(c) \/ DisconnectPeer(c) PROVE Advance
  BY <1>1, <1>10, RemovePeerKept DEF CleanupRemove, DisconnectPeer
<1>11. ASSUME NEW c \in Peer, LinkLost(c) \/ StartNotify(c) PROVE Advance
  BY <1>2, <1>11 DEF LinkLost, StartNotify, State
<1>12. ASSUME StartRelist PROVE Advance
  BY <1>2, <1>12 DEF StartRelist, State
<1>13. ASSUME Tick \/ CleanupTick PROVE Advance
  BY <1>2, <1>13 DEF Tick, CleanupTick
<1>14. ASSUME Stop PROVE Advance
  <2>1. /\ srv'.sessions = [s \in SessionId |-> None]
        /\ srv'.devices = [d \in DeviceId |-> None]
        /\ srv'.metrics = srv.metrics /\ running' = running /\ ~ serving'
    BY <1>14 DEF Stop, State
  <2>2. Countable(srv')
    BY <2>1, ClearedListed DEF Countable
  <2>3. HandledSlack' = HandledSlack
    BY <2>1 DEF HandledSlack
  <2> QED BY <1>b, <2>1, <2>2, <2>3
\* The handler ends, and is not counted off.
<1>15. ASSUME NEW c \in Peer, RegisterUnhashable(c) PROVE Advance
  <2>1. /\ srv'.sessions = srv.sessions /\ srv'.devices = srv.devices
        /\ srv'.metrics = srv.metrics
        /\ running' = running \ {c} /\ c \in running /\ serving' = serving
    BY <1>15 DEF RegisterUnhashable, Readable, State
  <2>2. IsFiniteSet(running') /\ Cardinality(running') = Cardinality(running) - 1
    BY <2>1, FS_RemoveElement
  <2>3. HandledSlack' >= HandledSlack
    BY <1>a, <2>1, <2>2 DEF HandledSlack
  <2>4. Countable(srv') /\ SessionSlack(srv') = SessionSlack(srv)
                        /\ DeviceSlack(srv') = DeviceSlack(srv)
    BY <2>1 DEF Countable, SessionSlack, DeviceSlack
  <2> QED BY <1>15, <2>1, <2>2, <2>3, <2>4
<1>16. ASSUME NEW c \in Peer, NEW p \in Peer, HandleUnpackable(c, p) PROVE Advance
  BY <1>7, <1>16 DEF HandleUnpackable, Receives
<1> HIDE DEF Advance
<1>17. Advance
  BY <1>3, <1>4, <1>5, <1>6, <1>8, <1>9, <1>10, <1>11, <1>12, <1>13, <1>14, <1>15, <1>16
     DEF Next
<1>18. CountInv' /\ Advance
  BY <1>0, <1>17
<1> QED BY <1>18 DEF Advance

LEMMA InitCount ==
  ASSUME Init
  PROVE  CountInv /\ HandledSlack = 0 /\ SessionSlack(srv) = 0
<1>1. /\ srv.sessions = [s \in SessionId |-> None]
      /\ srv.devices = [d \in DeviceId |-> None]
      /\ srv.metrics = NoMetrics /\ running = {}
  BY DEF Init
<1>2. Countable(srv) /\ Cardinality(Listed(srv.sessions)) = 0
  BY <1>1, ClearedListed DEF Countable
<1>3. IsFiniteSet(running) /\ Cardinality(running) = 0
  BY <1>1, FS_EmptySet
<1> QED
  BY <1>1, <1>2, <1>3, InitType DEF CountInv, HandledSlack, SessionSlack, NoMetrics

LEMMA StutterCount ==
  ASSUME CountInv, UNCHANGED vars
  PROVE  /\ CountInv' /\ HandledSlack' = HandledSlack
         /\ SessionSlack(srv') = SessionSlack(srv) /\ serving' = serving
BY DEF CountInv, TypeOK, Countable, Listed, HandledSlack, vars

\* The lists of the API are the tables.
LEMMA ListedByStatus ==
  ASSUME NEW st \in State
  PROVE  /\ GetStatus(st).sessions_active = Cardinality(Listed(st.sessions))
         /\ GetStatus(st).devices_online = Cardinality(Listed(st.devices))
         /\ GetStatus(st).connections_active = Cardinality(st.peers)
<1>1. ListedSessions(st) = Listed(st.sessions) /\ ListedDevices(st) = Listed(st.devices)
  BY DEF ListedSessions, ListedDevices, Listed, State
<1> QED BY <1>1 DEF GetStatus

-----------------------------------------------------------------------------
(***************************************************************************)
(* The metrics and the lists.                                              *)
(***************************************************************************)

\* In every environment - ids generated twice, several REGISTERs per connection,
\* frames read late - no step of a relay that serves takes a gauge behind its table,
\* and none but an unhashable id parts the connections counted from those handled.
THEOREM GaugesCorrect == Spec => GaugesNotBehind
<1>1. Init => CountInv
  BY InitCount
<1>2. CountInv /\ [Next]_vars => CountInv'
  BY NextCount, StutterCount
<1>3. ASSUME CountInv, Next, serving'
      PROVE  \A k \in {"sessions_active", "devices_online"} :
               GetMetrics(srv')[k] - GetStatus(srv')[k]
                 >= GetMetrics(srv)[k] - GetStatus(srv)[k]
  <2> SUFFICES ASSUME NEW k \in {"sessions_active", "devices_online"}
               PROVE  GetMetrics(srv')[k] - GetStatus(srv')[k]
                        >= GetMetrics(srv)[k] - GetStatus(srv)[k]
    OBVIOUS
  <2>1. srv \in State /\ srv' \in State
    BY <1>3, NextType DEF CountInv, TypeOK
  <2>2. /\ SessionSlack(srv') >= SessionSlack(srv)
        /\ DeviceSlack(srv') >= DeviceSlack(srv)
    BY <1>3, NextCount
  <2>3. /\ GetMetrics(srv)["sessions_active"] - GetStatus(srv)["sessions_active"]
             = SessionSlack(srv)
        /\ GetMetrics(srv)["devices_online"] - GetStatus(srv)["devices_online"]
             = DeviceSlack(srv)
    BY <2>1, ListedByStatus DEF GetMetrics, GatherHealth, SessionSlack, DeviceSlack
  <2>4. /\ GetMetrics(srv')["sessions_active"] - GetStatus(srv')["sessions_active"]
             = SessionSlack(srv')
        /\ GetMetrics(srv')["devices_online"] - GetStatus(srv')["devices_online"]
             = DeviceSlack(srv')
    BY <2>1, ListedByStatus DEF GetMetrics, GatherHealth, SessionSlack, DeviceSlack
  <2> QED BY <2>2, <2>3, <2>4
<1>4. ASSUME CountInv, Next
      PROVE  \/ GetMetrics(srv').connections_active - Cardinality(running')
                  = GetMetrics(srv).connections_active - Cardinality(running)
             \/ \E c \in Peer : RegisterUnhashable(c)
  BY <1>4, NextCount DEF HandledSlack, GetMetrics, GatherHealth
<1>5. CountInv /\ [Next]_vars =>
        [/\ serving' => \A k \in {"sessions_active", "devices_online"} :
              GetMetrics(srv')[k] - GetStatus(srv')[k]
                >= GetMetrics(srv)[k] - GetStatus(srv)[k]
         /\ \/ GetMetrics(srv').connections_active - Cardinality(running')
                  = GetMetrics(srv).connections_active - Cardinality(running)
            \/ \E c \in Peer : RegisterUnhashable(c)]_vars
  BY <1>3, <1>4
<1> QED BY <1>1, <1>2, <1>5, PTL DEF Spec, GaugesNotBehind

\* The inductive invariant: no session is counted that is not there, and every
\* connection is that is handled.
HealthInv ==
    /\ CountInv
    /\ WriterMatches(srv)
    /\ HandledSlack >= 0
    /\ serving => SessionSlack(srv) = 0

\* When no id is generated twice, the sessions counted are those listed, and no
\* connection that is handled, above all none that is listed, goes uncounted.
THEOREM HealthCorrect == Spec /\ [][FreshIds]_vars => []HealthAgrees
<1>1. Init => HealthInv
  <2>1. Init => WriterMatches(srv)
    BY DEF Init, WriterMatches
  <2> QED BY <2>1, InitCount DEF HealthInv
<1>2. HealthInv /\ [Next]_vars /\ [FreshIds]_vars => HealthInv'
  <2> SUFFICES ASSUME HealthInv, [Next]_vars, [FreshIds]_vars PROVE HealthInv'
    OBVIOUS
  <2>1. CASE UNCHANGED vars
    <3>1. WriterMatches(srv)'
      BY <2>1 DEF HealthInv, WriterMatches, vars
    <3>2. SessionSlack(srv)' = SessionSlack(srv')
      BY DEF SessionSlack, Listed
    <3> QED BY <2>1, <3>1, <3>2, StutterCount DEF HealthInv
  <2>2. CASE Next /\ FreshIds
    <3>1. WriterMatches(srv)'
      BY <2>2, NextWriter DEF HealthInv, CountInv
    <3>2. SessionSlack(srv)' = SessionSlack(srv')
      BY DEF SessionSlack, Listed
    <3>3. HandledSlack' >= 0
      <4>1. HandledSlack' >= HandledSlack /\ HandledSlack >= 0
        BY <2>2, NextCount DEF HealthInv
      <4>2. HandledSlack \in Int /\ HandledSlack' \in Int
        <5>1. CountInv /\ CountInv'
          BY <2>2, NextCount DEF HealthInv
        <5>2. /\ srv.metrics.active_connections \in Int /\ Cardinality(running) \in Int
              /\ srv'.metrics.active_connections \in Int /\ Cardinality(running') \in Int
          BY <5>1, FS_CardinalityType DEF CountInv, TypeOK, State, Metrics
        <5> QED BY <5>2 DEF HandledSlack
      <4> QED BY <4>1, <4>2
    <3> QED BY <2>2, <3>1, <3>2, <3>3, NextCount DEF HealthInv
  <2> QED BY <2>1, <2>2
<1>3. HealthInv => HealthAgrees
  <2> SUFFICES ASSUME HealthInv, serving PROVE
        /\ GetMetrics(srv).sessions_active = GetStatus(srv).sessions_active
        /\ GetMetrics(srv).connections_active >= Cardinality(running)
        /\ Cardinality(running) >= GetStatus(srv).connections_active
    BY DEF HealthAgrees
  <2>1. srv \in State /\ IsFiniteSet(running) /\ Countable(srv)
    BY DEF HealthInv, CountInv, TypeOK
  <2>2. /\ IsFiniteSet(srv.peers)
        /\ Cardinality(running) \in Nat /\ Cardinality(srv.peers) <= Cardinality(running)
    BY <2>1, FS_Subset, FS_CardinalityType DEF HealthInv, WriterMatches
  <2>3. srv.metrics.active_connections >= Cardinality(running)
    <3>1. srv.metrics.active_connections \in Int
      BY <2>1 DEF State, Metrics
    <3> QED BY <2>2, <3>1 DEF HealthInv, HandledSlack
  <2>4. srv.metrics.active_sessions = Cardinality(Listed(srv.sessions))
    BY <2>1, SlackTypes DEF HealthInv, SessionSlack
  <2>5. Cardinality(srv.peers) \in Nat
    BY <2>2, FS_CardinalityType
  <2> QED
    BY <2>1, <2>2, <2>3, <2>4, <2>5, ListedByStatus DEF GetMetrics, GatherHealth
<1> QED BY <1>1, <1>2, <1>3, PTL DEF Spec

-----------------------------------------------------------------------------
(***************************************************************************)
(* The pairs that are listed, among clients that register once.            *)
(***************************************************************************)

\* Of every pair both are in one session, and one of them hosts it.
PairsHosted(st) ==
    \A x, y \in Peer : Mutual(st, x, y) =>
      /\ st.session_id[x] = st.session_id[y]
      /\ st.session_id[x] \in SessionId
      /\ st.sessions[st.session_id[x]] \in {x, y}

\* Where pairs only end, those that stay are as they were.
LEMMA FewerPairs ==
  ASSUME NEW st \in State, NEW x \in State, PairsHosted(st),
         x.peers \subseteq st.peers,
         \A q \in Peer : x.paired_peer_id[q] \in {st.paired_peer_id[q], None},
         x.session_id = st.session_id,
         \A s \in SessionId : st.sessions[s] \in x.peers => x.sessions[s] = st.sessions[s]
  PROVE  PairsHosted(x)
<1> SUFFICES ASSUME NEW p \in Peer, NEW q \in Peer, Mutual(x, p, q)
             PROVE  /\ x.session_id[p] = x.session_id[q]
                    /\ x.session_id[p] \in SessionId
                    /\ x.sessions[x.session_id[p]] \in {p, q}
  BY DEF PairsHosted
<1>1. p # None /\ q # None /\ p \in x.peers /\ q \in x.peers
  BY NoneAssumption DEF Mutual
<1>2. Mutual(st, p, q)
  BY <1>1 DEF Mutual
<1> QED BY <1>1, <1>2 DEF PairsHosted

LEMMA RemovePeerHosted ==
  ASSUME NEW st \in State, PairsHosted(st), NEW p
  PROVE  PairsHosted(RemovePeer(st, p))
<1> DEFINE rest == RemovePeer(st, p)
<1>1. CASE p \notin st.peers
  BY <1>1 DEF RemovePeer
<1>2. CASE p \in st.peers
  <2>1. /\ rest \in State /\ rest.peers = st.peers \ {p}
        /\ rest.paired_peer_id = Unpair(st, p)
        /\ rest.session_id = st.session_id
        /\ rest.sessions = Disown(st.sessions, st.session_id[p], p)
    BY <1>2, RemovePeerType, RemovePeerTables
  <2> HIDE DEF rest
  <2>2. \A q \in Peer : rest.paired_peer_id[q] \in {st.paired_peer_id[q], None}
    BY <2>1 DEF Unpair
  <2>3. \A s \in SessionId : st.sessions[s] \in rest.peers => rest.sessions[s] = st.sessions[s]
    BY <2>1 DEF Disown, State
  <2>4. PairsHosted(rest)
    BY <2>1, <2>2, <2>3, FewerPairs
  <2> QED BY <2>4 DEF rest
<1> QED BY <1>1, <1>2

LEMMA SendFailedHosted ==
  ASSUME NEW st \in State, PairsHosted(st), NEW p
  PROVE  PairsHosted(SendFailed(st, p))
<1> DEFINE freed == ForceUnpair(st, p)
<1>1. /\ freed \in State /\ freed.peers = st.peers
      /\ freed.paired_peer_id = [Unpair(st, p) EXCEPT ![p] = None]
      /\ freed.session_id = st.session_id /\ freed.sessions = st.sessions
  BY ForceUnpairType, ForceUnpairTables
<1> HIDE DEF freed
<1>2. \A q \in Peer : freed.paired_peer_id[q] \in {st.paired_peer_id[q], None}
  BY <1>1 DEF Unpair
<1>3. PairsHosted(freed)
  BY <1>1, <1>2, FewerPairs
<1>4. PairsHosted(RemovePeer(freed, p))
  BY <1>1, <1>3, RemovePeerHosted
<1> QED BY <1>4 DEF SendFailed, freed

\* A host that is freed keeps its sessions.
LEMMA DropStalePairedHosted ==
  ASSUME NEW st \in State, Sound(st), PairsHosted(st), NEW h \in st.peers
  PROVE  LET free == DropStalePaired(st, h)
         IN /\ PairsHosted(free)
            /\ \A s \in SessionId : st.sessions[s] = h => free.sessions[s] = h
<1> DEFINE host == [st EXCEPT !.paired_peer_id = [@ EXCEPT ![h] = None]]
           old == st.paired_peer_id[h]
           free == RemovePeer(host, old)
<1>1. /\ host \in State /\ host.peers = st.peers
      /\ host.paired_peer_id = [st.paired_peer_id EXCEPT ![h] = None]
      /\ host.session_id = st.session_id /\ host.sessions = st.sessions
  BY DEF State
<1>2. DropStalePaired(st, h) = free
  BY DEF DropStalePaired
<1>3. old # h
  BY NoneAssumption DEF Sound, PairsSound, Mutual, State
<1> HIDE DEF host, old
<1>4. \A q \in Peer : host.paired_peer_id[q] \in {st.paired_peer_id[q], None}
  BY <1>1 DEF State
<1>5. PairsHosted(host)
  BY <1>1, <1>4, FewerPairs
<1>6. PairsHosted(free)
  BY <1>1, <1>5, RemovePeerHosted
<1>7. \A s \in SessionId : st.sessions[s] = h => free.sessions[s] = h
  <2>1. free.sessions = IF old \in host.peers THEN Disown(host.sessions, host.session_id[old], old)
                        ELSE host.sessions
    BY <1>1, RemovePeerTables
  <2> HIDE DEF free
  <2>2. DOMAIN host.sessions = SessionId
    BY <1>1 DEF State
  <2> QED BY <1>1, <1>3, <2>1, <2>2 DEF Disown
<1> QED BY <1>2, <1>6, <1>7

LEMMA RegisterHosted ==
  ASSUME WellBehaved, FreshIds, PairingInv, PairsHosted(srv),
         NEW c \in Peer, HandleRegister(c)
  PROVE  PairsHosted(srv')
<1> PICK d \in DeviceId \cup {None} :
       LET st == RegisterDevice(srv, c, d)
       IN \/ srv' = st
          \/ \E s \in SessionId :
               /\ srv' = HostSession(st, c, s)
               /\ srv.sessions[s] = None \/ \E r \in Requests : RegisterLegacy(c, r)
          \/ \E s \in SessionId :
               /\ srv' = TakeOver(st, c, s)
               /\ srv.sessions[s] \notin srv.peers \cup {None}
          \/ \E s \in SessionId : Joined(st, c, s)
  BY RegisterCases DEF PairingInv
<1> DEFINE st == RegisterDevice(srv, c, d)
<1>1. c \in srv.peers /\ Unused(srv, c) /\ c # None
  BY RegisterOutcome, NoneAssumption
     DEF PairingInv, WellBehaved, ReceivesRegister, Receives, Readable, WriterMatches
<1>2. /\ srv \in State /\ st \in State
      /\ st.peers = srv.peers /\ st.paired_peer_id = srv.paired_peer_id
      /\ st.sessions = srv.sessions /\ st.session_id = srv.session_id
  <2>1. srv \in State /\ st \in State
    BY RegisterDeviceType DEF PairingInv, TypeOK
  <2> QED BY <2>1 DEF RegisterDevice, State
<1>3. \/ srv' = st
      \/ \E s \in SessionId :
           /\ srv' = HostSession(st, c, s) \/ srv' = TakeOver(st, c, s)
           /\ srv.sessions[s] \notin srv.peers
      \/ \E s \in SessionId : Joined(st, c, s)
  <2>1. None \notin srv.peers
    BY <1>2, NoneAssumption DEF State
  <2>2. ASSUME NEW s \in SessionId, srv' = HostSession(st, c, s) PROVE srv'.session_id[c] = s
    BY <1>2, <2>2 DEF HostSession, State
  <2> HIDE DEF st
  <2>3. ASSUME NEW s \in SessionId, srv' = HostSession(st, c, s),
               srv.sessions[s] = None \/ \E r \in Requests : RegisterLegacy(c, r)
        PROVE  srv.sessions[s] \notin srv.peers
    BY <2>1, <2>2, <2>3 DEF FreshIds
  <2> QED BY <2>3 DEF st
<1>4. Sound(st) /\ PairsHosted(st)
  <2>1. PairsHosted(st)
    BY <1>2 DEF PairsHosted, Mutual
  <2>2. Sound(st)
    BY <1>1, <1>2, RegisterDeviceSound DEF PairingInv
  <2> QED BY <2>1, <2>2
<1> HIDE DEF st
<1>5. CASE srv' = st
  BY <1>4, <1>5
<1>6. ASSUME NEW s \in SessionId, srv' = HostSession(st, c, s) \/ srv' = TakeOver(st, c, s),
             srv.sessions[s] \notin srv.peers
      PROVE  PairsHosted(srv')
  <2>1. /\ srv'.peers = st.peers /\ srv'.paired_peer_id = st.paired_peer_id
        /\ srv'.sessions = [st.sessions EXCEPT ![s] = c]
        /\ srv'.session_id = [st.session_id EXCEPT ![c] = s]
    BY <1>2, <1>6 DEF HostSession, TakeOver, State
  <2> SUFFICES ASSUME NEW x \in Peer, NEW y \in Peer, Mutual(srv', x, y)
               PROVE  /\ srv'.session_id[x] = srv'.session_id[y]
                      /\ srv'.session_id[x] \in SessionId
                      /\ srv'.sessions[srv'.session_id[x]] \in {x, y}
    BY DEF PairsHosted
  <2>2. Mutual(st, x, y)
    BY <2>1 DEF Mutual
  <2>3. x # c /\ y # c /\ x # None /\ y # None
    BY <1>1, <1>2, <2>2, NoneAssumption DEF Mutual, Unused
  <2>4. srv'.session_id[x] = st.session_id[x] /\ srv'.session_id[y] = st.session_id[y]
    BY <1>2, <2>1, <2>3 DEF State
  <2>5. /\ st.session_id[x] = st.session_id[y] /\ st.session_id[x] \in SessionId
        /\ st.sessions[st.session_id[x]] \in {x, y}
    BY <1>4, <2>2 DEF PairsHosted
  <2>6. st.session_id[x] # s
    BY <1>2, <1>6, <2>2, <2>5 DEF Mutual
  <2>7. srv'.sessions[st.session_id[x]] = st.sessions[st.session_id[x]]
    BY <1>2, <2>1, <2>5, <2>6 DEF State
  <2> QED BY <2>4, <2>5, <2>7
<1>7. ASSUME NEW s \in SessionId, Joined(st, c, s) PROVE PairsHosted(srv')
  <2> DEFINE h == st.sessions[s]
             free == DropStalePaired(st, h)
  <2>1. /\ h \in st.peers /\ srv' = Pair(free, c, h, s)
        /\ h \in Peer /\ h # c
    BY <1>1, <1>2, <1>7 DEF Joined, Unused, State
  <2>2. /\ free \in State /\ free.session_id = st.session_id
        /\ PairsHosted(free) /\ free.sessions[s] = h
    BY <1>2, <1>4, <2>1, DropStalePairedType, DropStalePairedSound, DropStalePairedHosted
  <2>3. st.session_id[h] = s
    BY <1>2, <1>4, <2>1, NoneAssumption DEF Sound, EntriesSound, State
  <2> HIDE DEF free, h
  <2>4. /\ srv'.peers = free.peers /\ srv'.sessions = free.sessions
        /\ srv'.session_id = [free.session_id EXCEPT ![c] = s]
        /\ srv'.paired_peer_id = [free.paired_peer_id EXCEPT ![c] = h, ![h] = c]
    BY <2>1, <2>2 DEF Pair, State
  <2>5. /\ srv'.paired_peer_id[c] = h /\ srv'.paired_peer_id[h] = c
        /\ \A q \in Peer \ {c, h} : srv'.paired_peer_id[q] = free.paired_peer_id[q]
        /\ srv'.session_id[c] = s
        /\ \A q \in Peer \ {c} : srv'.session_id[q] = free.session_id[q]
    BY <2>1, <2>2, <2>4 DEF State
  <2> SUFFICES ASSUME NEW x \in Peer, NEW y \in Peer, Mutual(srv', x, y)
               PROVE  /\ srv'.session_id[x] = srv'.session_id[y]
                      /\ srv'.session_id[x] \in SessionId
                      /\ srv'.sessions[srv'.session_id[x]] \in {x, y}
    BY DEF PairsHosted
  <2>6. CASE x \in {c, h}
    <3>1. {x, y} = {c, h}
      BY <2>5, <2>6 DEF Mutual
    <3>2. srv'.session_id[h] = s
      BY <2>1, <2>2, <2>3, <2>5
    <3> QED BY <2>2, <2>4, <2>5, <3>1, <3>2
  <2>7. CASE x \notin {c, h}
    <3>1. y \notin {c, h}
      BY <2>1, <2>5, <2>7 DEF Mutual
    <3>2. Mutual(free, x, y)
      BY <2>4, <2>5, <2>7, <3>1 DEF Mutual
    <3> QED BY <2>2, <2>4, <2>5, <2>7, <3>1, <3>2 DEF PairsHosted
  <2> QED BY <2>6, <2>7
<1> QED BY <1>3, <1>5, <1>6, <1>7

LEMMA NextHosted ==
  ASSUME WellBehaved, FreshIds, PairingInv, PairsHosted(srv), Next
  PROVE  PairsHosted(srv')
<1> srv \in State
  BY DEF PairingInv, TypeOK
<1>1. ASSUME srv'.peers \subseteq srv.peers, srv'.paired_peer_id = srv.paired_peer_id,
             srv'.sessions = srv.sessions, srv'.session_id = srv.session_id
      PROVE  PairsHosted(srv')
  BY <1>1 DEF PairsHosted, Mutual
<1>2. ASSUME NEW c \in Peer, Accept(c) PROVE PairsHosted(srv')
  <2>1. /\ srv'.peers = srv.peers \cup {c}
        /\ srv'.sessions = srv.sessions
        /\ srv'.session_id = [srv.session_id EXCEPT ![c] = None]
        /\ srv'.paired_peer_id = [srv.paired_peer_id EXCEPT ![c] = None]
        /\ c \notin running
    BY <1>2 DEF Accept, Unreferenced, State
  <2>2. c \notin srv.peers
    BY <2>1 DEF PairingInv, WriterMatches
  <2>3. /\ srv'.paired_peer_id[c] = None
        /\ \A q \in Peer \ {c} : /\ srv'.paired_peer_id[q] = srv.paired_peer_id[q]
                                /\ srv'.session_id[q] = srv.session_id[q]
    BY <2>1 DEF State
  <2>4. ASSUME NEW x \in Peer, NEW y \in Peer, Mutual(srv', x, y)
        PROVE  x # c /\ y # c /\ Mutual(srv, x, y)
    BY <2>1, <2>3, <2>4, NoneAssumption DEF Mutual
  <2> QED BY <2>1, <2>3, <2>4 DEF PairsHosted
<1>3. ASSUME NEW c \in Peer, HandlerExit(c) PROVE PairsHosted(srv')
  <2> DEFINE rest == RemovePeer(srv, c)
  <2>1. rest \in State /\ PairsHosted(rest)
    BY RemovePeerType, RemovePeerHosted
  <2>2. srv' = [rest EXCEPT !.metrics = OnDisconnection(@)]
    BY <1>3 DEF HandlerExit
  <2> HIDE DEF rest
  <2>3. /\ srv'.peers = rest.peers /\ srv'.paired_peer_id = rest.paired_peer_id
        /\ srv'.sessions = rest.sessions /\ srv'.session_id = rest.session_id
    BY <2>1, <2>2 DEF State
  <2> QED BY <2>1, <2>3 DEF PairsHosted, Mutual
<1>4. ASSUME NEW c \in Peer, HandleForward(c) \/ HandlePing(c) PROVE PairsHosted(srv')
  BY <1>1, <1>4 DEF HandleForward, HandlePing, WriteTo
<1>5. ASSUME NEW c \in Peer, NEW p \in Peer, Resume(c, p) PROVE PairsHosted(srv')
  BY <1>5, SendFailedHosted, DrainOutcome
<1>6. ASSUME NEW c \in Peer, BgDrained(c) PROVE PairsHosted(srv')
  BY <1>6, SendFailedHosted, DrainOutcome
<1>7. ASSUME NEW c \in Peer, CleanupRemove(c) \/ DisconnectPeer(c) PROVE PairsHosted(srv')
  BY <1>7, RemovePeerHosted DEF CleanupRemove, DisconnectPeer
<1>8. ASSUME NEW c \in Peer, LinkLost(c) \/ StartNotify(c) PROVE PairsHosted(srv')
  BY <1>1, <1>8 DEF LinkLost, StartNotify, State
<1>9. CASE StartRelist
  BY <1>1, <1>9 DEF StartRelist, State
<1>10. CASE Tick \/ CleanupTick
  BY <1>1, <1>10 DEF Tick, CleanupTick
<1>11. CASE Stop
  <2>1. srv'.peers = {}
    BY <1>11 DEF Stop, State
  <2> QED BY <2>1 DEF PairsHosted, Mutual
<1>12. ASSUME NEW c \in Peer, RegisterUnhashable(c) PROVE PairsHosted(srv')
  BY <1>1, <1>12 DEF RegisterUnhashable, State
<1>13. ASSUME NEW c \in Peer, NEW p \in Peer, HandleUnpackable(c, p)
       PROVE  PairsHosted(srv')
  BY <1>13, SendFailedHosted DEF HandleUnpackable
<1> QED
  BY <1>2, <1>3, <1>4, <1>5, <1>6, <1>7, <1>8, <1>9, <1>10, <1>11, <1>12, <1>13,
     RegisterHosted DEF Next

\* GET /peers and GET /sessions agree on every pair, among clients that register once,
\* when no session id is generated twice.
THEOREM PairsCorrect == WellBehaved => (Spec /\ [][FreshIds]_vars => []PairHosted)
<1> SUFFICES ASSUME WellBehaved PROVE Spec /\ [][FreshIds]_vars => []PairHosted
  OBVIOUS
<1>1. Init => PairsHosted(srv)
  BY DEF Init, PairsHosted, Mutual
<1>2. PairingInv /\ PairsHosted(srv) /\ [Next]_vars /\ [FreshIds]_vars => PairsHosted(srv)'
  <2> SUFFICES ASSUME PairingInv, PairsHosted(srv), [Next]_vars, [FreshIds]_vars
               PROVE  PairsHosted(srv')
    BY DEF PairsHosted, Mutual
  <2>1. CASE UNCHANGED vars
    BY <2>1 DEF PairsHosted, Mutual, vars
  <2> QED BY <2>1, NextHosted
<1>3. PairingInv /\ PairsHosted(srv) => PairHosted
  <2> SUFFICES ASSUME PairingInv, PairsHosted(srv),
                      NEW p \in GetPeers(srv), p.paired_with # None
               PROVE  \E q \in GetPeers(srv) :
                        /\ q.peer_id = p.paired_with /\ q.paired_with = p.peer_id
                        /\ q.session_id = p.session_id
                        /\ \E s \in GetSessions(srv) :
                             /\ s.session_id = p.session_id
                             /\ s.host_peer_id \in {p.peer_id, q.peer_id}
                             /\ s.host_online
    BY DEF PairHosted
  <2> DEFINE peer(x) == [peer_id |-> x, device_id |-> srv.device_id[x],
                         session_id |-> srv.session_id[x],
                         paired_with |-> srv.paired_peer_id[x]]
             session(s) == [session_id |-> s, host_peer_id |-> srv.sessions[s],
                            host_online |-> srv.sessions[s] \in srv.peers]
  <2>1. /\ \A x \in srv.peers : peer(x) \in GetPeers(srv)
        /\ \A s \in ListedSessions(srv) : session(s) \in GetSessions(srv)
    BY DEF GetPeers, GetSessions
  <2>2. PICK x \in srv.peers : p = peer(x)
    BY DEF GetPeers
  <2> DEFINE y == srv.paired_peer_id[x]
             s == srv.session_id[x]
  <2>3. Mutual(srv, x, y) /\ x \in Peer /\ y \in Peer
    BY <2>2 DEF PairingInv, TypeOK, State, Sound, PairsSound, Mutual
  <2>4. s = srv.session_id[y] /\ s \in SessionId /\ srv.sessions[s] \in {x, y}
    BY <2>3 DEF PairsHosted
  <2>5. /\ y \in srv.peers /\ srv.paired_peer_id[y] = x
        /\ s \in ListedSessions(srv) /\ srv.sessions[s] \in srv.peers
    BY <2>3, <2>4, NoneAssumption DEF Mutual, ListedSessions
  <2>6. peer(y) \in GetPeers(srv) /\ session(s) \in GetSessions(srv)
    BY <2>1, <2>5
  <2>7. /\ peer(y).peer_id = p.paired_with /\ peer(y).paired_with = p.peer_id
        /\ peer(y).session_id = p.session_id
    BY <2>2, <2>4, <2>5
  <2>8. /\ session(s).session_id = p.session_id
        /\ session(s).host_peer_id \in {p.peer_id, peer(y).peer_id}
        /\ session(s).host_online
    BY <2>2, <2>4, <2>5
  <2> HIDE DEF peer, session, y, s
  <2> QED BY <2>6, <2>7, <2>8
<1>4. Spec => []PairingInv
  BY PairingInvariant
<1> QED BY <1>1, <1>2, <1>3, <1>4, PTL DEF Spec

-----------------------------------------------------------------------------
(***************************************************************************)
(* The device lists the clients have, if no connection registers twice.    *)
(***************************************************************************)

\* GoneUnlisted, of a state of the tables and the notices.
Current(st, notices) ==
    \A p \in Listeners(st) : \A d \in notices[p].devices \ {None} :
      st.relist \/ (d \in DeviceId /\ st.devices[d] # None)

\* No list grows old where no device goes, unless a new list is on its way.
LEMMA StillCurrent ==
  ASSUME NEW st, NEW x, NEW notices, Current(st, notices),
         Listeners(x) \subseteq Listeners(st),
         st.relist => x.relist,
         \A d \in DeviceId : st.devices[d] # None => x.devices[d] # None \/ x.relist
  PROVE  Current(x, notices)
BY DEF Current

\* Every device is listed with the peer that last registered it, and under its own id.
Owned(st) ==
    \A d \in DeviceId : st.devices[d] # None => st.device_id[st.devices[d]] = d

\* Nothing is registered, and no peer changes its device.
Sheds(st, x) ==
    /\ x.device_id = st.device_id
    /\ \A d \in DeviceId : x.devices[d] \in {st.devices[d], None}

\* The inductive invariant: also a handler that outlived its connection registers once.
ListInv ==
    /\ TypeOK
    /\ Owned(srv)
    /\ \A c \in running \ joined : \A d \in DeviceId : srv.devices[d] # c
    /\ Current(srv, told)

LEMMA ShedsOwned ==
  ASSUME NEW st, NEW x, Owned(st), Sheds(st, x)
  PROVE  /\ Owned(x)
         /\ \A c \in Peer : (\A d \in DeviceId : st.devices[d] # c) =>
                             \A d \in DeviceId : x.devices[d] # c
BY NoneAssumption DEF Owned, Sheds

LEMMA RemovePeerSheds ==
  ASSUME NEW st \in State, NEW p
  PROVE  Sheds(st, RemovePeer(st, p))
<1> DEFINE rest == RemovePeer(st, p)
<1>1. CASE p \notin st.peers
  BY <1>1 DEF RemovePeer, Sheds
<1>2. CASE p \in st.peers
  <2>1. /\ rest.devices = Disown(st.devices, st.device_id[p], p)
        /\ rest.device_id = st.device_id
    BY <1>2, RemovePeerTables
  <2>2. DOMAIN st.devices = DeviceId
    BY DEF State
  <2> HIDE DEF rest
  <2>3. Sheds(st, rest)
    BY <2>1, <2>2 DEF Sheds, Disown
  <2> QED BY <2>3 DEF rest
<1> QED BY <1>1, <1>2

LEMMA SendFailedSheds ==
  ASSUME NEW st \in State, NEW p
  PROVE  Sheds(st, SendFailed(st, p))
<1> DEFINE freed == ForceUnpair(st, p)
<1>1. freed \in State /\ freed.device_id = st.device_id /\ freed.devices = st.devices
  BY ForceUnpairType DEF ForceUnpair, State
<1> HIDE DEF freed
<1>2. Sheds(freed, RemovePeer(freed, p))
  BY <1>1, RemovePeerSheds
<1> QED BY <1>1, <1>2 DEF SendFailed, Sheds, freed

LEMMA DropStalePairedSheds ==
  ASSUME NEW st \in State, NEW h
  PROVE  Sheds(st, DropStalePaired(st, h))
<1> DEFINE host == [st EXCEPT !.paired_peer_id = [@ EXCEPT ![h] = None]]
           old == st.paired_peer_id[h]
<1>1. host \in State /\ host.device_id = st.device_id /\ host.devices = st.devices
  BY DEF State
<1>2. DropStalePaired(st, h) = RemovePeer(host, old)
  BY DEF DropStalePaired
<1> HIDE DEF host, old
<1>3. Sheds(host, RemovePeer(host, old))
  BY <1>1, RemovePeerSheds
<1> QED BY <1>1, <1>2, <1>3 DEF Sheds

LEMMA RemovePeerCurrent ==
  ASSUME NEW st \in State, NEW notices, Current(st, notices), NEW p
  PROVE  Current(RemovePeer(st, p), notices)
<1> DEFINE rest == RemovePeer(st, p)
           devices == Disown(st.devices, st.device_id[p], p)
<1>1. CASE p \notin st.peers
  BY <1>1 DEF RemovePeer
<1>2. CASE p \in st.peers
  <2>1. /\ rest.peers = st.peers \ {p}
        /\ rest.link = CloseWriter(st, p)
        /\ rest.devices = devices
        /\ rest.relist = (st.relist \/ devices # st.devices)
    BY <1>2 DEF RemovePeer, WasDevice, State
  <2> HIDE DEF rest, devices
  <2>2. Listeners(rest) \subseteq Listeners(st)
    BY <2>1 DEF Listeners, CloseWriter, State
  <2>3. \A d \in DeviceId : st.devices[d] # None => rest.devices[d] # None \/ rest.relist
    BY <2>1
  <2>4. st.relist => rest.relist
    BY <2>1
  <2>5. Current(rest, notices)
    BY <2>2, <2>3, <2>4, StillCurrent
  <2> QED BY <2>5 DEF rest
<1> QED BY <1>1, <1>2

LEMMA SendFailedCurrent ==
  ASSUME NEW st \in State, NEW notices, Current(st, notices), NEW p
  PROVE  Current(SendFailed(st, p), notices)
<1> DEFINE freed == ForceUnpair(st, p)
<1>1. /\ freed \in State /\ freed.peers = st.peers /\ freed.link = st.link
      /\ freed.devices = st.devices /\ freed.relist = st.relist
  BY ForceUnpairType, ForceUnpairTables DEF ForceUnpair, State
<1> HIDE DEF freed
<1>2. Current(freed, notices)
  BY <1>1, StillCurrent DEF Listeners
<1>3. Current(RemovePeer(freed, p), notices)
  BY <1>1, <1>2, RemovePeerCurrent
<1> QED BY <1>3 DEF SendFailed, freed

LEMMA DropStalePairedCurrent ==
  ASSUME NEW st \in State, NEW notices, Current(st, notices), NEW h
  PROVE  Current(DropStalePaired(st, h), notices)
<1> DEFINE host == [st EXCEPT !.paired_peer_id = [@ EXCEPT ![h] = None]]
           old == st.paired_peer_id[h]
<1>1. /\ host \in State /\ host.peers = st.peers /\ host.link = st.link
      /\ host.devices = st.devices /\ host.relist = st.relist
  BY DEF State
<1>2. DropStalePaired(st, h) = RemovePeer(host, old)
  BY DEF DropStalePaired
<1> HIDE DEF host, old
<1>3. Current(host, notices)
  BY <1>1, StillCurrent DEF Listeners
<1>4. Current(RemovePeer(host, old), notices)
  BY <1>1, <1>3, RemovePeerCurrent
<1> QED BY <1>2, <1>4

\* A notice that names a partner leaves the device lists alone.
LEMMA TellCurrent ==
  ASSUME NEW st \in State, NEW notices \in [Peer -> Notice], Current(st, notices),
         NEW at, NEW p, NEW q
  PROVE  Current(st, Tell(notices, at, p, q))
<1>1. \A x \in Peer : Tell(notices, at, p, q)[x].devices = notices[x].devices
  BY DEF Tell, Notice
<1>2. Listeners(st) \subseteq Peer
  BY DEF Listeners, State
<1> QED BY <1>1, <1>2 DEF Current

\* The device list that is written is current.
LEMMA TellDevicesCurrent ==
  ASSUME NEW st \in State, Owned(st), NEW notices \in [Peer -> Notice]
  PROVE  \A p \in Listeners(st) : \A d \in TellDevices(notices, st)[p].devices \ {None} :
           d \in DeviceId /\ st.devices[d] # None
<1>1. \A p \in Listeners(st) : TellDevices(notices, st)[p].devices = DeviceList(st)
  BY DEF TellDevices, Notice, Listeners, State
<1>2. \A d \in DeviceId : st.devices[d] # None => st.device_id[st.devices[d]] = d
  BY DEF Owned
<1>3. \A d \in DeviceList(st) : d \in DeviceId /\ st.devices[d] # None
  BY <1>2 DEF DeviceList
<1> QED BY <1>1, <1>3

LEMMA FinishCurrent ==
  ASSUME NEW c, NEW st \in State, Owned(st), NEW k \in Continuation,
         NEW notices \in [Peer -> Notice], Current(st, notices),
         Finish(c, st, k, notices)
  PROVE  Current(st, told')
<1>1. CASE k.op = "done"
  BY <1>1 DEF Finish
<1>2. CASE k.op = "list"
  <2>1. told' = TellDevices(notices, st)
    BY <1>2 DEF Finish
  <2> QED BY <2>1, TellDevicesCurrent DEF Current
<1>3. CASE k.op = "guest"
  BY <1>3, TellCurrent DEF Finish
<1> QED BY <1>1, <1>2, <1>3 DEF Continuation

LEMMA WriteToCurrent ==
  ASSUME NEW c, NEW p, NEW st \in State, Owned(st), NEW k \in Continuation,
         NEW notices \in [Peer -> Notice], Current(st, notices),
         WriteTo(c, p, st, k, notices)
  PROVE  Current(st, told')
BY FinishCurrent DEF WriteTo

\* What a REGISTER writes: its answer, after which a list or a notice to the host.
LEMMA RegisterWrites ==
  ASSUME TypeOK, NEW c \in Peer, HandleRegister(c)
  PROVE  \E k \in Continuation, n \in {told} \cup {Tell(told, srv', c, h) : h \in Peer} :
           WriteTo(c, c, srv', k, n)
<1> DEFINE Written == \E k \in Continuation,
                         n \in {told} \cup {Tell(told, srv', c, h) : h \in Peer} :
                        WriteTo(c, c, srv', k, n)
<1>1. Done \in Continuation /\ List \in Continuation
  BY DEF Done, List, Continuation
<1>2. ASSUME NEW st, WriteTo(c, c, st, Done, told) \/ WriteTo(c, c, st, List, told)
      PROVE  Written
  <2>1. srv' = st
    BY <1>2 DEF WriteTo
  <2> QED BY <1>1, <1>2, <2>1
<1>3. ASSUME NEW st \in State, NEW s, st.sessions[s] \in st.peers, JoinSession(st, c, s)
      PROVE  Written
  <2> DEFINE h == st.sessions[s]
             paired == Pair(DropStalePaired(st, h), c, h, s)
  <2>1. h \in Peer
    BY <1>3 DEF State
  <2>2. \/ WriteTo(c, c, st, Done, told)
        \/ WriteTo(c, c, paired, Guest(h), Tell(told, paired, c, h))
    BY <1>3 DEF JoinSession
  <2> HIDE DEF paired, h
  <2>3. CASE WriteTo(c, c, st, Done, told)
    BY <1>2, <2>3
  <2>4. CASE WriteTo(c, c, paired, Guest(h), Tell(told, paired, c, h))
    <3>1. srv' = paired
      BY <2>4 DEF WriteTo
    <3>2. Guest(h) \in Continuation
      BY <2>1 DEF Guest, Continuation
    <3> QED BY <2>1, <2>4, <3>1, <3>2
  <2> QED BY <2>2, <2>3, <2>4
<1> PICK r \in Requests : \/ RegisterLookup(c, r)
                         \/ RegisterLegacy(c, r)
                         \/ RegisterJoin(c, r)
                         \/ RegisterHost(c, r)
  BY DEF HandleRegister
<1> DEFINE st == RegisterDevice(srv, c, r.device_id)
<1>4. st \in State /\ st.sessions = srv.sessions /\ st.peers = srv.peers
  <2>1. st \in State
    BY RegisterDeviceType DEF TypeOK
  <2> QED BY <2>1 DEF RegisterDevice, TypeOK, State
<1> HIDE DEF Written
<1>5. ASSUME RegisterLookup(c, r) PROVE Written
  <2> DEFINE s == LookupSession(st, c, r.lookup_device)
  <2>1. \/ WriteTo(c, c, st, Done, told)
        \/ s # None /\ JoinSession(st, c, s)
    BY <1>5 DEF RegisterLookup
  <2>2. s # None => st.sessions[s] \in st.peers
    BY DEF LookupSession
  <2> HIDE DEF s, st
  <2> QED BY <1>2, <1>3, <1>4, <2>1, <2>2
<1>6. ASSUME RegisterLegacy(c, r) PROVE Written
  BY <1>2, <1>6 DEF RegisterLegacy
<1>7. ASSUME RegisterJoin(c, r) PROVE Written
  <2> DEFINE s == r.session_id
  <2>1. \/ WriteTo(c, c, TakeOver(st, c, s), Done, told)
        \/ st.sessions[s] \in st.peers /\ JoinSession(st, c, s)
    BY <1>4, <1>7 DEF RegisterJoin
  <2> HIDE DEF s, st
  <2> QED BY <1>2, <1>3, <1>4, <2>1
<1>8. ASSUME RegisterHost(c, r) PROVE Written
  BY <1>2, <1>8 DEF RegisterHost
<1>9. Written
  BY <1>5, <1>6, <1>7, <1>8
<1> QED BY <1>9 DEF Written

LEMMA RegisterCurrent ==
  ASSUME ~ ReRegister, ListInv, NEW c \in Peer, HandleRegister(c)
  PROVE  ListInv'
<1>1. /\ srv \in State /\ told \in [Peer -> Notice] /\ TypeOK /\ TypeOK'
      /\ srv' \in State
      /\ c \in running \ joined /\ running' = running /\ joined' = joined \cup {c}
  BY HandleRegisterType
     DEF ListInv, TypeOK, HandleRegister, RegisterLookup, RegisterLegacy, RegisterJoin,
         RegisterHost, ReceivesRegister, Receives, Readable
<1>2. PICK d \in DeviceId \cup {None} :
        LET st == RegisterDevice(srv, c, d)
        IN \/ srv' = st
           \/ \E s \in SessionId : srv' = HostSession(st, c, s) \/ srv' = TakeOver(st, c, s)
           \/ \E s \in SessionId : Joined(st, c, s)
  BY RegisterCases DEF ListInv
<1> DEFINE st == RegisterDevice(srv, c, d)
<1>3. st \in State
  BY <1>1, RegisterDeviceType
<1>4. /\ st.peers = srv.peers /\ st.link = srv.link /\ st.relist = srv.relist
      /\ \A k \in DeviceId : st.devices[k] \in {srv.devices[k], c}
      /\ Owned(st)
  <2>1. CASE d \notin DeviceId
    BY <2>1 DEF RegisterDevice, ListInv
  <2>2. CASE d \in DeviceId
    <3>1. /\ st.peers = srv.peers /\ st.link = srv.link /\ st.relist = srv.relist
          /\ st.devices = [srv.devices EXCEPT ![d] = c]
          /\ st.device_id = [srv.device_id EXCEPT ![c] = d]
      BY <1>1, <2>2 DEF RegisterDevice, State
    <3> HIDE DEF st
    <3>2. \A k \in DeviceId : srv.devices[k] # c
      BY <1>1 DEF ListInv
    <3>3. Owned(st)
      BY <1>1, <3>1, <3>2, NoneAssumption DEF ListInv, Owned, State
    <3> QED BY <1>1, <3>1, <3>3 DEF State
  <2> QED BY <2>1, <2>2
<1> HIDE DEF st
<1>5. Current(st, told)
  BY <1>1, <1>4, NoneAssumption, StillCurrent DEF Listeners, ListInv
<1>6. Current(srv', told) /\ Sheds(st, srv')
  <2>1. CASE srv' = st
    BY <1>5, <2>1 DEF Sheds
  <2>2. ASSUME NEW s \in SessionId, srv' = HostSession(st, c, s) \/ srv' = TakeOver(st, c, s)
        PROVE  Current(srv', told) /\ Sheds(st, srv')
    <3>1. /\ srv'.peers = st.peers /\ srv'.link = st.link
          /\ srv'.relist = st.relist /\ srv'.devices = st.devices
          /\ srv'.device_id = st.device_id
      BY <1>3, <2>2 DEF HostSession, TakeOver, State
    <3> QED BY <1>5, <3>1, StillCurrent DEF Listeners, Sheds
  <2>3. ASSUME NEW s \in SessionId, Joined(st, c, s)
        PROVE  Current(srv', told) /\ Sheds(st, srv')
    <3> DEFINE h == st.sessions[s]
               free == DropStalePaired(st, h)
    <3>1. free \in State /\ Current(free, told) /\ Sheds(st, free)
      BY <1>3, <1>5, DropStalePairedType, DropStalePairedCurrent, DropStalePairedSheds
    <3>2. srv' = Pair(free, c, h, s)
      BY <2>3 DEF Joined
    <3> HIDE DEF free, h
    <3>3. /\ srv'.peers = free.peers /\ srv'.link = free.link
          /\ srv'.relist = free.relist /\ srv'.devices = free.devices
          /\ srv'.device_id = free.device_id
      BY <3>1, <3>2 DEF Pair, State
    <3> QED BY <3>1, <3>3, StillCurrent DEF Listeners, Sheds
  <2> QED BY <1>2, <2>1, <2>2, <2>3 DEF st
<1>7. Owned(srv')
  BY <1>4, <1>6, ShedsOwned
<1>8. ASSUME NEW x \in running' \ joined', NEW k \in DeviceId PROVE srv'.devices[k] # x
  <2>1. x \in running \ joined /\ x # c /\ x # None
    BY <1>1, NoneAssumption DEF TypeOK
  <2>2. srv.devices[k] # x
    BY <2>1 DEF ListInv
  <2> QED BY <1>4, <1>6, <2>1, <2>2 DEF Sheds
<1>9. PICK k \in Continuation, n \in {told} \cup {Tell(told, srv', c, h) : h \in Peer} :
        WriteTo(c, c, srv', k, n)
  BY RegisterWrites DEF ListInv
<1>10. n \in [Peer -> Notice] /\ Current(srv', n)
  BY <1>1, <1>6, TellType, TellCurrent
<1>11. Current(srv', told')
  BY <1>1, <1>7, <1>9, <1>10, WriteToCurrent
<1>12. Owned(srv)' /\ Current(srv, told)'
  BY <1>7, <1>11 DEF Owned, Current, Listeners
<1> QED BY <1>1, <1>8, <1>12 DEF ListInv

\* Every other step.
LEMMA NextLists ==
  ASSUME ~ ReRegister, ListInv, Next
  PROVE  ListInv'
<1>0. /\ srv \in State /\ Owned(srv) /\ told \in [Peer -> Notice] /\ TypeOK
      /\ running \subseteq Peer /\ Current(srv, told)
      /\ \A c \in running \ joined : \A d \in DeviceId : srv.devices[d] # c
  BY DEF ListInv, TypeOK
<1>1. TypeOK' /\ srv' \in State
  <2>1. TypeOK'
    BY <1>0, NextType
  <2> QED BY <2>1 DEF TypeOK
<1> DEFINE Step == /\ Sheds(srv, srv')
                   /\ running' \subseteq running
                   /\ joined \cap running' \subseteq joined'
                   /\ Owned(srv') => Current(srv', told')
<1>2. ASSUME Step PROVE ListInv'
  <2>1. Owned(srv')
    BY <1>0, <1>2, ShedsOwned
  <2>2. \A c \in running' \ joined' : c \in Peer /\ c \in running \ joined
    BY <1>0, <1>2
  <2>3. \A c \in running' \ joined' : \A d \in DeviceId : srv'.devices[d] # c
    BY <1>0, <1>2, <2>2, ShedsOwned
  <2>4. Owned(srv)' /\ Current(srv, told)'
    BY <1>2, <2>1 DEF Owned, Current, Listeners
  <2> QED BY <1>1, <2>3, <2>4 DEF ListInv
<1>3. ASSUME Listeners(srv') \subseteq Listeners(srv), srv'.relist = srv.relist,
             srv'.devices = srv.devices
      PROVE  Current(srv', told)
  BY <1>0, <1>3, StillCurrent
<1>4. ASSUME NEW c \in Peer, Accept(c) PROVE ListInv'
  <2>1. /\ srv'.peers = srv.peers \cup {c}
        /\ srv'.link = [srv.link EXCEPT ![c] = "open"]
        /\ srv'.device_id = [srv.device_id EXCEPT ![c] = None]
        /\ srv'.devices = srv.devices /\ srv'.relist = srv.relist
        /\ told' = [told EXCEPT ![c] = NoNotice]
        /\ running' = running \cup {c} /\ joined' = joined
        /\ \A d \in DeviceId : srv.devices[d] # c
    BY <1>0, <1>4 DEF Accept, Unreferenced, State
  <2>2. Listeners(srv') \subseteq Listeners(srv) \cup {c} /\ Listeners(srv') \subseteq Peer
    BY <1>0, <1>1, <2>1 DEF Listeners, State
  <2>3. told'[c].devices = {} /\ \A p \in Peer \ {c} : told'[p] = told[p]
    BY <1>0, <2>1 DEF NoNotice
  <2>4. Current(srv', told')
    BY <1>0, <2>1, <2>2, <2>3 DEF Current
  <2>5. Owned(srv')
    BY <1>0, <2>1, NoneAssumption DEF Owned, State
  <2>6. Owned(srv)' /\ Current(srv, told)'
    BY <2>4, <2>5 DEF Owned, Current, Listeners
  <2> QED BY <1>0, <1>1, <2>1, <2>6 DEF ListInv
<1>5. ASSUME NEW c \in Peer, HandlerExit(c) PROVE Step
  <2> DEFINE rest == RemovePeer(srv, c)
  <2>1. rest \in State /\ Current(rest, told) /\ Sheds(srv, rest)
    BY <1>0, RemovePeerType, RemovePeerCurrent, RemovePeerSheds
  <2>2. /\ srv' = [rest EXCEPT !.metrics = OnDisconnection(@)] /\ told' = told
        /\ running' = running \ {c} /\ joined' = joined \ {c}
    BY <1>5 DEF HandlerExit
  <2> HIDE DEF rest
  <2>3. /\ srv'.peers = rest.peers /\ srv'.link = rest.link
        /\ srv'.devices = rest.devices /\ srv'.relist = rest.relist
        /\ srv'.device_id = rest.device_id
    BY <2>1, <2>2 DEF State
  <2>4. Current(srv', told)
    BY <2>1, <2>3, StillCurrent DEF Listeners
  <2> QED BY <2>1, <2>2, <2>3, <2>4 DEF Sheds
<1>6. ASSUME NEW c \in Peer, HandleForward(c) \/ HandlePing(c) PROVE Step
  <2>1. Done \in Continuation
    BY DEF Done, Continuation
  <2>2. /\ \/ \E p : WriteTo(c, p, srv, Done, told)
           \/ UNCHANGED <<srv, told>>
        /\ UNCHANGED <<running, joined>>
    BY <1>6 DEF HandleForward, HandlePing, Receives
  <2>3. srv' = srv
    BY <2>2 DEF WriteTo
  <2>4. Current(srv', told')
    BY <1>0, <2>1, <2>2, <2>3, WriteToCurrent
  <2> QED BY <2>2, <2>3, <2>4 DEF Sheds
<1>7. ASSUME NEW p, srv' = srv \/ srv' = SendFailed(srv, p)
      PROVE  Sheds(srv, srv') /\ Current(srv', told)
  BY <1>0, <1>7, SendFailedCurrent, SendFailedSheds DEF Sheds
<1>8. ASSUME NEW c \in Peer, NEW p \in Peer, Resume(c, p) PROVE Step
  <2>1. Sheds(srv, srv') /\ Current(srv', told) /\ UNCHANGED <<running, joined>>
    BY <1>7, <1>8 DEF Resume
  <2>2. \/ told' = told
        \/ Finish(c, srv', cont[c], told)
    BY <1>8 DEF Resume
  <2>3. cont[c] \in Continuation
    BY <1>0 DEF TypeOK
  <2>4. Owned(srv') => Current(srv', told')
    BY <1>0, <1>1, <2>1, <2>2, <2>3, FinishCurrent
  <2> QED BY <2>1, <2>4
<1>9. ASSUME NEW c \in Peer, BgDrained(c) PROVE Step
  BY <1>7, <1>9 DEF BgDrained
<1>10. ASSUME NEW c \in Peer, CleanupRemove(c) \/ DisconnectPeer(c) PROVE Step
  <2>1. srv' = RemovePeer(srv, c) /\ UNCHANGED <<running, joined, told>>
    BY <1>10 DEF CleanupRemove, DisconnectPeer
  <2> QED BY <1>0, <2>1, RemovePeerCurrent, RemovePeerSheds
<1>11. ASSUME NEW c \in Peer, LinkLost(c) PROVE Step
  <2>1. /\ srv'.peers = srv.peers /\ srv'.relist = srv.relist /\ srv'.devices = srv.devices
        /\ srv'.device_id = srv.device_id
        /\ srv'.link = [srv.link EXCEPT ![c] = "lost"]
        /\ UNCHANGED <<running, joined, told>>
    BY <1>0, <1>11 DEF LinkLost, State
  <2>2. Listeners(srv') \subseteq Listeners(srv)
    BY <1>0, <2>1 DEF Listeners, State
  <2> QED BY <1>3, <2>1, <2>2 DEF Sheds
<1>12. ASSUME NEW c \in Peer, StartNotify(c) PROVE Step
  <2>1. /\ srv'.peers = srv.peers /\ srv'.relist = srv.relist /\ srv'.devices = srv.devices
        /\ srv'.link = srv.link /\ srv'.device_id = srv.device_id
        /\ told' = Tell(told, srv, c, None) /\ UNCHANGED <<running, joined>>
    BY <1>0, <1>12 DEF StartNotify, State
  <2>2. Current(srv', told)
    BY <1>3, <2>1 DEF Listeners
  <2>3. Current(srv', told')
    BY <1>0, <1>1, <2>1, <2>2, TellCurrent
  <2> QED BY <2>1, <2>3 DEF Sheds
<1>13. CASE StartRelist
  <2>1. /\ srv'.peers = srv.peers /\ srv'.devices = srv.devices
        /\ srv'.link = srv.link /\ srv'.device_id = srv.device_id
        /\ told' = TellDevices(told, srv) /\ UNCHANGED <<running, joined>>
    BY <1>0, <1>13 DEF StartRelist, State
  <2>2. Listeners(srv') = Listeners(srv)
    BY <2>1 DEF Listeners
  <2>3. Current(srv', told')
    BY <1>0, <2>1, <2>2, TellDevicesCurrent DEF Current
  <2>4. Step
    BY <2>1, <2>3 DEF Sheds
  <2> QED BY <1>2, <2>4
<1>14. CASE Tick \/ CleanupTick
  <2>1. UNCHANGED <<srv, running, joined, told>>
    BY <1>14 DEF Tick, CleanupTick
  <2>2. Step
    BY <1>0, <2>1 DEF Sheds
  <2> QED BY <1>2, <2>2
<1>15. CASE Stop
  <2>1. /\ srv'.peers = {} /\ srv'.device_id = srv.device_id
        /\ srv'.devices = [d \in DeviceId |-> None]
        /\ UNCHANGED <<running, joined, told>>
    BY <1>0, <1>15 DEF Stop, State
  <2>2. Step
    BY <2>1 DEF Current, Listeners, Sheds
  <2> QED BY <1>2, <2>2
<1>16. ASSUME NEW c \in Peer, RegisterUnhashable(c) PROVE Step
  <2>1. /\ srv'.peers = srv.peers \ {c} /\ srv'.relist = srv.relist
        /\ srv'.devices = srv.devices /\ srv'.device_id = srv.device_id
        /\ srv'.link = CloseWriter(srv, c)
        /\ running' = running \ {c} /\ joined' = joined \ {c} /\ told' = told
    BY <1>0, <1>16 DEF RegisterUnhashable, State
  <2>2. Listeners(srv') \subseteq Listeners(srv)
    BY <1>0, <2>1 DEF Listeners, CloseWriter, State
  <2> QED BY <1>3, <2>1, <2>2 DEF Sheds
<1>17. ASSUME NEW c \in Peer, NEW p \in Peer, HandleUnpackable(c, p) PROVE Step
  BY <1>7, <1>17 DEF HandleUnpackable, Receives
<1> HIDE DEF Step
<1> QED
  BY <1>0, <1>2, <1>4, <1>5, <1>6, <1>8, <1>9, <1>10, <1>11, <1>12, <1>13, <1>14, <1>15,
     <1>16, <1>17, RegisterCurrent DEF Next

\* The last list a client has names no device that left, unless a new list is on its
\* way: whoever removed the device's peer, and whatever was written in between, also
\* by handlers that go on after their connection was closed.
THEOREM ListsCorrect == ~ ReRegister => (Spec => []GoneUnlisted)
<1> SUFFICES ASSUME ~ ReRegister PROVE Spec => []GoneUnlisted
  OBVIOUS
<1>1. Init => ListInv
  <2> SUFFICES ASSUME Init PROVE ListInv
    OBVIOUS
  <2>1. TypeOK
    BY InitType
  <2> QED BY <2>1 DEF Init, ListInv, Owned, Current, Listeners
<1>2. ListInv /\ [Next]_vars => ListInv'
  <2> SUFFICES ASSUME ListInv, [Next]_vars PROVE ListInv'
    OBVIOUS
  <2>1. CASE UNCHANGED vars
    <3>1. UNCHANGED <<srv, running, joined, told>> /\ TypeOK'
      BY <2>1, NextType DEF vars, ListInv, TypeOK
    <3> QED BY <3>1 DEF ListInv, Owned, Current, Listeners
  <2> QED BY <2>1, NextLists
<1>3. ListInv => GoneUnlisted
  <2>1. ASSUME NEW d \in DeviceId, srv.devices[d] # None
        PROVE  \E listed \in GetDevices(srv) : listed.device_id = d
    <3> DEFINE row == [device_id |-> d, session_id |-> srv.session_id[srv.devices[d]],
                       online |-> srv.link[srv.devices[d]] = "open"]
    <3>1. row \in GetDevices(srv)
      BY <2>1 DEF GetDevices, ListedDevices
    <3> QED BY <3>1
  <2> QED BY <2>1 DEF ListInv, Current, GoneUnlisted
<1> QED BY <1>1, <1>2, <1>3, PTL DEF Spec
=============================================================================
