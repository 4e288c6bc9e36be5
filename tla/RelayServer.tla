---------------------------- MODULE RelayServer ----------------------------
(***************************************************************************)
(* The connection and pairing core of the relay, src/relay_server/         *)
(* server.py: connections, REGISTER in all its branches, forwarding, the   *)
(* send path with its failures, removal, the cleanup pass, the DELETE of   *)
(* the web API and stop().                                                 *)
(*                                                                         *)
(* The relay is one asyncio event loop.  A handler gives up control only   *)
(* where it awaits something that is not ready: the next frame, or the     *)
(* drain() of a transport whose peer reads slowly.  An action below is     *)
(* what runs between two such points.                                      *)
(*                                                                         *)
(* A peer of the model is a RelayPeer object together with its peer_id,    *)
(* which is the address of its writer: the id of a connection whose        *)
(* objects are gone may be given to a new one.                             *)
(***************************************************************************)
EXTENDS Integers, FiniteSets, RelayMetrics

CONSTANTS
    Peer,          \* peer ids
    SessionId,     \* session ids
    DeviceId,      \* device ids
    None,          \* an absent value
    Requests,      \* the REGISTER payloads the clients may send
    Slow,          \* the peers whose transport may be paused (backpressure)
    PeerTimeout,   \* config.relay.peer_timeout, in ticks
    ReRegister,    \* may a connection send REGISTER more than once?
    LateFrames,    \* may a frame be read after the writer was closed?
    BadValues      \* may a frame hold a value that the server cannot use?

ASSUME NoneAssumption == None \notin Peer \cup SessionId \cup DeviceId

ASSUME RequestsAssumption ==
    Requests \subseteq [device_id     : DeviceId \cup {None},
                        session_id    : SessionId \cup {None},
                        lookup_device : DeviceId \cup SessionId \cup {None}]

ASSUME BoundsAssumption ==
    /\ PeerTimeout \in Nat
    /\ ReRegister \in BOOLEAN
    /\ Slow \subseteq Peer
    /\ LateFrames \in BOOLEAN
    /\ BadValues \in BOOLEAN

VARIABLES
    srv,      \* tables, RelayPeer objects and tasks not started yet: see State
    age,      \* age[p]: ticks since p.last_activity, counted up to PeerTimeout + 1
    running,  \* the peers whose _handle_client has not returned
    wait,     \* wait[c]: the peers whose drain() the handler of c awaits
    cont,     \* cont[c]: what the handler of c still sends after that
    bg,       \* the peers whose drain() a background task awaits
    sweep,    \* the stale peers the cleanup pass under way has yet to visit
    told,     \* told[p]: the partner and the devices in the last notices written to p
    joined,   \* the peers whose connection has sent a REGISTER
    serving   \* stop() has not been called (no step of the relay asks for it)

vars == <<srv, age, running, wait, cont, bg, sweep, told, joined, serving>>

\* A transport is open, closed by this side (its buffer may still be flushing),
\* or lost (connection_lost with an error).
LinkState == {"none", "open", "closing", "lost"}

\* _peers, _sessions and _devices; the fields of the RelayPeer objects; the
\* tasks that ensure_future scheduled: a 410 per peer of notify, a device list;
\* and the metrics.
State == [peers          : SUBSET Peer,
          sessions       : [SessionId -> Peer \cup {None}],
          devices        : [DeviceId -> Peer \cup {None}],
          session_id     : [Peer -> SessionId \cup {None}],
          device_id      : [Peer -> DeviceId \cup {None}],
          paired_peer_id : [Peer -> Peer \cup {None}],
          link           : [Peer -> LinkState],
          notify         : SUBSET Peer,
          relist         : BOOLEAN,
          metrics        : Metrics]

\* What a client knows of the others from the notices written to it.
Notice == [partner : Peer \cup {None}, devices : SUBSET (DeviceId \cup {None})]

NoNotice == [partner |-> None, devices |-> {}]

\* What a handler does once its drains are over: read the next frame, send the
\* device list, or send PEER_LIST to the host it was just paired with.
Continuation == [op : {"done", "list"}, to : {None}] \cup [op : {"guest"}, to : Peer]

Done == [op |-> "done", to |-> None]
List == [op |-> "list", to |-> None]
Guest(h) == [op |-> "guest", to |-> h]

Init ==
    /\ srv = [peers          |-> {},
              sessions       |-> [s \in SessionId |-> None],
              devices        |-> [d \in DeviceId |-> None],
              session_id     |-> [p \in Peer |-> None],
              device_id      |-> [p \in Peer |-> None],
              paired_peer_id |-> [p \in Peer |-> None],
              link           |-> [p \in Peer |-> "none"],
              notify         |-> {},
              relist         |-> FALSE,
              metrics        |-> NoMetrics]
    /\ age = [p \in Peer |-> 0]
    /\ running = {}
    /\ wait = [p \in Peer |-> {}]
    /\ cont = [p \in Peer |-> Done]
    /\ bg = {}
    /\ sweep = {}
    /\ told = [p \in Peer |-> NoNotice]
    /\ joined = {}
    /\ serving = TRUE

-----------------------------------------------------------------------------
(***************************************************************************)
(* The synchronous methods, as operators from states to states.            *)
(***************************************************************************)

\* A plausible fault of CloseWriter: the writer is left open.
KeepWriter(st, p) == st.link

\* writer.close(), unless the transport is closed already.
CloseWriter(st, p) == [st.link EXCEPT ![p] = IF @ = "open" THEN "closing" ELSE @]

\* A plausible fault of Disown: whose entry it is is not looked at.
DisownAnyway(table, key, p) == [k \in DOMAIN table |-> IF k = key THEN None ELSE table[k]]

\* A plausible fault of Disown: the entry outlives the peer.
DisownNothing(table, key, p) == table

\* A table without the entry at key, if it is (still) the entry of p.
Disown(table, key, p) ==
    [k \in DOMAIN table |-> IF k = key /\ table[k] = p THEN None ELSE table[k]]

\* The connected partner of p: at most one peer.
Partner(st, p) == {q \in st.peers \ {p} : st.paired_peer_id[p] = q}

\* A plausible fault of Unpair: the partner is freed whoever it is paired with.
UnpairAnyway(st, p) ==
    [q \in Peer |-> IF q \in Partner(st, p) THEN None ELSE st.paired_peer_id[q]]

\* The partner of p loses p, if it points back.
Unpair(st, p) ==
    [q \in Peer |-> IF q \in Partner(st, p) /\ st.paired_peer_id[q] = p
                    THEN None ELSE st.paired_peer_id[q]]

\* A plausible fault of WasDevice: no removal is noticed.
NeverDevice(st, p) == FALSE

\* Is the device of p listed as that of p?
WasDevice(st, p) == Disown(st.devices, st.device_id[p], p) # st.devices

\* A plausible fault of RemovalMetrics: whose entries they are is not looked at.
CountOffAnyway(st, p) ==
    [st.metrics EXCEPT !.devices_online = IF st.device_id[p] # None THEN @ - 1 ELSE @,
                       !.active_sessions = IF st.session_id[p] # None THEN @ - 1 ELSE @]

\* The hooks of _remove_peer: for its device and its session, if they are its own.
RemovalMetrics(st, p) ==
    LET m == IF WasDevice(st, p) THEN OnDeviceOffline(st.metrics) ELSE st.metrics
    IN IF Disown(st.sessions, st.session_id[p], p) # st.sessions
       THEN OnSessionClosed(m) ELSE m

\* _remove_peer: pop the peer, close its writer, drop its device and its
\* session, free its partner, and schedule the 410 and the device list.
RemovePeer(st, p) ==
    IF p \notin st.peers THEN st
    ELSE [st EXCEPT
            !.peers = st.peers \ {p},
            !.link = CloseWriter(st, p),
            !.devices = Disown(st.devices, st.device_id[p], p),
            !.paired_peer_id = Unpair(st, p),
            !.notify = st.notify \cup Partner(st, p),
            !.sessions = Disown(st.sessions, st.session_id[p], p),
            !.relist = st.relist \/ WasDevice(st, p),
            !.metrics = RemovalMetrics(st, p)]

\* _force_unpair: p loses its partner, and the partner loses p if it points back.
ForceUnpair(st, p) ==
    [st EXCEPT !.paired_peer_id = [Unpair(st, p) EXCEPT ![p] = None]]

\* The except branches of _send.
SendFailed(st, p) == RemovePeer(ForceUnpair(st, p), p)

\* A plausible fault of DropStalePaired: the host is freed, the peer stays.
FreeHostOnly(st, h) ==
    [st EXCEPT !.paired_peer_id = [@ EXCEPT ![h] = None]]

\* _drop_stale_paired where it answers True: free the host, then remove the
\* peer it was paired with (no one, when it was free).
DropStalePaired(st, h) ==
    RemovePeer([st EXCEPT !.paired_peer_id = [@ EXCEPT ![h] = None]],
               st.paired_peer_id[h])

\* A plausible fault of Refuses: activity is not looked at.
RefusesItself(st, h, c) == st.paired_peer_id[h] = c

\* _drop_stale_paired where it answers False.  The peer c whose frame is being
\* handled was active just now, whatever its age was before.
Refuses(st, h, c) ==
    LET old == st.paired_peer_id[h]
    IN old \in st.peers /\ (old = c \/ age[old] <= PeerTimeout)

\* A plausible fault of Pair: the client stays without the session.
PairOnly(st, c, h, s) ==
    [st EXCEPT !.paired_peer_id = [@ EXCEPT ![c] = h, ![h] = c]]

\* The three assignments that pair client c with host h in session s.
Pair(st, c, h, s) ==
    [st EXCEPT !.session_id = [@ EXCEPT ![c] = s],
               !.paired_peer_id = [@ EXCEPT ![c] = h, ![h] = c]]

\* A plausible fault of HostSession: the session is recorded as its own host.
HostItself(st, c, s) ==
    [st EXCEPT !.session_id = [@ EXCEPT ![c] = s],
               !.sessions = [@ EXCEPT ![s] = s]]

\* c becomes the host of session s.
HostSession(st, c, s) ==
    [st EXCEPT !.session_id = [@ EXCEPT ![c] = s],
               !.sessions = [@ EXCEPT ![s] = c],
               !.metrics = OnSessionCreated(@)]

\* A plausible fault of TakeOver: the session that ends is not counted off.
TakeOverUncounted(st, c, s) == HostSession(st, c, s)

\* c becomes the host of session s, whose host is gone.
TakeOver(st, c, s) ==
    HostSession([st EXCEPT !.metrics = OnSessionClosed(@)], c, s)

\* The device part of a REGISTER.
RegisterDevice(st, c, d) ==
    IF d \notin DeviceId THEN st
    ELSE [st EXCEPT !.device_id = [@ EXCEPT ![c] = d],
                    !.devices = [@ EXCEPT ![d] = c],
                    !.metrics = OnDeviceRegistered(@)]

\* The peer a lookup finds: a registered device, or else the host of a session.
LookupTarget(st, x) ==
    IF x \in DeviceId /\ st.devices[x] # None THEN st.devices[x]
    ELSE IF x \in SessionId /\ st.sessions[x] \in st.peers THEN st.sessions[x]
    ELSE None

\* The session that c's lookup of x joins: the target has one, its writer is not
\* closing, and another connected peer hosts it.  None: the lookup answers 404.
LookupSession(st, c, x) ==
    LET target == LookupTarget(st, x)
        s == st.session_id[target]
    IN IF /\ target \in Peer
          /\ s \in SessionId
          /\ st.link[target] = "open"
          /\ st.sessions[s] \in st.peers \ {c}
       THEN s ELSE None

\* The peers a device list is sent to.
Listeners(st) == {p \in st.peers : st.link[p] = "open"}

\* The device list: the devices of the listed peers whose writer is open.
DeviceList(st) ==
    {st.device_id[st.devices[d]] :
       d \in {e \in DeviceId : st.devices[e] # None /\ st.link[st.devices[e]] = "open"}}

\* Does _send give up control in drain()?  Not while the transport is open and
\* takes the bytes: then the drain returns at once.
Blocks(st, p) == p \in Slow \/ st.link[p] # "open"

\* What the peers were last told, once a notice naming q is written to p: a
\* write to a closed transport is dropped.
Tell(notices, st, p, q) ==
    [notices EXCEPT ![p] = IF st.link[p] = "open" THEN [@ EXCEPT !.partner = q] ELSE @]

\* The same, once _broadcast_device_list has written the device list.
TellDevices(notices, st) ==
    [p \in Peer |-> IF p \in Listeners(st)
                    THEN [notices[p] EXCEPT !.devices = DeviceList(st)]
                    ELSE notices[p]]

-----------------------------------------------------------------------------
(***************************************************************************)
(* Connections.                                                            *)
(***************************************************************************)

\* The cleanup pass awaits nothing between the list of stale peers and the last
\* removal: until then no other task runs.
LoopFree == sweep = {}

\* No task and no table holds the RelayPeer c, so its id is free.
Unreferenced(c) ==
    /\ c \notin running \cup srv.notify \cup bg
    /\ \A q \in Peer : c \notin wait[q] /\ cont[q].to # c
    /\ \A d \in DeviceId : srv.devices[d] # c

\* _handle_client of a connection that the IP rules admit.  stop() does not end this:
\* the handler of a connection that was accepted before, or was in its TLS handshake,
\* starts afterwards.  (How many such there are is left open.)
Accept(c) ==
    /\ LoopFree
    /\ Unreferenced(c)
    /\ srv' = [srv EXCEPT !.peers = @ \cup {c},
                          !.session_id = [@ EXCEPT ![c] = None],
                          !.device_id = [@ EXCEPT ![c] = None],
                          !.paired_peer_id = [@ EXCEPT ![c] = None],
                          !.link = [@ EXCEPT ![c] = "open"],
                          !.metrics = OnConnection(@)]
    /\ age' = [age EXCEPT ![c] = 0]
    /\ running' = running \cup {c}
    /\ told' = [told EXCEPT ![c] = NoNotice]
    /\ UNCHANGED <<wait, cont, bg, sweep, joined, serving>>

\* from_reader raises, or the frame is DISCONNECT, or a value in it makes a handler
\* raise: _peer_loop ends and the finally clause removes the peer.  (End of file, a
\* reset, a malformed frame.)
HandlerExit(c) ==
    /\ LoopFree
    /\ c \in running
    /\ wait[c] = {}
    /\ running' = running \ {c}
    /\ srv' = [RemovePeer(srv, c) EXCEPT !.metrics = OnDisconnection(@)]
    /\ joined' = joined \ {c}
    /\ UNCHANGED <<age, wait, cont, bg, sweep, told, serving>>

\* The transport of p fails: connection_lost with an error.  (One that this side
\* closed already may do all that a lost one may.)
LinkLost(p) ==
    /\ LoopFree
    /\ srv.link[p] = "open"
    /\ srv' = [srv EXCEPT !.link = [@ EXCEPT ![p] = "lost"]]
    /\ UNCHANGED <<age, running, wait, cont, bg, sweep, told, joined, serving>>

\* One tick of the clock, for the peers whose last_activity is still read.
Tick ==
    /\ LoopFree
    /\ \E p \in srv.peers : age[p] <= PeerTimeout
    /\ age' = [p \in Peer |-> IF p \in srv.peers /\ age[p] <= PeerTimeout
                              THEN age[p] + 1 ELSE age[p]]
    /\ UNCHANGED <<srv, running, wait, cont, bg, sweep, told, joined, serving>>

-----------------------------------------------------------------------------
(***************************************************************************)
(* Frames.                                                                 *)
(***************************************************************************)

\* The handler of c may read a frame.  Closing a writer does not empty the reader:
\* frames received before are still returned, unless the transport failed.
Readable(c) ==
    /\ LoopFree
    /\ c \in running
    /\ wait[c] = {}
    /\ srv.link[c] = "open" \/ (LateFrames /\ srv.link[c] = "closing")

\* The handler of c reads a frame.
Receives(c) ==
    /\ Readable(c)
    /\ age' = [age EXCEPT ![c] = 0]
    /\ UNCHANGED <<running, bg, sweep, serving>>

\* The peers that continuation k writes to.
Recipients(st, k) ==
    CASE k.op = "done"  -> {}
      [] k.op = "list"  -> Listeners(st)
      [] k.op = "guest" -> {k.to}

\* The handler of c performs continuation k, its last sends for this frame.  (The
\* sends of a device list are tasks that start one turn of the loop later; here they
\* start at once.)
Finish(c, st, k, notices) ==
    /\ wait' = [wait EXCEPT ![c] = {p \in Recipients(st, k) : Blocks(st, p)}]
    /\ cont' = [cont EXCEPT ![c] = Done]
    /\ told' = CASE k.op = "done"  -> notices
                 [] k.op = "list"  -> TellDevices(notices, st)
                 [] k.op = "guest" -> Tell(notices, st, k.to, c)

\* The handler of c moves the tables to st, writes to p, and then does k: at
\* once, or when the drain of p is over.
WriteTo(c, p, st, k, notices) ==
    /\ srv' = st
    /\ \/ /\ Blocks(st, p)
          /\ wait' = [wait EXCEPT ![c] = {p}]
          /\ cont' = [cont EXCEPT ![c] = k]
          /\ told' = notices
       \/ /\ ~ Blocks(st, p)
          /\ Finish(c, st, k, notices)

\* The handler of c reads REGISTER.
ReceivesRegister(c) ==
    /\ Receives(c)
    /\ ReRegister \/ c \notin joined
    /\ joined' = joined \cup {c}

\* The second half of both ways to join: c is refused with 409 or paired with
\* the host of s, whose partner is dropped first when it is stale or gone.
JoinSession(st, c, s) ==
    LET h == st.sessions[s]
        paired == Pair(DropStalePaired(st, h), c, h, s)
    IN \/ /\ Refuses(st, h, c)
          /\ WriteTo(c, c, st, Done, told)
       \/ /\ ~ Refuses(st, h, c)
          /\ WriteTo(c, c, paired, Guest(h), Tell(told, paired, c, h))

\* REGISTER with lookup_device and no session_id.
RegisterLookup(c, r) ==
    LET st == RegisterDevice(srv, c, r.device_id)
        s == LookupSession(st, c, r.lookup_device)
    IN /\ r.lookup_device # None /\ r.session_id = None
       /\ ReceivesRegister(c)
       /\ \/ /\ s = None
             /\ WriteTo(c, c, st, Done, told)
          \/ /\ s # None
             /\ JoinSession(st, c, s)

\* REGISTER with neither: the session id is generated.  Nothing keeps it from
\* being an id in use.
RegisterLegacy(c, r) ==
    /\ r.lookup_device = None /\ r.session_id = None
    /\ ReceivesRegister(c)
    /\ \E s \in SessionId :
         WriteTo(c, c, HostSession(RegisterDevice(srv, c, r.device_id), c, s), List, told)

\* REGISTER with the id of a known session: join it, or take it over when its
\* host is no longer connected.
RegisterJoin(c, r) ==
    LET st == RegisterDevice(srv, c, r.device_id)
        s == r.session_id
    IN /\ s # None
       /\ srv.sessions[s] # None
       /\ ReceivesRegister(c)
       /\ \/ /\ srv.sessions[s] \notin srv.peers
             /\ WriteTo(c, c, TakeOver(st, c, s), Done, told)
          \/ /\ srv.sessions[s] \in srv.peers
             /\ JoinSession(st, c, s)

\* REGISTER with the id of no session: c hosts it.
RegisterHost(c, r) ==
    LET s == r.session_id
    IN /\ s # None
       /\ srv.sessions[s] = None
       /\ ReceivesRegister(c)
       /\ WriteTo(c, c, HostSession(RegisterDevice(srv, c, r.device_id), c, s), List, told)

HandleRegister(c) ==
    \E r \in Requests :
      \/ RegisterLookup(c, r)
      \/ RegisterLegacy(c, r)
      \/ RegisterJoin(c, r)
      \/ RegisterHost(c, r)

\* RELAY_ROUTE, AUTH_* and every other frame: written to the partner, if c has
\* one and it is connected.
HandleForward(c) ==
    LET target == srv.paired_peer_id[c]
    IN /\ Receives(c)
       /\ \/ /\ target \in srv.peers
             /\ WriteTo(c, target, srv, Done, told)
          \/ /\ target \notin srv.peers
             /\ UNCHANGED <<srv, wait, cont, told>>
       /\ UNCHANGED joined

HandlePing(c) ==
    /\ Receives(c)
    /\ WriteTo(c, c, srv, Done, told)
    /\ UNCHANGED joined

-----------------------------------------------------------------------------
(***************************************************************************)
(* Frames with a value that the server cannot use.  Of these two kinds are *)
(* told from a malformed frame, which just ends the handler: a device_id   *)
(* that cannot be a key of a dictionary, and a payload that can be unpacked*)
(* but not be packed again (nested too deep).  Other ids and the names in a*)
(* REGISTER are texts, or absent.                                          *)
(***************************************************************************)

\* REGISTER with such a device_id: the assignment to _devices raises, and when the
\* finally clause looks that id up _remove_peer raises as well, after it has popped
\* the peer and closed the writer.  So the partner is neither freed nor told, no
\* entry of c is deleted, and the connection is not counted off.
RegisterUnhashable(c) ==
    /\ BadValues
    /\ Readable(c)
    /\ c \in srv.peers
    /\ ReRegister \/ c \notin joined
    /\ srv' = [srv EXCEPT !.peers = @ \ {c}, !.link = CloseWriter(srv, c)]
    /\ running' = running \ {c}
    /\ joined' = joined \ {c}
    /\ UNCHANGED <<age, wait, cont, bg, sweep, told, serving>>

\* The frame of c that p is to get, the partner of c or for a PING c itself, cannot
\* be packed: encode raises in _send, which removes p whatever its transport does.
HandleUnpackable(c, p) ==
    /\ BadValues
    /\ p = c \/ (p = srv.paired_peer_id[c] /\ p \in srv.peers)
    /\ Receives(c)
    /\ srv' = SendFailed(srv, p)
    /\ UNCHANGED <<wait, cont, told, joined>>

-----------------------------------------------------------------------------
(***************************************************************************)
(* Drains.                                                                 *)
(***************************************************************************)

\* The drain of p, as _send sees it.  A lost transport raises; one that is
\* closing raises once it is closed.
Drained(p, st) ==
    \/ srv.link[p] \in {"open", "closing"} /\ st = srv
    \/ srv.link[p] \in {"closing", "lost"} /\ st = SendFailed(srv, p)

\* A plausible fault of Resume: a send that fails is tried again, for ever.
ResumeRetrying(c, p) ==
    /\ LoopFree
    /\ p \in wait[c]
    /\ srv' = srv
    /\ wait' = [wait EXCEPT ![c] = IF srv.link[p] = "lost" THEN @ ELSE @ \ {p}]
    /\ UNCHANGED <<age, running, cont, bg, sweep, told, joined, serving>>

\* The handler of c resumes after a drain of p and, when it was the last one it
\* awaited, goes on to its next send.
Resume(c, p) ==
    /\ LoopFree
    /\ p \in wait[c]
    /\ srv' \in {srv, SendFailed(srv, p)}
    /\ Drained(p, srv')
    /\ LET rest == wait[c] \ {p} IN
         \/ /\ rest # {}
            /\ wait' = [wait EXCEPT ![c] = rest]
            /\ UNCHANGED <<cont, told>>
         \/ /\ rest = {}
            /\ Finish(c, srv', cont[c], told)
    /\ UNCHANGED <<age, running, bg, sweep, joined, serving>>

\* A 410 task starts: it writes "Peer disconnected" to p.
StartNotify(p) ==
    /\ LoopFree
    /\ p \in srv.notify
    /\ srv' = [srv EXCEPT !.notify = @ \ {p}]
    /\ bg' = IF Blocks(srv, p) THEN bg \cup {p} ELSE bg
    /\ told' = Tell(told, srv, p, None)
    /\ UNCHANGED <<age, running, wait, cont, sweep, joined, serving>>

\* A device list task starts.
StartRelist ==
    /\ LoopFree
    /\ srv.relist
    /\ srv' = [srv EXCEPT !.relist = FALSE]
    /\ bg' = bg \cup {p \in Listeners(srv) : Blocks(srv, p)}
    /\ told' = TellDevices(told, srv)
    /\ UNCHANGED <<age, running, wait, cont, sweep, joined, serving>>

\* A background task resumes after a drain of p.
BgDrained(p) ==
    /\ LoopFree
    /\ p \in bg
    /\ srv' \in {srv, SendFailed(srv, p)}
    /\ Drained(p, srv')
    /\ bg' = bg \ {p}
    /\ UNCHANGED <<age, running, wait, cont, sweep, told, joined, serving>>

-----------------------------------------------------------------------------
(***************************************************************************)
(* The cleanup pass, the web API and stop().                               *)
(***************************************************************************)

\* A plausible fault of CleanupTick: a peer that is paired counts as alive.
CleanupSparesPaired ==
    LET stale == {p \in srv.peers : age[p] > PeerTimeout /\ srv.paired_peer_id[p] = None}
    IN /\ LoopFree
       /\ stale # {}
       /\ sweep' = stale
       /\ UNCHANGED <<srv, age, running, wait, cont, bg, told, joined, serving>>

\* _cleanup_loop wakes and lists the stale peers.  It removes them one by
\* one, before any other task runs.
CleanupTick ==
    LET stale == {p \in srv.peers : age[p] > PeerTimeout}
    IN /\ LoopFree
       /\ stale # {}
       /\ sweep' = stale
       /\ UNCHANGED <<srv, age, running, wait, cont, bg, told, joined, serving>>

CleanupRemove(p) ==
    /\ p \in sweep
    /\ sweep' = sweep \ {p}
    /\ srv' = RemovePeer(srv, p)
    /\ UNCHANGED <<age, running, wait, cont, bg, told, joined, serving>>

\* DELETE /peers/{peer_id}: close the writer and remove the peer.
DisconnectPeer(p) ==
    /\ LoopFree
    /\ p \in srv.peers
    /\ srv' = RemovePeer(srv, p)
    /\ UNCHANGED <<age, running, wait, cont, bg, sweep, told, joined, serving>>

\* A plausible fault of Stop: the tables are cleared before the writers are closed.
StopClearsFirst ==
    /\ LoopFree
    /\ serving' = FALSE
    /\ srv' = [srv EXCEPT !.peers = {},
                          !.sessions = [s \in SessionId |-> None],
                          !.devices = [d \in DeviceId |-> None]]
    /\ UNCHANGED <<age, running, wait, cont, bg, sweep, told, joined>>

\* stop(): close every writer, clear the tables, stop listening.  Handlers, tasks and
\* the cleanup loop go on.
Stop ==
    /\ LoopFree
    /\ serving' = FALSE
    /\ srv' = [srv EXCEPT
                 !.peers = {},
                 !.sessions = [s \in SessionId |-> None],
                 !.devices = [d \in DeviceId |-> None],
                 !.link = [p \in Peer |-> IF p \in srv.peers /\ srv.link[p] = "open"
                                          THEN "closing" ELSE srv.link[p]]]
    /\ UNCHANGED <<age, running, wait, cont, bg, sweep, told, joined>>

-----------------------------------------------------------------------------
Next ==
    \/ \E c \in Peer :
         \/ Accept(c)
         \/ HandlerExit(c)
         \/ LinkLost(c)
         \/ HandleRegister(c)
         \/ HandleForward(c)
         \/ HandlePing(c)
         \/ RegisterUnhashable(c)
         \/ \E p \in Peer : HandleUnpackable(c, p)
         \/ \E p \in Peer : Resume(c, p)
         \/ StartNotify(c)
         \/ BgDrained(c)
         \/ CleanupRemove(c)
         \/ DisconnectPeer(c)
    \/ StartRelist
    \/ Tick
    \/ CleanupTick
    \/ Stop

Spec == Init /\ [][Next]_vars

-----------------------------------------------------------------------------
(***************************************************************************)
(* Properties.                                                             *)
(***************************************************************************)

\* Every variable has its type.
TypeOK ==
    /\ srv \in State
    /\ age \in [Peer -> 0..(PeerTimeout + 1)]
    /\ running \subseteq Peer
    /\ wait \in [Peer -> SUBSET Peer]
    /\ cont \in [Peer -> Continuation]
    /\ bg \subseteq Peer
    /\ sweep \subseteq Peer
    /\ told \in [Peer -> Notice]
    /\ joined \subseteq Peer
    /\ serving \in BOOLEAN

\* A connection that is open and handled is in _peers, and only such a connection
\* or one whose transport failed is: no peer is forwarded to that was closed, and
\* no open connection is out of reach of the cleanup pass.
WriterMatchesTable ==
    /\ srv.peers \subseteq running
    /\ \A p \in srv.peers : srv.link[p] \in {"open", "lost"}
    /\ \A p \in running : srv.link[p] = "open" => p \in srv.peers

\* x and y are connected and paired with each other.
Mutual(st, x, y) ==
    /\ x # y
    /\ {x, y} \subseteq st.peers
    /\ st.paired_peer_id[x] = y
    /\ st.paired_peer_id[y] = x

\* A working pairing is not taken away by anyone else: as long as both ends stay
\* connected it ends only when one of the two registers again.  (Joins of third
\* peers, late removals of former partners, failed sends.)
PairingNotStolen ==
    [][\A x, y \in Peer :
         /\ Mutual(srv, x, y)
         /\ {x, y} \subseteq srv'.peers
         => \/ Mutual(srv', x, y)
            \/ HandleRegister(x)
            \/ HandleRegister(y)]_vars

\* The relay drops a connection whose client did not leave only when it was silent
\* for longer than peer_timeout or its transport failed; or else an operator does,
\* or stop(), or the peer itself or its own partner, with a frame that cannot be
\* packed again.
OnlyDeadRemoved ==
    [][\A p \in srv.peers \ srv'.peers :
         \/ p \notin running'
         \/ age[p] > PeerTimeout
         \/ srv.link[p] # "open"
         \/ DisconnectPeer(p)
         \/ Stop
         \/ \E c \in Peer : HandleUnpackable(c, p)]_vars

\* What a connected peer has registered is its own as long as it is connected: its
\* session passes to another peer only when its id is generated again, its device
\* only by a REGISTER with that device.  Above all the late removal of the former
\* owner of an id leaves it to the new one.
EntriesKept ==
    [][/\ \A s \in SessionId :
            srv.sessions[s] \in srv.peers \cap srv'.peers =>
              \/ srv'.sessions[s] = srv.sessions[s]
              \/ \E c \in Peer, r \in Requests : RegisterLegacy(c, r)
       /\ \A d \in DeviceId :
            srv.devices[d] \in srv.peers \cap srv'.peers =>
              \/ srv'.devices[d] = srv.devices[d]
              \/ HandleRegister(srv'.devices[d])]_vars

\* Every peer with a partner has a connected one that has it: no one is paired
\* with a ghost, so no join is refused on account of one.
PairingSymmetric ==
    \A p \in srv.peers :
      srv.paired_peer_id[p] # None => Mutual(srv, p, srv.paired_peer_id[p])

\* A session that is listed has a connected host that is in that session.
SessionHosted ==
    \A s \in SessionId : srv.sessions[s] # None =>
      /\ srv.sessions[s] \in srv.peers
      /\ srv.session_id[srv.sessions[s]] = s

\* A device that is listed is the device of a connected peer.
DeviceConnected ==
    \A d \in DeviceId : srv.devices[d] # None =>
      /\ srv.devices[d] \in srv.peers
      /\ srv.device_id[srv.devices[d]] = d

\* The relay implements the matching of module Matching: a pairing joins two
\* connected peers that are free, the host possibly by the removal of its stale
\* partner, and ends only when one of the two leaves.
Abstract == INSTANCE Matching WITH
    connected <- srv.peers,
    partner   <- [p \in Peer |-> IF p \in srv.peers THEN srv.paired_peer_id[p] ELSE None]

ImplementsMatching == Abstract!Spec
=============================================================================
