------------------------------ MODULE RelayApi ------------------------------
(***************************************************************************)
(* The answers of the web API, src/relay_server/web/api.py, as functions of*)
(* the state of the core: GET /status counts the tables, GET /metrics and  *)
(* /health/ready answer by the metrics that the core keeps beside them, and*)
(* the lists are drawn from the tables.  (DELETE /peers is an action of    *)
(* RelayServer.)                                                           *)
(***************************************************************************)
EXTENDS RelayServer

ListedSessions(st) == {s \in SessionId : st.sessions[s] # None}
ListedDevices(st) == {d \in DeviceId : st.devices[d] # None}

\* GET /status.
GetStatus(st) ==
    [connections_active |-> Cardinality(st.peers),
     sessions_active    |-> Cardinality(ListedSessions(st)),
     devices_online     |-> Cardinality(ListedDevices(st))]

\* GET /metrics, which /health/ready gives a part of.
GetMetrics(st) == GatherHealth(st.metrics)

\* GET /peers.
GetPeers(st) ==
    {[peer_id |-> p, device_id |-> st.device_id[p], session_id |-> st.session_id[p],
      paired_with |-> st.paired_peer_id[p]] : p \in st.peers}

\* GET /sessions.
GetSessions(st) ==
    {[session_id |-> s, host_peer_id |-> st.sessions[s],
      host_online |-> st.sessions[s] \in st.peers] : s \in ListedSessions(st)}

\* GET /devices.
GetDevices(st) ==
    {[device_id |-> d, session_id |-> st.session_id[st.devices[d]],
      online |-> st.link[st.devices[d]] = "open"] : d \in ListedDevices(st)}

-----------------------------------------------------------------------------
\* The metrics and the tables tell the same: as long as the relay serves, and ids
\* are not generated twice, the sessions that are counted are those that are
\* listed, through takeovers, second REGISTERs and removals in any order, and the
\* connections that are counted are those whose handler has not ended, among them
\* all that are listed.  (Those that an unhashable id has ended are counted for ever.)
HealthAgrees ==
    serving =>
      /\ GetMetrics(srv).sessions_active = GetStatus(srv).sessions_active
      /\ GetMetrics(srv).connections_active >= Cardinality(running)
      /\ Cardinality(running) >= GetStatus(srv).connections_active

\* The gauges never fall behind the tables: what a step takes off a gauge it takes
\* off the table.  (They may run ahead: a device or a generated session id that is
\* registered again is counted again, but listed once.)  And every connection is
\* counted as long as its handler runs, and no longer, but for one that an unhashable
\* id has ended.
GaugesNotBehind ==
    [][/\ serving' => \A k \in {"sessions_active", "devices_online"} :
            GetMetrics(srv')[k] - GetStatus(srv')[k]
              >= GetMetrics(srv)[k] - GetStatus(srv)[k]
       /\ \/ GetMetrics(srv').connections_active - Cardinality(running')
                = GetMetrics(srv).connections_active - Cardinality(running)
          \/ \E c \in Peer : RegisterUnhashable(c)]_vars

\* GET /peers and GET /sessions agree on the pairs, among clients that register once
\* and choose their session ids: of two peers that are paired each is shown with the
\* other, both in one session, which is listed with one of them as its host.
PairHosted ==
    \A p \in GetPeers(srv) : p.paired_with # None =>
      \E q \in GetPeers(srv) :
        /\ q.peer_id = p.paired_with /\ q.paired_with = p.peer_id
        /\ q.session_id = p.session_id
        /\ \E s \in GetSessions(srv) : /\ s.session_id = p.session_id
                                      /\ s.host_peer_id \in {p.peer_id, q.peer_id}
                                      /\ s.host_online

\* A device that left is taken off the lists of the clients: when the last list
\* written to a connected client names a device that is not registered, a new list
\* is on its way.
GoneUnlisted ==
    \A p \in Listeners(srv) : \A d \in told[p].devices \ {None} :
      srv.relist \/ \E listed \in GetDevices(srv) : listed.device_id = d
=============================================================================
