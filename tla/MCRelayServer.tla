--------------------------- MODULE MCRelayServer ---------------------------
EXTENDS RelayClaims, RelayLiveness, TLC

CONSTANTS s1, s2, d1

Req(d, s, x) == [device_id |-> d, session_id |-> s, lookup_device |-> x]

\* One session: a host with or without a device, a join, both kinds of lookup,
\* and the legacy REGISTER.
OneSession == {Req(d1, s1, None), Req(None, s1, None), Req(None, None, d1),
               Req(None, None, s1), Req(None, None, None)}

\* What the rest of a behaviour can depend on: the clock, the device and the session
\* of a peer that left the table are not read again, nor is anything of an object
\* that nothing refers to; no step reads told, the metrics or serving, and none reads
\* joined when a connection may register again.
View ==
    LET tabled(f, x) == [p \in Peer |-> IF p \in srv.peers THEN f[p] ELSE x]
        alive(f, x) == [p \in Peer |-> IF Unreferenced(p) THEN x ELSE f[p]]
    IN <<[srv EXCEPT !.device_id = tabled(@, None),
                     !.session_id = tabled(@, None),
                     !.paired_peer_id = alive(@, None),
                     !.link = alive(@, "none"),
                     !.metrics = NoMetrics],
         tabled(age, 0), running, wait, cont, bg, sweep,
         IF ReRegister THEN {} ELSE joined>>

\* With what the properties read of the metrics: the gauge of sessions, and whether
\* that of connections covers the handlers.
GaugeView ==
    <<View, IF serving THEN <<srv.metrics.active_sessions,
                              srv.metrics.active_connections >= Cardinality(running)>>
            ELSE <<>> >>

\* With the devices the clients were told of.
ListView == <<View, serving, [p \in Peer |-> IF p \in srv.peers THEN told[p].devices ELSE {}]>>

\* With all that a step or a fairness condition can read: the rest is history, which
\* grows without end.
ReadView == <<[srv EXCEPT !.metrics = NoMetrics], age, running, wait, cont, bg, sweep, joined>>

\* One session, no device: a host and its guests.
Joins == {Req(None, s1, None)}

\* A host with a device, and guests that look the device up.
Lookups == {Req(d1, s1, None), Req(None, None, d1)}

\* No device: a host, its guests by either way, and the legacy REGISTER.
Sessions == {Req(None, s1, None), Req(None, None, s1), Req(None, None, None)}

\* Two sessions, no device.
TwoSessions == {Req(None, s1, None), Req(None, s2, None)}

Symmetry == Permutations(Peer)
BothSymmetry == Permutations(Peer) \cup Permutations(SessionId)
=============================================================================
