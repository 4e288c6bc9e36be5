---------------------------- MODULE RelayMetrics ----------------------------
(***************************************************************************)
(* MetricsCollector, src/relay_server/monitoring/metrics.py: the hooks the *)
(* server core calls, as operators on the three numbers that gather_health *)
(* answers by and that go down as well as up.  The counters, which only    *)
(* grow, and the Prometheus twins of the three are left out.               *)
(***************************************************************************)
EXTENDS Integers

Metrics == [active_connections : Int, active_sessions : Int, devices_online : Int]

NoMetrics == [active_connections |-> 0, active_sessions |-> 0, devices_online |-> 0]

OnConnection(m) == [m EXCEPT !.active_connections = @ + 1]

OnDisconnection(m) == [m EXCEPT !.active_connections = @ - 1]

OnSessionCreated(m) == [m EXCEPT !.active_sessions = @ + 1]

OnSessionClosed(m) == [m EXCEPT !.active_sessions = @ - 1]

OnDeviceRegistered(m) == [m EXCEPT !.devices_online = @ + 1]

OnDeviceOffline(m) == [m EXCEPT !.devices_online = @ - 1]

\* gather_health, for GET /metrics of the API and /health/ready.
GatherHealth(m) ==
    [connections_active |-> m.active_connections,
     sessions_active    |-> m.active_sessions,
     devices_online     |-> m.devices_online]
=============================================================================
