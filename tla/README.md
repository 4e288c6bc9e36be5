# A TLA+ development of opendesk-relay

This directory holds TLA+ specifications of the relay server in `src/`, the TLC
configurations that model-check them, and theorems about them that the TLA+ proof system
checks. Paths are relative to `src/src/relay_server/` unless they start with `src/`;
"the manual" is `src/src/relay_server/README.md`.

## The system

The relay is one Python process with one asyncio event loop. Clients connect over TCP,
send `REGISTER`, are paired two by two, and from then on the relay forwards what one of a
pair sends to the other.

| Component | State | Operations |
|---|---|---|
| Server core, `server.py` | `_peers` (id to `RelayPeer`), `_sessions` (session id to host id), `_devices` (device id to peer); per peer its writer, `session_id`, `device_id`, `paired_peer_id`, `last_activity` | `_handle_client`, `_handle_message`, `_handle_register` (device, lookup, legacy, join, takeover, new session), `_handle_route` and the AUTH_* forwards, `_send` and its failures, `_drop_stale_paired`, `_force_unpair`, `_remove_peer`, `_broadcast_device_list`, `_cleanup_loop`, `start`, `stop` |
| Web API, `web/api.py`, `web/app.py` | none of its own | `DELETE /peers/{id}` changes the core's tables; the rest reads them; `_check_auth` |
| Authentication, `auth.py` | credentials and tokens with a JSON file; pending sessions in memory; IP lists | set/remove/authenticate, add/remove/verify token, create/verify/remove session, `cleanup_expired`, `_load`, `_save` |
| Configuration, `config.py` and `__main__.py` | `Config` | defaults, file, environment, command line options |
| Wire protocol, `protocol.py` | of a frame being read: `header_data`, `body_buf`, `bytes_read` | `encode`, `decode`, `write`, `from_reader` |
| Metrics, `monitoring/metrics.py` | counters and gauges | one hook per event, `gather_health` |
| Dashboard, deployment files | none | polls the API; scripts |

How they interact. Every connection has a task that runs `_handle_client`; the cleanup
loop and the web server are further tasks; `_remove_peer` starts tasks with
`ensure_future` (the 410 to the partner, the device list). They share the tables of the
core without locks, and are right only because a task gives up control at an `await` that
is not ready and nowhere else. The core calls `is_ip_allowed` and `cleanup_expired` of the
authentication manager and the hooks of the metrics; the API calls `_remove_peer`.

What is hard, and what correctness means:

* Core: handlers go on after a `drain()` with tables that others changed meanwhile; the
  same peer is removed by its own handler, by a failed send, by the cleanup pass, by a
  join that frees its host, by the API, in any order; partners change while a former
  partner is still to be removed; notices are written by later tasks. Correct: pairings
  are mutual and among connected peers, they end only by a departure (or a new REGISTER
  of one of the two), sessions and devices belong to connected peers and stay with them,
  only silent or failed connections are dropped, the tables and the open connections agree.
* Authentication: a crash in or between the saves, expiry against use. Correct: what was
  revoked stays revoked, one-time sessions open once, nothing else is lost.
* Wire protocol: a frame arrives in any pieces, the stream ends or fails at any byte, the
  length is the client's word. Correct: the messages of one stream are handled as a
  first-in first-out channel would deliver them, within a bounded buffer.
* Web API and metrics: one fact is kept in several places (three tables, the numbers
  beside them, the lists the clients were sent). Correct: the answers agree with each
  other; who was refused once is refused after a restart.
* Configuration: layers given for some settings of a section. Correct: the documented
  cascade.

The full list of the hazards, each at its line and with the properties that watch it, is
in `PROJECT.json`.

## Modules

| Module | Contents |
|---|---|
| `RelayServer` | the core and the `DELETE` of the API: state, one action per step, properties that hold, the refinement mapping to `Matching` |
| `Matching` | abstract specification: connected peers and a matching among them |
| `RelayMetrics` | the hooks and `gather_health` of the metrics, which `RelayServer` calls |
| `RelayApi` | the answers of the API over the tables and the metrics, and what they must agree on |
| `RelayLiveness` | the core under fairness: who is dropped, held up, ended |
| `RelayClaims` | what the manual promises and the core does not keep |
| `MCRelayServer` | request sets, symmetry and the views for TLC |
| `RelayServer_proofs`, `RelaySteps_proofs` | theorems about the states and about the steps of `RelayServer` |
| `RelayMatching_proofs` | `RelayServer` implements `Matching` |
| `RelayApi_proofs` | theorems about the metrics, the answers of the API and the lists of the clients |
| `RelayProtocol`, `MCRelayProtocol` | the format of a frame and the reader of a stream; messages and bodies for TLC |
| `Channel` | abstract specification: a channel of messages |
| `RelayProtocol_proofs` | theorems about the format and the reader |
| `RelayChannel_proofs` | `RelayProtocol` implements the safety of `Channel` |
| `RelayAuth`, `MCRelayAuth` | credentials, tokens, their file, pending sessions |
| `RelayAccess` | the address lists, and `_check_auth` over the state of `RelayAuth` |
| `RelayAuth_proofs` | theorems about `RelayAuth` and `RelayAccess` |
| `RelayConfig`, `MCRelayConfig` | the configuration cascade and the command line |
| `RelayConfig_proofs` | theorem about `RelayConfig` |

How they are composed: `RelayServer` extends `RelayMetrics` (every hook is called where the
code calls it), `RelayApi` and `RelayLiveness` extend `RelayServer`, `RelayAccess` extends
`RelayAuth`. `RelayServer` and `RelayProtocol` meet in a frame: what the second returns
from a stream is what the first handles, and the end of the second is `HandlerExit` of the
first.

### RelayServer: how state and actions correspond to the code

A peer of the model is a `RelayPeer` object together with its id. The id is the address
of the writer (`server.py:186`), so `Accept` may give the id of a dead object to a new
connection as soon as no task and no table refers to the object (`Unreferenced`).

`srv` is the record of the tables, the fields of the peers, the state of the transports
and the tasks scheduled but not started (`notify`: a 410 per peer, `relist`: a device
list). The synchronous methods `_remove_peer`, `_force_unpair`, `_drop_stale_paired` are
operators on this record, so that a handler that calls several of them is one action.

An action is what runs between two points where the loop can switch tasks. `_send` is
such a point only when `drain()` has to wait: an open transport that takes the bytes
returns at once. The constant `Slow` names the peers whose transport may be paused; the
handler of `c` then waits in `wait[c]`, with what it still has to send in `cont[c]`, and
`Resume(c, p)` continues it. A drain of a lost transport raises, one of a closing
transport may raise or return, and raising runs the except branches of `_send`
(`SendFailed`). Background tasks wait in `bg`.

| Action | Code |
|---|---|
| `Accept`, `HandlerExit` | `_handle_client` until the first read; its `finally` |
| `RegisterLookup/Legacy/Join/Host`, `JoinSession` | the branches of `_handle_register` |
| `HandleForward` | `_handle_route`, the AUTH_* branches, the default branch |
| `HandlePing` | PING; DISCONNECT is `HandlerExit` |
| `RegisterUnhashable` | a REGISTER whose `device_id` cannot be a key: `server.py:376` raises, and in the `finally` clause so does `server.py:667` |
| `HandleUnpackable` | a frame whose payload unpacks but does not pack: `encode` raises in `_send`, on an open transport (`server.py:606`, `621`) |
| `Resume`, `BgDrained`, `StartNotify`, `StartRelist` | the end of a drain; the tasks of `_remove_peer` |
| `CleanupTick`, `CleanupRemove` | a pass of `_cleanup_loop`; nothing else runs until it is over (`LoopFree`); its order is left open |
| `DisconnectPeer`, `Stop` | `web/api.py:198`; `stop()` |
| `LinkLost`, `Tick` | the network and the clock |

Abstractions. A frame is the branch it takes, with its ids; contents, names and logging
are left out. `last_activity` is an age, counted to `PeerTimeout + 1`. A broadcast writes
to all its recipients in the step that takes the list, although `gather` starts its sends
one turn of the loop later; a peer that goes in that turn is covered by the outcomes of
the drain of a closing transport. Two 410 tasks for one peer count as one. A transport
that this side closed is not lost afterwards, as its drain may raise anyway. The tasks of
`_remove_peer` may be delayed past the steps of other tasks that are ready. `told` (the
partner and the devices that the last notices to a peer named) is history: no action reads
it. Of the metrics only the three numbers that go down as well as up are kept.

Nothing in the core asks whether `stop()` has run. So `Accept` goes on afterwards: the
handler of a connection that was accepted before, or was in its TLS handshake, starts
later. How many there are is left open, and `stop()` may be called again. `serving` is
history but for the answers of the API, which are compared until `stop()` (it empties the
tables and leaves the metrics alone).

Three constants bound what clients do. `ReRegister`: may a connection send REGISTER more
than once? `LateFrames`: may a handler read frames that were buffered before its
connection was closed by someone else? `BadValues`: may a frame hold a value that the
server cannot use? Clients as the manual describes them do the first and the third never,
and the second happens in a short window only; the properties of pairings and tables that
depend on the first two are stated for `~ReRegister` and `~LateFrames` (called well behaved
below), the others without. No property depends on the third. Two kinds of unusable
values are told from a malformed frame, because they do more than end the handler: an
unhashable `device_id`, after which `_remove_peer` stops half-way and the connection is
not counted off; and a payload that cannot be packed again, which drops the peer it is sent
to. A value that does no more than raise (an unhashable `session_id`) is `HandlerExit`, after
the REGISTER of the device if there was one. Left out are a number as `device_id` and a
`device_name` that cannot be packed: the ids and names of a REGISTER are texts or absent.

### RelayProtocol

One stream in one direction. `WriteFrame` appends the bytes of a frame in one piece, as
`Message.write` does, whatever task calls it; `Frame` also holds what `encode` would not
write: bodies that are no message, and a length above the limit. `Arrive` moves any number
of them to the `StreamReader`; `LinkEnds` is its end or its failure, at any byte. `Read` is
one call of `reader.read` in `from_reader`, with all that follows it: the length, the limit,
the loops, `decode`, and `_peer_loop`, which calls `from_reader` again or ends. asyncio
returns buffered bytes before the end of the stream (`ReadFails` waits for `pos = arrived`),
but raises at once when the transport failed. MessagePack is the table `Unpack`. `Base` is
the number of values of a byte: the format is that of the code for every `Base`, so that
TLC can count small lengths in four digits.

`Channel` is the same without bytes: messages are received in order and once, and an
orderly end loses none that arrived whole. The mapping counts the complete frames, up to
the first that no reader could handle. What the channel may do (`Channel!Spec`,
`ImplementsChannel`) and what it must do in the end (`Channel!Fairness`,
`DeliversArrived`) are two properties: the first is proved, the second is TLC's.

### RelayAuth, RelayAccess, RelayConfig

`RelayAuth`: a method that changes credentials or tokens is two actions, the change with
the truncation of the file (`Change`) and the end of `write_text` (`SaveDone`); `Crash`
can come between, and `Restart` is the constructor. `returned` is history: what the last
method to return left. The methods are called by operators and tests, and
`cleanup_expired` by the cleanup pass of the server.

`RelayAccess` adds the address lists, which are set when the server is constructed, at
every start of the process, and never again (`ConfigureIpRules`), and `_check_auth` as a
function of a request and of the tokens that `RelayAuth` has at that moment. A network is a
set of addresses; an entry or an address that `ipaddress` refuses is `Malformed`.

`RelayConfig`: `main` as a sequence of steps over layers: file, environment, one step per
option, the merge. A nested dictionary is a function on settings.

## Runs

Deadlock is checked in every run; of the core it says little, for a pass of the cleanup
loop ends and `stop()` can be called in every other state. Whether a handler is stuck is
asked by the liveness properties of `Live`.

| Run | Question | Bounds |
|---|---|---|
| `General` | do tables, open connections and health answers agree, and is only the dead dropped, whatever clients do? | 2 peers, 2 sessions, both slow, repeated REGISTER, late frames, unusable values, timeout of 1 tick |
| `Pairing` | can a third party take a working pairing away? | 3 peers, 1 session, repeated REGISTER |
| `Matches` | are partners mutual and shown in a hosted session, and is the server a matching? | 3 peers, 1 session, 1 device, lookups; well behaved, unusable values |
| `Registry` | do sessions and devices have owners, and do the owners keep them, through pending sends, late removals and `stop()`; do the gauges keep up; are departed devices taken off the clients' lists? | 2 peers, 1 session, 1 device, all kinds of REGISTER, both slow; well behaved, unusable values |
| `Live` | is a silent client dropped and its partner freed; who can hold up a handler; does the handler of a peer that was taken out of the table end? | 2 peers, one of which need not read, 1 session; well behaved, unusable values, under fairness |
| `Protocol` | does the reader deliver what was written, in order and without a byte of the next frame, lose nothing at an orderly end, and leave nothing that arrived unread? | 3 messages, up to 3 frames, 2 values per byte, bodies of up to 2 bytes; every cut, end and failure; under fairness |
| `Auth` | do revocations and one-time sessions survive crashes and expiry, also for the API; do the address lists mean what they name? | 2 users, 2 passwords, 1 token, 2 sessions, 4 ticks; 3 addresses, lists of up to 2 entries |
| `Config` | does the cascade hold? | 3 settings in 2 sections, 2 values, every layer |

Why these bounds are enough for the interesting cases: a pairing has two ends and the
hazards about it need one more peer, the former or the next partner, hence 3; a session
and a device table that go wrong do so with an old and a new owner, hence 2 peers; the
second session is there for what a second REGISTER leaves behind. Peers and sessions are
symmetric: no definition tells them apart. `View` leaves out what no later step can read
(the fields of a peer that left the table, the age of a peer that is not listed);
`GaugeView` and `ListView` add the metrics and the notices that the properties of `General`
and `Registry` read. `Registry` leaves the gauges out of its view, for they would grow
without end: a property of steps is still evaluated on every step TLC generates. `Auth` leaves out the
address lists in the same way: no step reads them, and all of them occur at a restart. `Live`
uses no symmetry, and `ReadView`, which leaves out only what neither a step, nor a fairness
condition, nor a property of that run reads: `told`, `serving` and the metrics.
`PeerTimeout = 0` is a timeout of one tick of silence, enough wherever only the order of timeout and frame matters.

In `Protocol` three frames are one that is being read, one before and one behind it. The
bodies are chosen so that one is the beginning of another and an empty one is no message,
so that a byte too many or too few is always noticed, and the lengths reach the limit
(`MaxSize = 2`) and pass it by one. `Base = 2` and `MaxFrames = 3` are bounds of TLC only.

### Where code and documentation disagree

Each of these runs refutes one property of `RelayClaims`, `RelayAuth` or `RelayConfig`
that a document states; the details are under `findings` in `PROJECT.json`.

| Run | What happens |
|---|---|
| `ClaimSurvivor` | the partner of a peer dropped by a failed send gets no 410 |
| `ClaimDisconnect` | a host gets a 410 after it was paired with a new guest: by a self-healing join, or by a join that comes before the 410 of an ordinary departure is written |
| `ClaimPersistent` | a crash during a save loses all credentials |
| `ClaimOptions` | of `--host` and `--port` only the last given in a section is obeyed |

More disagreements were seen while modelling and have no run:

* a host that registers its own session again is paired with itself: the join branch,
  unlike the lookup branch, does not compare the two (`server.py:519`, manual line 271);
* a host that registers a second session leaves the first behind when it disconnects, for
  only the session named by `session_id` is deleted (`server.py:540`, manual line 292);
* a join can be refused on account of a peer that has moved to another host with a second
  REGISTER (`server.py:351`, manual line 425);
* a generated session id that is in use takes the session from its host (`server.py:469`,
  manual line 448);
* `PEER_LIST` can name a guest that was removed while the reply to it was drained
  (`server.py:529`, manual line 205);
* the device gauge runs ahead of the table, for every REGISTER with a device counts and
  only the removal of a listed one is counted off (`server.py:377` against
  `monitoring/metrics.py:95`, "currently online devices");
* the device list is broadcast after a new session and after a removal, not after a lookup,
  a join or a takeover that registers a device (`server.py:498`), so clients may miss one
  until the next broadcast;
* a connection whose handler starts after `stop()`, because it was accepted before or was
  in its TLS handshake, enters the tables and is closed by nobody (`server.py:169`, against
  "disconnect all peers" at `server.py:149`); and a REGISTER that was buffered when
  `stop()` ran is still handled;
* a `device_id` that cannot be a key of a dictionary makes `_remove_peer` raise after it has
  popped the peer (`server.py:667`): its partner and its session stay behind, if it had any,
  and its connection is counted for ever (`server.py:212` is skipped), against "currently
  active" of the health answer;
* a payload that unpacks but does not pack again drops the peer that it is forwarded to,
  which is alive (`server.py:621`; the manual tells of absent and inactive peers only, from
  line 295 on);
* a `device_name` of that kind would be in every device list from then on, and drop every
  client it is sent to (`server.py:552`);
* `config.admin.api_token` is never given to `RelayAuth`, so that the configured token is
  refused (`web/api.py:52`, against its comment at `web/api.py:40`);
* the limit on the size of a message is a constant (`protocol.py:33`); nothing reads the
  configured one.

The claims about the core are refuted without fairness: each counterexample is a finite
behaviour that ends in a bad state or step.

## Fairness

Safety runs assume none. `FairSpec` of `RelayLiveness` (run `Live`) assumes

* weak fairness of `Tick` and `CleanupTick`: the clock goes on, and the sleep of
  `_cleanup_loop` ends;
* weak fairness of the removals of a pass that has begun: it awaits nothing;
* strong fairness of `HandlerRuns(c)`: the handler of `c` resumes when the drain it awaits
  is over, and ends when its reader is at its end. asyncio runs every ready task in turn;
  the fairness is strong because a cleanup pass keeps the others waiting again and again.
  That a drain is over is assumed only where the code may rely on it (`Drains`): of a
  client that reads (not in `Slow`), or of a transport that failed.

Nothing is assumed of what clients send, of when they leave, or that a connection fails;
and nothing of the background tasks. So `HeldUpOnlyBySlow` is also the limit of what the
code can promise: a client that reads nothing holds up the handler of its partner (which
reads no frame meanwhile, `PING` included, and so may be dropped as silent itself) until
the cleanup pass or its own end closes it.

`FairSpec` of `RelayProtocol` assumes weak fairness of `Read` and `ReadFails`: the handler
runs when its read can return. `Channel` needs it to promise that what arrived whole is
received, or the transport failed.

## Proofs

`RelayServer_proofs` proves, for any number of peers, sessions and devices, any set of
requests and any `Slow`:

* `TypeCorrect`: `TypeOK`. Inductive as it stands; one lemma per operator and per handler.
* `TableCorrect`: `WriterMatchesTable`, in the general environment. With `TypeOK` it is
  inductive: every operator that takes a peer out of `peers` closes its writer
  (`RemovePeerWriter` and the lemmas after it), and only `Accept` opens one.
* `PairingCorrect`, `SessionCorrect`, `DeviceCorrect`: `PairingSymmetric`,
  `SessionHosted`, `DeviceConnected` for well-behaved clients. None is inductive alone:
  a removal deletes the session named by the peer's `session_id` and the partner named by
  its `paired_peer_id`, so both must be known to be the right ones, and a REGISTER is
  harmless only for a peer that has nothing yet. `PairingInv` joins `TypeOK`,
  `WriterMatches`, `Sound` (the three properties on the tables) and `Unused` (a connection
  that has not registered hosts nothing, has no partner and is nobody's).

`RelaySteps_proofs` proves the three action properties on removal, in every environment:

* `PairingKept`: `PairingNotStolen`. One lemma per method that could take a partner away
  (`RemovePeerMutual`, `SendFailedMutual`, `DropStalePairedMutual`): each leaves a mutual
  pair alone unless it removes one of the two.
* `DeadOnly`: `OnlyDeadRemoved`. It needs `Swept`, that the peers a cleanup pass has still
  to remove are all silent for too long: no handler runs between the removals of a pass, so
  the list the pass made is never out of date. The property names the other causes: the
  operator, `stop()`, and a frame that cannot be packed (`HandleUnpackable`); a send that
  fails in any other way fails on a transport that is not open.
* `EntriesCorrect`: `EntriesKept`. `SessionsKept` and `DevicesKept` say it of a step of the
  tables; one lemma per method (`RemovePeerKept`, `SendFailedKept`, `DropStalePairedKept`,
  `RegisterKept`): a removal deletes an entry only if it is that of the removed peer, also
  when the id has a new owner, and a handler that was held up writes no entry again.

`RelayMatching_proofs` proves `MatchingCorrect`: among well-behaved clients every step of
the core is a step of `Matching` or a stutter. `PairingInv` and `WriterMatches` give what
the mapping needs: a registration pairs two peers that are connected and free
(`RegisterCases` lists the outcomes of a REGISTER), and a removal frees exactly the partner
of the peer that leaves, also when a send fails with the pairing cleared first.

`RelayApi_proofs` proves the rest of what the core promises:

* `GaugesCorrect`: `GaugesNotBehind`, in every environment. Each operator on the tables is
  shown to keep, or to raise, the distance between a gauge and its table (`SessionSlack`,
  `DeviceSlack`), with the cardinality theorems of the library. The distance between the
  connections counted and the handlers that run (`HandledSlack`) changes in one action
  only, `RegisterUnhashable`.
* `HealthCorrect`: `HealthAgrees`. `HealthInv` adds that the distance of the sessions is
  zero and that of the connections not below zero: no connection that is handled goes
  uncounted, though one that `RegisterUnhashable` ended is counted. It holds in the behaviours
  where no generated session id was in use (`[][FreshIds]_vars`): a collision is counted
  again and listed once. The ids are drawn from a thousand million, and
  `RegisterLegacy` does not test for one that is in use.
* `PairsCorrect`: `PairHosted`, among well-behaved clients, under the same condition.
  `PairsHosted` says which of two partners hosts, and that both carry the id of its
  session; a takeover or a removal of one of them changes both at once.
* `ListsCorrect`: `GoneUnlisted`, if no connection registers twice; frames may be read
  late. `Current` says of every device in the last list of a connected client that it is
  registered or that a list is due, and it survives because every removal of a device
  schedules one. A list names the `device_id` of the peers in the table
  (`server.py:552`), which a second REGISTER would change under an old entry; `ListInv`
  therefore adds `Owned` (every entry is under the id of its peer) and that a handler that
  has not registered has no device, even when it outlived its connection.

`RelayProtocol_proofs` proves, for any `Base`, limit, table of bodies and frames:

* `RoundTrip`: `Decode(Encode(m)) = m`. `DivMod` and `HeaderValue` show that the four digits
  of a length are bytes and give it back.
* `ProtocolTypeCorrect`, `FramingCorrect`, `BufferCorrect`: the three invariants
  `ProtocolTypeOK`, `InOrder` and `WithinFrame`. `IInv` joins the first two with `Laid` (the
  stream is the concatenation of the frames, `ends` its cuts), `Buffered` (a body is begun
  only behind a whole header that names an admitted length, and is shorter than that) and
  `InStep`: unless the loop has ended, what was read of the current frame begins at the
  end of the last handled one, and `header` and `body` are exactly those bytes. `ShortOf`,
  that `pos` is short of the end of that frame, follows, and with it `WithinFrame`. One lemma
  per step of `Read` follows: the chunk lies in the current frame (`ChunkIs`, `CurrentIs`),
  a complete header is the length of that frame (`HeaderIs`), a complete body is its body
  (`FrameIs`).

`RelayChannel_proofs` proves `ChannelCorrect`, from `IInv`, `Ascending` (the frames end one
behind the other) and `GoesOn` (no DISCONNECT was handled while the loop goes on). The
mapping counts frames, so `PrefixSet` comes first: a set of numbers that has all smaller
ones with each is counted by its last. With it the counts become places in the stream
(`Mapped`): the frames handled are among those that arrived whole, which are among those
that count. `Standing` and `NoMore` say where the reader is among them; `ShortOf` of
`RelayProtocol_proofs` is the reason for the mapped `Close`: the reader always stands short of the end
of a frame that can be handled, so at the end of the stream none of those that arrived is left.

`RelayAuth_proofs` proves `NothingRevived` for any users, passwords and tokens: while the
process is idle, memory, file and `returned` are related by `AuthInv` (the file holds
nothing that `returned` does not). It also proves `AuthTypeOK` and `UsedOnce`: a challenge
that was consumed is never pending again. `RemovedForGood` carries the first over to the
API: `RemovedTokenRefused` follows from `NothingRevived`, whatever else a request holds.
`SessionsKept` is the action property `SessionKept`: of all the methods only the four it
names touch a pending session. `RulesCorrect` proves `RulesMeanTheirNetworks` for lists of
any length. `Matches` is a recursive function on the positions of a list; what it answers
is shown for the least position where it could be wrong (`Least`, `MatchesSome`), which
takes the place of an induction.

`RelayConfig_proofs` proves `CascadeKept` for any settings, sections and options. The
invariant `CascadeInv` says what `config` is at each step and that the overrides hold, for
a setting, its option, or what the lower layers give.

The proofs rest on the named assumptions of the modules and on the conditions stated above
(well-behaved clients, `FreshIds`) only. Every safety property that a
passing run checks is the subject of a theorem. Only model-checked: the four liveness
properties `SilentDropped`, `HeldUpOnlyBySlow`, `HandlersEnd` and `DeliversArrived`, for
the prover has no rule for fairness and `ENABLED`; and of course the refuted claims.

## Not modelled, and the plan

Not modelled: the contents of messages and MessagePack, counters that only grow and the
Prometheus registry, TLS, logging, failing writes of the credentials file, the start-up of
the web server, the dashboard, deployment. The connections the address lists refuse leave
no trace in the core, so that `Accept` stands for those they admit.

Order of work. Done: 1 the core with its claims and the abstract matching; 2 its type and
table theorems; 3 authentication; 4 configuration; 5 liveness of the core; 6 metrics and
the answers of the API; 7 the device lists of the clients; 8 access; 9 the wire protocol
with its theorems; 10 the step properties on removal, proved; 11 the refinements of
`Matching` and of the safety of `Channel`, the metrics, the answers of the API, the pending
sessions and the address lists, proved.
Next: an abstract specification of the credentials and the pending sessions that
`RelayAuth` implements, with its proof; and what still holds of sessions and devices when a
connection registers twice, or the entries a late frame leaves, as properties of their own.
