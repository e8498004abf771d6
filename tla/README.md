# Portivox: TLA+ models, checks and proofs

Portivox is a self-hosted tunnel gateway. A *tunnel client* behind a firewall
opens a control WebSocket to a *gateway*; the gateway gives it a subdomain, a
public port or both, and forwards what arrives there over the socket. This
directory models the parts of it whose correctness depends on order: what
happens when a socket closes while the gateway waits for a store, when Redis
answers late, when a port cannot be bound, when a response stops half-way.

Paths below are relative to `src/`; `server.ts` and `registry.ts` are in
`apps/gateway-server/src/`.

## 1. Inventory

### Components

| component | code | state it keeps | operations | module |
|---|---|---|---|---|
| public ports | `server.ts` 1955-1970, 2044-2213 | `usedTcpPorts`, `reservedTcpPorts`, `tcpBindingsBySubdomain`, the servers | bind from the pool, bind a fixed port, release by key | `PublicPorts` |
| control sockets | `server.ts` 2393-3206 | `socketSubdomain`, `socketByTunnelKey`, `ownershipBySubdomain`, redirect and IP-access maps | connect, authenticate, `register_tunnel` (three paths), close | `TunnelSessions` |
| deletion of tunnels | `server.ts` 2215-2260, 3924-4043 | the same maps | DELETE of a live or a reserved tunnel | `TunnelSessions` |
| registry | `registry.ts` | per node: subdomain -> entry; in Redis: one lease per name | assign, heartbeat, sweep, remove, force-close | `LeaseRegistry` |
| HTTP streams | `server.ts` 1280-1340, 2950-3060, 4790-4905, 5008-5243; `client.ts` | waiters, rejecters, timers, streams per socket, chunks, inspector rings | ingress, local request, chunk arrival, timeout, close, clearing the ring | `HttpStreams` |
| TCP relay | `server.ts` 2069-2184, 3061-3097; `client.ts` 490-534 | connections and their records, pauses; the client's connections | open, data, close on either side, flush, pause, resume | `TcpRelay` |
| tunnel client | `apps/tunnel-client/src/client.ts` | socket, `registered`, `stopped`, timers, redirect token | start, stop, connect, register, heartbeat, reconnect | `TunnelClient` |
| published client | `packages/portivox-client/src/` | the same | the same, without liveness check, exit timer and once mode | `PublishedClient`, `PublishedCommands`, `PublishedServices` |
| command line | `apps/tunnel-client/src/index.ts` | `client.json`, `sessions.json` | open, register, wizard, config, logout, list | `CommandLine` |
| persistent services | `apps/tunnel-client/src/service.ts` | `services.json`, units of the operating system | install, uninstall, start, stop, restart; boot, restart by the system | `PersistentServices` |
| API keys, devices | `server.ts` 265-606, 1424-1460, 2393-2464, 4049-4355 | keys and devices in a database, sockets by key and by device | mint, authenticate, revoke, sweep, forget | `ApiKeys` |
| HTTP API, idempotency | `server.ts` 1401-1407, 2367-2391, 3336-4783 | rows of tunnels, keys, users, mappings, devices, usage; saved responses | every endpoint, query by query; save, replay, sweep | `ApiRequests` |
| access links, rate limiter | `server.ts` 1410-1422, 4912-5006; `rate-limit.ts` | allowed addresses, redirect entry, buckets | visit, connect, take, sweep | `PublicDoor` |
| audit log | `server.ts` 654-994, 4455-4511; `scripts/replay-dead-letter-audit.cjs` | database, memory, webhook, dead-letter file | log, post with retries, replay, read by pages | `AuditTrail` |
| life of the process | `server.ts` 1471-1492, 1675-1695, 5247-5300; `index.ts` | `isReady`, `isDraining`, `maintenanceMode`, the registrations at work and the entries that are counted | boot, drain, maintenance, signal, stop | `GatewayLife` |
| web console | `apps/frontend/src/` | the session, the lists on the page, the event stream | boot, login, logout, click, refresh, event, retry | `Console` |
| router, OpenAPI, metrics, wire types, configuration, logging, SDK, deployment | see `PROJECT.json` | none, or counters | | not modelled |

### How they interact

* **Client and gateway** exchange JSON frames over one WebSocket:
  `register_tunnel`, `registered`, `error`, `heartbeat`, `http_request`,
  `http_response` (whole or in chunks), `tcp_open`, `tcp_data`, `tcp_close`,
  `tunnel_revoked`. Frames keep their order.
* **Handlers share maps.** The gateway is one Node process. A handler runs alone
  until it awaits; whatever it read before may be stale afterwards. The close
  handler of a socket is an event of its own, and does not know which handlers
  of the same socket are suspended.
* **The client has a loop of its own**: timers (heartbeat, reconnect, exit), frames, a
  local service it forwards to. Either end of the link goes down first, or neither
  notices.
* **Commands of the client machine share files** (`client.json`, `sessions.json`,
  `services.json`) without a lock, and two editions of the program may be
  installed. The service manager starts what they registered.
* **Consoles** ask the API, and are told by the event stream when to ask again.
* **Gateway nodes share Redis.** Each keeps its own entries and commands one
  connection (ioredis), which resends or rejects what is unanswered when it drops.
* **Stores** (Prisma, or maps in memory) are behind awaits. **The operating
  system** answers `listen()` later, with success or an error.

### What is hard, and what correctness means

| behaviour | correct means | stated as |
|---|---|---|
| two binds overlap in `listen()`; one fails; a port is released meanwhile | one claim per port, no port lost to the books, no server left open that nothing closes | `PortClaimedOnce`, `BooksMatchServers`, `ServersAreFiled`, `ReservationEnds` |
| a socket closes, is evicted or deleted during a registration | no map points at a socket that is something else, no tenant's port carries another's traffic | `RouteConsistent`, `TenantIsolation`, `GoneHoldsNothing`, `AccessTokenAlive` |
| a reconnect replays a redirect token, which is public | the entry stays with its user | `NoRedirectHijack` |
| Redis is slow, drops the connection, or a node dies | a lease ends by its holder or by time; replies reach the claim they belong to; names come free again | `LeaseEndsByItsHolder`, `ClaimInFlight`, `BeatingHoldsLease`, `SilentFreesName` |
| chunks, timers and closes race | the maps agree, responses are whole, every stream ends | `BooksAgree`, `AnswerIsWhole`, `LimitHolds`, `DisconnectSettles`, `StreamEnds` |
| a TCP connection ends at either end, by a frame or with its link; a slow client | both halves end, the books agree, nobody stays paused | `HalvesEndTogether`, `ConnectionBooks`, `PauseEnds`, `ClientWithinLimit` |
| a client is stopped, revoked, refused or cut off at any moment | it tries until it serves, repairs a loss, and is quiet once it ended | `PromiseKept`, `LossRepaired`, `ClientIsRight` |
| a key is revoked while sockets authenticate and a sweep runs | its sockets go, others stay | `RevocationReaches` |
| requests overlap between queries, and are repeated | an answer is true and nobody else's; a retry is no work | `AnswersTrue`, `RetryIsReplayed` |
| database, webhook or process fail while events are logged, replayed and read | a logged event is somewhere; a reader misses none | `EventsKept`, `PagesComplete` |
| a drain begins among registrations; a stop finds consoles open | once the clients have left, the drain completes for good; the process ends | `DrainCompletes`, `StopEnds` (fails) |
| changes are told at once, late or never; lists are answered out of order, across logins and lost events | a console at rest is current, but for what it cannot know | `RestIsCurrent` |
| commands overlap, fail, are killed; the system restarts what it has | what runs is listed | `AliveIsListed`, `UnitsListed`, `RemovedStaysRemoved` (fails) |
| links expire, windows turn over, a tunnel comes back | only who was invited gets in, at the rate allowed | `DoorHolds` |

The line-by-line list, with what no property covers yet, is `hazards` in
`PROJECT.json`.

## 2. Modules

```
PublicPorts <--INSTANCE-- TunnelSessions      LeaseRegistry      HttpStreams      TcpRelay
    ^                         ^                     ^                 ^               ^
MCPublicPorts          MCTunnelSessions      MCLeaseRegistry    MCHttpStreams    MCTcpRelay

TunnelPromise <--INSTANCE-- TunnelClient <-- PublishedClient <-- MCTunnelClient

CommandLine <-- PublishedCommands        PersistentServices <-- PublishedServices
ApiKeys   ApiRequests   AuditTrail   Console   PublicDoor
        all seven  <--INSTANCE--  Services  <-- MCServices

GatewayLife

PublicPorts_proofs   TunnelSessions_proofs   TunnelClient_proofs   HttpStreams_proofs
TcpRelay_proofs      LeaseRegistry_proofs    ApiKeys_proofs        Services_proofs
```

Arrows without a label are EXTENDS. A module `X_proofs` EXTENDS `X` (that of the client
`PublishedClient`) and holds its theorems and their proofs; two of them use the
theorems of another by INSTANCE, `TunnelSessions_proofs` those of the ports and
`Services_proofs` those of the API keys.

An action is what one handler does between two awaits, in one turn of the event
loop. Definitions have the names of the functions and maps they model;
`map` in `PROJECT.json` gives the lines of each. An operator named `...Mutant`
stands before the definition it is a wrong version of: a bug that could be made
there, kept to show which property finds it. It is not part of any specification.

### PublicPorts

State: the two sets of ports and the map of bindings (as the set of its values;
a server carries its key, port and socket), plus the binds suspended in
`listen()` and the servers the operating system has open. `BindPooled` and
`BindFixed` are the synchronous half of a bind: already bound keys never get
there, `allocatable` is the lowest port neither used nor reserved, and the
reservation is made before the await. `ListenSucceeds` and `ListenFails` are the
operating system's answer with the continuation of the await; the former cannot
give a port to two servers, whatever the books say. `Release` is
`releaseTcpTunnelBySubdomain` for some keys (the close handler releases a
tunnel's key and its `dedicated:` key in one turn).

### TunnelSessions

The handlers of every control socket. `stage[s]` says at which await of its
handlers a socket is: `auth` (`resolvePrincipal`), `entitlement`
(`isSubdomainAllowed`), `mapping` (`findByLocalPort`), `claim` (the registry),
`http_bound` (between the two binds of an HTTP tunnel), and five kinds of
`listen_`. The three registration paths are

* *fixed port* - `RegisterFixed`, then `Listening` or `FixedFailed`;
* *port only* - `RegisterPortOnly`, then `Listening` or `PortOnlyFailed`;
* *normal* - `ClaimTcp` / `ClaimHttp` / `ClaimRequested`, then the `listen_`
  stages, each undone in its own way (`TcpFailed`, `HttpFailed`,
  `DedicatedListening`).

`Closed` is the close handler (with the two cases in which it is not attached);
`OfflineLookedUp` is its look-up of the reservation, answered later. `Evict` is
the registry's `forceCloseLocalEntry`. `RemoveSession`, `SessionRemoved` and
`RemoveReserved` are DELETE: which key an id stands for is decided by the
redirect entries, as in the code. `EventTurn` says that when the bind address is
an IP, nothing but handlers resumed in the same turn can run between `listen()`
and its answer; with a host name it can. Between the two binds of an HTTP tunnel
(`http_bound`) nothing else runs in either case. The default, `0.0.0.0`, is an
address, and so is that of the run; the proofs are about both.

`PortsSpec` is a refinement: projected on the port books, `TunnelSessions`
implements `PublicPorts`. TLC checks it on a small gateway, and section 4 proves
it, so that the theorems about the books hold of the whole gateway.

Left out, and why: a second `register_tunnel` on one socket (each socket sends
one; a reconnect is another socket), the registration rate limit, draining and
maintenance (they refuse a connection and leave no trace), allow-lists of IP
addresses, admin deletions (the same actions under another identity). Random
tokens are named by the socket that draws them. The entry an ambiguous id
resolves to is any of those that show it (the code takes the first in insertion
order).

### LeaseRegistry

Per node the local entries and the queue of Redis commands that are unanswered;
in Redis one lease per name, with the time left. A command is sent, executed
(`Execute`, the `SET NX` and the two scripts) and answered (`Answer`) in three
steps. `Resend` is a dropped connection with the commands sent again, executed
or not; `Reject` is `maxRetriesPerRequest` exceeded; `Crash` is a node that dies
with everything it held in memory. These three only after `Outage`: `healthy`
remembers that Redis has always answered within a tick, the condition of
`BeatingHoldsLease`. Time passes in ticks; ages stop counting at `Stale`, beyond
which nothing distinguishes them. `GoSilent` is a half-open connection: no frame
and no close event.

### HttpStreams

The requests of one subdomain. `NotFound`, `Routed`, `BodyTooLarge`, `Rejected`
and `Admitted` are the ingress up to its second await (the first is the
body's); what follows the second await runs in the turn that settles the
promise, so it is in the settling action. `proxyLocalRequest` is the client's:
the local service answers when it likes, and `carrier` is the socket the client
has by then, which may be another. `Chunk` is the reassembly with its limits,
`IdleTimeout` the timer, `LateFrame` a frame for a settled stream, `Closed` the close
handler, `ClearRing` the DELETE of the captured requests. A response is a number
of parts; the client keeps their order, and announces their number or not.
The gateway's body limit is measured in parts.

### TcpRelay

Both ends of the relay in one module, because its hazards are between them. `gw`
and `cl` are a control socket as each end sees it: open, closing (its close event
has not come), closed. `down` and `up` are the frames on their way, `pub` and `local`
the two halves of each connection; "dead" is destroyed with its close event to
come. `Refuse` and `Accept` are the listener's handler, `PublicData` with `Pauses` and
`ResumeTick` the back-pressure, `GatewayFrame` the gateway's handling of a frame,
`ClientFrame` and the `Local` actions the client's. `Flush` is the operating system
that takes what was written. `bufferedAmount` is counted in frames. The usage check
of a new connection is part of `Refuse` and `Accept`.

### TunnelPromise, TunnelClient, PublishedClient

`TunnelPromise` is the abstract client: idle, trying, serving, ended; and the page
(the redirect token) it hands from session to session. `TunnelClient` has the
timers, the socket, the frames and the gateway as far as a client sees it:
`Promise == INSTANCE TunnelPromise WITH ...` reads the phase off `stopped`,
`registered` and the state of the socket, and `PromiseKept` says that every step is
a step of the abstract client or leaves it alone. `cut` is a link that is silently
dead. `verdict` keeps why a client ended; "early" marks a `stop()` that came while the
socket was connecting, which does not stop it (`client.ts:114`): `Late` in the
abstract client is what remains of that.

`PublishedClient` has the handlers of the published copy and a system in which
the configuration says which edition runs. They are held to the same promise.

### ApiKeys

A row of a store, a socket's authentication and a revocation each take several
steps: asked, answered by the store, handled. `StoreAnswers` and `Authenticated`
are the two halves of the await in the connection handler; `FrameArrives` is the
first message, kept or handled. `RevokeKey`, `RowDeleted`, `Answered` are the
DELETE of a key; `SweepLists`, `SweepAsks`, `SweepKey`, `SweepEnds` the sweep, which
takes the list of keys, then the devices, then one key after the other.
`MintKey`, `RegisterDevice` and `ForgetDevice` are the endpoints.

### ApiRequests

A request walks through `Send`, `Refused` / `Replayed` / `Admitted`, the queries of its
handler (one action each: `CreateTunnel`, ...), `Audited`; between any two of them
other requests run. `Saves` is what becomes of the response. `rows` is the store, an
id names the request that made the row. `seen` is what the caller got to see.
`Tick` is time, for saved responses.

### AuditTrail

`Log`, `Stored`, `UserUnknown`, `StoreFails` are `AuditStore.log`; `PostSucceeds`,
`PostFails`, `Backoff`, `DeadLetter` the webhook; `Receives` is the receiver taking an
event whose post may still time out. `ReplayReads` ... `ReplayEnds` are the script,
with the file written back if it compacts. `AuditPage` is a page of `GET /api/audit`.
The gateway has a database here.

### GatewayLife

`Listen`, `WsListens`, `GraceEnds` are `start()`, `SetState` an admin's change of mode,
`Signal` a signal or an uncaught error, and `Stop` takes `stop()` from one await to
the next. `Admits` is what a new socket meets, `TakesUpgrades` whether there is a
server to meet it.

`drainComplete` goes by `registry.count()`, so `entries` is what the registry
counts: a tunnel that is only a port is not among it. `work[s]` is as much of a
registration as the count depends on: `Authenticated`, `Registers`, `Claims`,
`Unclaimed` and `Bound` are its turns. `SocketCloses` leaves a suspended registration
alone, which goes on and adds its entry for a dead socket; `Evict` is the sweep (or a
lost lease) that drops an entry nobody beats for.

### Console

`Clicks`, `Acts`, `Answers`, `Renders`, `Fails` are a request of the page from the
click to the list; `StreamOpens`, `StreamBreaks`, `RetryTimer`, `EventArrives`,
`TimerFires` the event stream with its debounce.

The gateway's handlers differ in when they tell the owner of a change. `Told`: in the
turn of the change (a registration that is in, a close). `Begins` and `Publishes`: after
more awaits (POST and DELETE, by this console or another client; `due` has the
changes whose event is to come). `Silent`: never, or only before the change - the sweep of
the redirect entries, the entry and port that a registration files after its event, a
bind that fails after it, an admin's DELETE of what is another's. The three history
variables say what the page cannot know: `untold` that a change had no event, or came
while the console was off the stream, and no list was answered since; `overtaken` that
answers came in another order.

### CommandLine and PublishedCommands; PersistentServices and PublishedServices

Commands are processes; each reads a file, computes, and writes in steps
(`Truncate` and `Fill` in place, `Prepare` and rename for `sessions.json`), and `Killed`
may come between any two. `lost`, `behind` and `excused` record the names that an
overlapping, failed or killed command is answerable for: the code has no lock and
claims none, and the properties say that nothing *else* loses them. `SystemStep` is the
operating system: it boots, logs the user in, starts units and starts them again.
The `Published` modules add a process of the other edition, step by step.

### PublicDoor

One tunnel that connects, binds, is lost and comes back, the addresses that visit
its link and connect, the limiter in front, the redirect page, and the sweep.
`Connection` is a `take()` with its eviction and the look-up of the address.
Time is in ticks. `recent` is a history: of each address, when the limiter allowed
its last connections, as many as `WithinRate` speaks of, twice the limit.

### Services and MCServices

One system, and one run, for seven parts that share no state: a behaviour is a behaviour of
one of them (`Parts` says of which), chosen at the start by `part`, and the variables of
the others keep their first values. It is a sum of the seven state spaces and not a
product, and what it says of each part is what a run of that part alone would. The constants are those of the
parts, and `ServicesAssumption` is their assumptions; `MCServices.cfg` makes a small
instance of them.

## 3. Runs

| run | property kind | bounds | what it shows |
|---|---|---|---|
| `public_ports` | 3 invariants, 1 liveness | 2 sockets, 3 keys, ports 1..3, pool 1..2 | the books and the servers agree through any overlap of binds, failures, releases |
| `tunnel_sessions` | 7 invariants, 1 refinement | 2 sockets of 2 users, 1 subdomain, 2 ports of which one is also fixed, bind host an address | tenants stay apart, maps agree, no server is left open unfiled, the ports are used as `PublicPorts` says |
| `lease_registry` | 3 invariants, 1 action property | 2 nodes, 1 socket each, 1 name, TTL 2, 1 attempt | leases through outages, resends, crashes |
| `lease_liveness` | liveness | 1 node, 2 sockets, 1 name, TTL 1 | a silent client's name becomes free |
| `http_streams` | 5 invariants, 1 liveness | 2 requests, 2 successive sockets of one user's client, limit 1, responses up to 3 parts, body limit 2, chunk limit 3 | streams settle once, whole, and leave nothing behind, also when the answer comes by the next socket |
| `tcp_relay` | 2 invariants, 2 liveness | 1 control socket, 2 connections of which one talks, client limit 1, pause above 1 frame, resume at 0 | both halves of a connection end, the books agree, pauses end |
| `tunnel_client` | 1 invariant, 1 refinement, 1 liveness | 3 configurations (published, command line, once), 3 connections, silence after 2 ticks, 3 frames of heartbeats | every client keeps `TunnelPromise`, whatever the gateway does |
| `services` | 7 invariants, 2 action properties | 1 key, 1 device, 2 sockets; 2 requests of 3 callers; 2 events, 1 retry, memory of 1, pages of 1; 2 users, 2 changes, 2 requests in flight; 2 processes; 2 services, 2 commands; 2 addresses, 2 tokens, 3 ticks with a window of 2 and a day of 1 | the parts that `Services` sums up, each on its own |
| `gateway_drain` | liveness | 2 sockets, 1 event stream | a node that stays draining and whose clients leave completes its drain, whatever was under way |

Why these bounds are enough for the cases that matter: two sockets are a tunnel
and its successor on the same key or port, the pattern of every hazard of the
registration; two ports are a pool that can be exhausted by the two ports of one
HTTP tunnel; a third port in `public_ports` lets a pool be empty while a fixed
bind still works. One name and two nodes are all that a lease race needs. TTL 2
is the least for which "heard of within the TTL" differs from "heard of now".
A stream limit of 1 is reached by the second request; three parts are the least
with a first, a middle and a last, and with a body limit of 2 a response can be
over it. Two connections with a client limit of one make a refusal and a replacement. Three
connections of a client are a first one, a reconnect, and one after that has failed.
Two requests are a request and its retry, or a check and the step that overtakes
it; two commands and two processes the same for files. A memory of one event and
pages of one are the least that overflow. In three ticks
a window of two and a day of one have an inside, an edge and an outside, so that
invitations run out and the sweep of redirect entries finds some. The two editions are one process or command each.

The bounds that are in the guards are `MaxTries` and `Backlog` (connections and
heartbeats of a client), `Chunks`, `MaxChanges` (of a
user, or of two together) and `MaxAsked` (console), `MaxCommands`,
`MaxTokens` and `MaxTime` (door), `MaxCalls` (heartbeats are sent
while fewer calls are unanswered), `MaxAttempts` (50 in the code) and `Parts`.

`CHECK_DEADLOCK FALSE` stands in the configurations in which a system may stop:
every socket connects once and every request arrives once, and when they are
done nothing more has to happen.

`services` has a symmetry, of the two users of the console: no action and no
property tells one from the other, nothing else in `Services` knows them, and the
run has no liveness property.

### Fairness

* `PublicPorts!FairSpec`: weak fairness of the answer to each `listen()` - the
  operating system always answers. Nothing is assumed of which answer.
* `LeaseRegistry!FairSpec`: time passes, the sweep interval fires, Redis executes
  what it has been sent, `tryClaim` goes on once it is resumed; strong fairness
  for `Answer`, because a connection may drop with the reply on its way any
  number of times, but not every time. No client has to send anything.
* `HttpStreams!FairSpec`: the idle timers fire. No client has to answer.
* `TcpRelay!FairSpec`: each end, if it is not stuck for good, goes on with something:
  an event loop with events handles one. Weak fairness of all steps of the gateway
  together and of the client together; `GatewayStep` and `ClientStep` contain only what
  their loop does by itself (handling a frame or a close event, a timer, a flush). No
  peer has to send, close or answer, and no link has to fail.
* `PublishedClient!FairTwoClients` (and `TunnelClient!FairSpec`): the timers of the
  client fire and a closed socket gives its close event. Nothing is assumed of
  network and gateway, so a cut link stays cut.
* `GatewayLife!FairSpec`: `stop()` goes on when what it awaits has happened, sockets
  that were told to close do, and consoles leave, except those in `StaysOpen`.
* `GatewayLife!ServingSpec`: what a registration awaits is answered, and the sweep of
  the registry, which runs until `stop()`, finds the entry of a closed socket. That
  clients leave is a condition of `DrainCompletes`, not an assumption.

### Where code and text differ

Three runs expect a violation. Each states one sentence of the repository, and TLC
gives the shortest behaviour that contradicts it:

| run | sentence | what happens |
|---|---|---|
| `every_request_answered` | `docs/FEATURES_SECURITY.md:99`, idle timeout and cleanup | a chunk over the limits drops the stream and its timer without an answer |
| `gateway_stop` | `apps/gateway-server/src/index.ts:55`, drain before exiting so orchestrators can restart | `app.close()` waits for the event stream of an open console, and nothing ends it |
| `service_removed` | `apps/tunnel-client/src/index.ts:999`, the client will not reconnect a removed tunnel | the service manager starts it again after five seconds |

`DisconnectSettles` and `StreamEnds` are what does hold in place of the first,
`DrainCompletes` of the second.

The modules state more sentences that do not hold. They are not among the
runs of `PROJECT.json`; each is checked by hand, with the configuration named or by
putting the property into that of its module's run:

| property | sentence | what happens | configuration |
|---|---|---|---|
| `ClosedHoldsNothing` | `server.ts:2226`, the close handler tears down TCP bindings, lease and tokens | it runs while the registration awaits its entitlement (2506) or another answer; the registration then completes for a dead socket, and its port and key are lost. `GoneHoldsNothing` is what holds instead | `SessionsClosedHolds.cfg` |
| `ServersAreFiled` | `server.ts:2226`, the same | the bind host is a name: during `listen()` the socket closes and another binds the same key, and the server recorded first is never closed | `SessionsServers.cfg` |
| `LiveTunnelRevocable` | `server.ts:2642`, a port-only tunnel is visible and revocable | the late close of a deleted tunnel takes away the key of its successor on the same port | `SessionsRevocable.cfg` |
| `DeleteStopsTheClient` | `README.md:121`, deleting tells the client to stop | the reused redirect entry still names the old key | `SessionsDelete.cfg` |
| `OneServerPerName` | `scripts/test-registry-redis.cjs:129`, a second claimant does not get the name | a node whose heartbeats are rejected serves on after its lease expired | `LeaseOneServer.cfg` |
| `RingIsTheOwners` | `server.ts:4802`, captured traffic never leaks across tenants | a request is captured after the close handler emptied the ring | `StreamsRing.cfg` |
| `BytesEndToEnd` | `FEATURES_SECURITY.md:124`, raw bytes end to end | `tcp_close` destroys a public connection with data unwritten | `RelayBytes.cfg` |
| `RecordSaysClosed` | `server.ts:4867`, duration and status of each connection | a connection closed by the client's frame leaves an open record | `RelayRecords.cfg` |
| `HeartbeatIsNotFirst` | `server.ts:2422`, no heartbeat is taken for the first message | one that comes while the registration awaits is answered with an error | that of `tunnel_client` |
| `RevokedKeyIsOut` | `server.ts:4343`, live devices of a revoked key are disconnected | a socket still authenticating is attached after the revocation | that of `services` (`Auth!`) |
| `OnlineIsConnected` | `server.ts:3213`, offline once the last socket closes | a socket that closed during authentication is put in the books afterwards | the same |
| `SweepSparesUsed` | `server.ts:1424`, only keys no device is registered against | a device registers between the list and the revocation | the same |
| `OneActionPerKey` | `docs/SECURITY_SUMMARY.md:24`, no accidental duplicates | two requests in flight both miss the saved response | the same (`Api!`) |
| `MappingPerLocalPort` | `server.ts:4599`, a mapping for the port already exists | both check before either creates | the same |
| `LoggedIsReadable` | `server.ts:715`, the event is never lost | events that fell back to memory are in no page | the same (`Audit!`) |
| `NoLetterLost` | `docs/FEATURES_SECURITY.md:112`, dead letters | a compacting replay cuts off letters written since it read the file | the same |
| `LiveConsole` | `README.md:129`, refresh when tunnels change | changes without an event, or while the stream was down, and answers out of order | the same (`Page!`) |
| `WhitelistedForADay` | `server.ts:4958`, whitelisted for 24 hours | a reconnect of the tunnel makes a new list | the same (`Door!`) |
| `DrainStaysComplete` | `docs/runbooks/operations-runbook.md:10`, wait for the count of tunnels | a registration that awaited when the count was nothing adds its entry | `GatewayDrain.cfg` |

`AliveIsListed`, `UnitsListed` and `ClientIsRight` hold with the excuses that they
name, and each fails without: two commands overwrite each other's list, a killed or
failed command leaves a unit, and a `stop()` while the socket connects does not close it.

Seen while reading, and not stated: `portivox services uninstall <name>` removes all
services (`index.ts:1063`); the usage text says that `stop` holds until the next
boot, and launchd's `KeepAlive` starts the service again; a service "starts on boot"
only after a login on macOS, on Windows, and on Linux without linger.

## 4. Proofs

TLC checks the runs of section 3 on small instances. The eight modules `*_proofs` prove
for every value of the constants each safety property of the passing runs, invariants
and action properties, and both refinements. The theorems are about `Spec`, which every
fair specification of section 3 implies. What is assumed of the constants are the
`...Assumption`s of the modules: types, a limit or capacity that is at least one, and
that `None` is none of the values it stands in for. TLC evaluates each of them in the
runs. `theorems` in `PROJECT.json` lists the results.

Each proof has the same plan. The property is not inductive, so a module states a
stronger invariant, `Inv` where there is one only, one lemma for each action or group
of actions shows that it is kept, and the theorem puts the lemmas together. What the
invariant has to add to the property is the argument why the code is right; that is
what the following says of each.

### Ports and control sockets

`PublicPorts_proofs` proves `TypeOK`, `PortClaimedOnce` and `BooksMatchServers`,
from `PortAssumption`: ports are natural numbers and the pool consists of ports.

Neither of the last two is inductive alone. A bind chooses a port that is not in
the *books*; that it collides with no *server* needs `BooksMatchServers`. In
turn, that `Release` and `ListenFails` may remove a port from a set, without
taking it from another server with the same port, needs `PortClaimedOnce`. And
that a released binding's port belongs to an open server needs
`BindingsAreOpen`, which says so of every binding, and of one per key. The inductive
invariant is their conjunction with `TypeOK`.

`TunnelSessions_proofs` proves every property that the run `tunnel_sessions` checks,
from `SessionAssumption` and `NoneIsNoKey`. `BindHostIsAddress` is left open: but for
`ServersAreFiled` the proofs never use `EventTurn`, so they hold for a host name too.

* *Types and ports.* `TypeOK` is not inductive: a handler resumed by `listen()`
  reads the server it began and the key of its socket. `ListensOK` says that a bind
  in flight is the only one of its socket, that the socket's stage waits for it,
  and that a socket in the HTTP stages has a key. `IInv` is the two together;
  the lemmas of the actions also show that each is a step of `PublicPorts` or leaves it
  alone. Hence `SessionsTypeOK` and the refinement `SessionsUsePorts`; and with
  `PortsInvariant` of the port proofs, `SessionsBooks`.
* *Who a key belongs to.* The invariant is `RInv`. A socket has one name
  (`socketSubdomain`), given once (`NamedOnce`); what names a socket does so under
  that name (`RouteConsistent`, `ServersNamed`, `TokensNamed`); an open socket that
  is being, or has been, registered under a subdomain holds its session
  (`LiveHasSession`); and sessions and synthetic keys with an open socket
  belong to its owner, if to anyone (`SessionsOwned`, `PortsOwned`). It is
  strengthened beyond `TenantIsolation` because the code nowhere checks
  ownership when it overwrites it: `Track` is safe only because the key it
  writes has no open socket behind it. For a subdomain that follows from
  `LiveHasSession`; for a port, from the books (`PortIsFree` uses `SessionsBooks`).
  The actions fall in two kinds, each with a lemma: those that name nothing
  (`NamesNothingStep`) and those that name a socket (`NamingStep`).
* *Redirect entries.* `NoRedirectHijack` needs `TokensOwned`: the token that a
  suspended handler carries was drawn for a socket of its own user. `MayReuse`
  establishes it before the await, and it survives the purge, the sweep and the
  reuse of the entry meanwhile.
* *Servers.* `ServersAreFiled` is proved under `BindHostIsAddress`, without which it is
  false. A second bind of a key would replace the binding of the first (`Map.set`), so
  `FInv` asks that no two binds in flight have one key, and none the key of a binding.
  A key is new when its bind begins because the binds before it hold it (`KeyHeld`): as
  a port that the books have reserved, or as a subdomain whose session is taken, also
  between the two binds of an HTTP tunnel (`NameHeld`). That the session is not
  taken away meanwhile, by a close or an eviction, is `EventTurn`.

### The registry

`LeaseRegistry_proofs` proves `TypeOK`, `ClaimInFlight`, `BeatingHoldsLease` and
`LeaseEndsByItsHolder`, for any nodes, clients and names, any TTL, number of attempts
and length of the queue. The argument is about tokens. A socket has one claim
in the queue of its node, and only while it waits for it (`Queues`, `Waits`), so whoever
has a token in an entry, a renewal or a release is past its claim (`OwnTokens`); and once
a release of a token is in the queue no entry has that token, nor will have
(`ReleasedTokens`). A release that Redis grants, late or twice, therefore ends no lease
that an entry stands for. `BeatingHoldsLease` rests on `LeaseOutlives`: while Redis has
been healthy, the lease of an entry has as much time left as the entry has, or a
renewal that makes it so is unanswered, and a claim that was granted still has its lease
in full when the answer arrives.

### Streams and relay

`HttpStreams_proofs` proves the five invariants of the run, for any requests, sockets,
users and limits. They hold because one socket at most is open, the one that the
subdomain is routed to (`OneLink`); because a stream counts only against the socket its
request came by (`StreamsOfSockets`), which is what the limit compares; because a
client answers once, and by the socket it was asked on as long as that is open
(`ClientSide`); and because the parts received are the first ones (`PrefixReceived`), so
that the count the reassembly goes by is the count of the response.

`TcpRelay_proofs` proves `ConnectionBooks` and `ClientWithinLimit`. That the close of a
socket forgets the connections of no other rests on each connection being owned by the
socket it came by (`OwnedByItsSocket`); that a new socket finds none of an earlier one on
sockets being used once (`UsedOnce`); the limit, on the client's map being finite and
its size changing with each insertion and deletion. `TcpRelay!TypeOK`, which no run
lists, bounds `buffered` by the frames that were answered, for which frames in a queue have
to be counted: `Typing` is the rest of it.

### The client

`TunnelClient_proofs` proves `ClientIsRight` and the refinement `PromiseKept`, each for
`TunnelClient` and for the system of `PublishedClient` with both editions. A client that
believes it serves is right because of the frames behind the one it reads: a session that
the gateway closed has the close as its last frame (`LinkState`), a client asks once
(`AsksOnce`) and is told once that it is registered, with the token it has or one of
this connection (`RegisteredOnce`). One that has stopped stays quiet since only
a heartbeat timer can be left, and a reconnect is pending only behind a socket that is
gone (`TimersRight`). For the refinement each action is a step of `TunnelPromise`, or
changes nothing that is promised, from a state with `Inv`.

### The services

`ApiKeys_proofs` proves `RevocationReaches` of the module; `Services_proofs` proves it and
the eight other properties of the run `services` of `Services`, by way of the fact that
a behaviour of `Services` is one of each part: of the one that runs, and of the others as
their variables do not change.

* *Keys.* A revocation closes whom it finds in the books, and the sweep spares whom it
  finds there. So the books must have every socket that was authenticated with a key,
  from that turn to the one of its close handler (`OnTheBooks`), and nobody else
  (`BooksOfTheirs`); and a revocation that is answered has deleted its row, which
  nothing brings back (`DoneIsGone`).
* *Command line.* `CliInv`: whoever is up and not listed is in `lost`. That is inductive
  once it is asked of the lists that are read and not yet written as well (`ListsKnow`):
  what such a list misses was added since it was read, or lost before.
* *Persistent services.* `UnitsInv` asks the same of each command and each name that left
  a trace in the operating system (`Known`): the command keeps the name on its list, or
  another command is at work on it, or has been since the list was read, or the name is
  excused. A command that has removed the units of a name does not count as at work on
  it, although it has still to take it off the list: otherwise two that remove the same
  name would cover for each other.
* *Audit log.* `EventsInv`: how often an event was tried says how far it is, and a letter
  that a replay has read is still to be sent, has failed, or was taken (`LettersRead`), so
  that a replay writes over letters only that came after it had read. `PagesInv`: the cursor has
  one place, as an event is stored once, and the reader has seen what was there at his
  start and is before it, and nothing behind it (`ReadUpTo`).
* *Console.* `PageInv`: a list newer than the one on the page is on its way, as a handler that
  has yet to publish (`due`), an event, a timer, a request without an answer or an answer that was not looked at (`Coming`), unless
  the user has a change that nothing will tell. At rest nothing is on its way.
* *Door.* The times of the last connections that the limiter allowed are a log, and the
  bucket sums it up (`Filled`: since when the window runs, and how many came in it).
  When a bucket is over, whether it is still there or was evicted, the log says the same
  by itself (`Quiet`: all but the last `ConnLimit - 1` are a window old). That is
  why evicting a bucket that is over is harmless. Fewer than twice the limit in
  any time of a window's length is what remains, and is as much as a fixed window gives.
* *API.* What a request made carries its number (`RowsRight`, `MadeRight`), so nobody else
  makes it; what a DELETE has found was made by a request whose making is over, so it
  does not come back (`DeletedRight`); what was shown, or saved to be shown, is
  the asker's (`SeenRight`, `SavedRight`). `RetryIsReplayed` needs `KeptRight`: an answer
  given with a key is among the saved responses, no older than it is.

### Model-checked only

* All liveness: `ReservationEnds`, `SilentFreesName`, `StreamEnds`, `PauseEnds`,
  `HalvesEndTogether`, `LossRepaired`, `DrainCompletes`. The provers do not reason about fairness and
  `ENABLED`.
* `TcpRelay!TypeOK`, as said above, and `GatewayLife`.
* The violated properties of section 3: there the counterexample of TLC is the result.

Induction over data and `RECURSIVE` operators are out of the provers' reach; no module
contains the latter.

## 5. Plan

Done: the models of all parts that have state; their runs; and the proofs of every
safety property of the runs. What is left:

1. `TcpRelay`: `TypeOK` in full, with the frames of `up` and `down` counted by the
   connection they are of.
2. The safety half of the liveness properties, which TLC checks as a whole: that an
   unsettled stream has its timer (`StreamEnds`), a paused connection its resume timer
   (`PauseEnds`), a client that tries a socket or a timer to go on with (`LossRepaired`), a
   reserved port a bind in flight (`ReservationEnds`).
3. An abstract specification of what a lease registry promises, a lock with expiry, and
   of what a stream promises, one answer to one request; `LeaseRegistry` and `HttpStreams`
   shown to implement them.

### Not modelled

* Parts without state, or whose order does not matter: routing, OpenAPI, metrics,
  configuration, logging, errors, SDK, wire types, deployment.
* `MemoryRegistryBackend`; a second `register_tunnel` on one socket; the rate limits
  of registrations, of the API and of the ingress (the limiter itself is in `PublicDoor`).
* Relay: the refusal of a bad local port, and `DELETE /api/inspect-tcp`.
* API: filters and paging of lists, but for the audit log; live tunnels appear in lists
  by their owner only; hashing, JWTs and their expiry; the batching of usage.
* Audit: the query of a gateway without a database, and the JSONL sink.
* Console: views, admin pages, the mode without authentication, the service worker.
* Command line: arguments, printing, logs, export and import. `schtasks`, `systemctl`
  and `launchctl` are modelled from how they are called and what their units say.

## 6. Running

```
tlc -workers 2 -config MCTunnelSessions.cfg MCTunnelSessions
for m in *_proofs.tla; do tlapm $m; done
```

Each configuration belongs to the `MC` module that `runs` in `PROJECT.json` names.
The longest run, `services`, takes two minutes or more.
The proofs take a quarter of an hour from nothing, `Services_proofs` and
`LeaseRegistry_proofs` the most of it.
