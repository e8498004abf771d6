---------------------------- MODULE GatewayLife -----------------------------
(***************************************************************************)
(* The life of a gateway process (apps/gateway-server/src/index.ts, and    *)
(* start, stop and the operational state in server.ts): it boots, is       *)
(* drained or put into maintenance by an admin, and stops on a signal.     *)
(* Of its clients there are control sockets, with as much of their         *)
(* registration (TunnelSessions) as the count of tunnels takes: it awaits  *)
(* stores and ports, and goes on when its socket has closed meanwhile.     *)
(* And there are consoles on the stream of live events (Console).          *)
(* Before both servers listen there is no signal.                          *)
(***************************************************************************)
CONSTANTS
  Sockets,      \* bound: control sockets that come up
  Streams,      \* bound: event streams that consoles open
  StaysOpen     \* the streams whose console never leaves

VARIABLES
  boot,         \* how far start() is: "booting", "listening", "grace", "up"
  halt,         \* how far stop() is: "no", "ports", "http", "sockets", "stores"
  mode,         \* [draining, maintenance]
  isReady,
  exitCode,     \* of the shutdown that was asked for: "none", "clean", "crash"
  exit,         \* how the process ended: "no", "clean", "crash"
  socket,       \* socket -> "none", "open", "closing" (told to close), "closed"
  work,         \* its handler: "none", "auth", "in", "claims", "binds", "done"
  entries,      \* registry.bySubdomain: the sockets that it has an entry of
  stream        \* stream -> "none", "open" (in liveSubscribers), "closed"

processVars == <<boot, halt, exitCode, exit>>
clientVars  == <<socket, work, entries>>
vars == <<processVars, mode, isReady, clientVars, stream>>

Modes   == [draining : BOOLEAN, maintenance : BOOLEAN]
Normal  == [draining |-> FALSE, maintenance |-> FALSE]
Runs    == exit = "no"
Open    == {s \in Sockets : socket[s] \in {"open", "closing"}}

Init ==
  /\ boot = "booting" /\ halt = "no" /\ exitCode = "none" /\ exit = "no"
  /\ mode \in {m \in Modes : ~m.draining}
  /\ isReady = FALSE
  /\ socket = [s \in Sockets |-> "none"]
  /\ work = [s \in Sockets |-> "none"]
  /\ entries = {}
  /\ stream = [c \in Streams |-> "none"]

-----------------------------------------------------------------------------
(***************************************************************************)
(* The operational state.                                                  *)
(***************************************************************************)

\* The tunnels that count are those with an entry: not one that is only a port.
gatewayState ==
  [ready |-> isReady /\ mode = Normal, draining |-> mode.draining,
   maintenance |-> mode.maintenance, drainComplete |-> mode.draining /\ entries = {}]

\* What the body does not name stays as it is.
applyOperationalState(body) ==
  /\ mode' = [f \in DOMAIN mode |-> IF f \in DOMAIN body THEN body[f] ELSE mode[f]]
  /\ isReady' = (mode' = Normal)

Bodies == UNION {[fields -> BOOLEAN] : fields \in SUBSET {"draining", "maintenance"}}

\* Requests to the gateway's own routes are answered.
TakesHttp == Runs /\ boot # "booting" /\ halt \in {"no", "ports"}

\* POST /api/admin/state, which may also say what is so already
SetState(body) ==
  /\ TakesHttp
  /\ DOMAIN body # {}
  /\ applyOperationalState(body)
  /\ UNCHANGED <<processVars, clientVars, stream>>

-----------------------------------------------------------------------------
(***************************************************************************)
(* start(), boot().                                                        *)
(***************************************************************************)

Starts(from, to) == Runs /\ boot = from /\ boot' = to

Listen ==
  /\ Starts("booting", "listening")
  /\ UNCHANGED <<halt, mode, isReady, exitCode, exit, clientVars, stream>>

WsListens ==
  /\ Starts("listening", "grace")
  /\ UNCHANGED <<halt, mode, isReady, exitCode, exit, clientVars, stream>>

\* A port is taken.
StartFails ==
  /\ Runs /\ boot \in {"booting", "listening"}
  /\ exit' = "crash"
  /\ UNCHANGED <<boot, halt, mode, isReady, exitCode, clientVars, stream>>

GraceEnds ==
  /\ Starts("grace", "up")
  /\ applyOperationalState(<<>>)
  /\ UNCHANGED <<halt, exitCode, exit, clientVars, stream>>

-----------------------------------------------------------------------------
(***************************************************************************)
(* Control sockets and event streams.                                      *)
(***************************************************************************)

Admits == mode = Normal

\* The server of the control sockets answers an upgrade to /connect.
TakesUpgrades == Runs /\ boot \in {"grace", "up"} /\ halt \in {"no", "ports", "http"}

\* wsServer "connection": refused with an error and a close while draining
SocketConnects(s) ==
  /\ TakesUpgrades
  /\ socket[s] = "none"
  /\ socket' = [socket EXCEPT ![s] = IF Admits THEN "open" ELSE "closing"]
  /\ work' = [work EXCEPT ![s] = IF Admits THEN "auth" ELSE "none"]
  /\ UNCHANGED <<processVars, mode, isReady, entries, stream>>

GoesTo(s, from, to) ==
  /\ Runs /\ work[s] = from
  /\ \E next \in to : work' = [work EXCEPT ![s] = next]
  /\ UNCHANGED <<processVars, mode, isReady, stream>>

Hangup(s) == socket' = [socket EXCEPT ![s] = IF @ = "open" THEN "closing" ELSE @]

\* resolvePrincipal answers; a register_tunnel that came meanwhile is taken now,
\* also of a socket that has closed.  The operational state is not asked again.
Authenticated(s) ==
  /\ \/ GoesTo(s, "auth", {"none"}) /\ Hangup(s)
     \/ GoesTo(s, "auth", {"in", "claims"}) /\ UNCHANGED socket
  /\ UNCHANGED entries

\* register_tunnel
Registers(s) ==
  /\ s \in Open
  /\ GoesTo(s, "in", {"claims"})
  /\ UNCHANGED <<socket, entries>>

\* The stores and the registry have answered: a subdomain is claimed...
Claims(s) ==
  /\ GoesTo(s, "claims", {"binds", "done"})
  /\ entries' = entries \cup {s}
  /\ UNCHANGED socket

\* ... or the tunnel is only a port, or is refused, and may be asked for again.
Unclaimed(s) ==
  /\ GoesTo(s, "claims", {"binds", "in"})
  /\ UNCHANGED <<socket, entries>>

\* listen() has answered; without its port a tunnel is undone, or does without.
Bound(s) ==
  /\ \/ GoesTo(s, "binds", {"done"}) /\ UNCHANGED entries
     \/ GoesTo(s, "binds", {"in"}) /\ entries' = entries \ {s}
  /\ UNCHANGED socket

\* The client leaves or answers the close; ws ends a socket that does not.  A
\* handler that awaits is left alone.
SocketCloses(s) ==
  /\ Runs /\ s \in Open
  /\ socket' = [socket EXCEPT ![s] = "closed"]
  /\ entries' = entries \ {s}
  /\ UNCHANGED <<processVars, mode, isReady, work, stream>>

\* mutant of Evict: an entry whose socket has closed is left to the close handler
EvictMutant(s) ==
  /\ Runs /\ s \in entries /\ s \in Open
  /\ entries' = entries \ {s}
  /\ Hangup(s)
  /\ UNCHANGED <<processVars, mode, isReady, work, stream>>

\* sweepStaleSockets or a lost lease: the entry is dropped, and its socket closed.
Evict(s) ==
  /\ Runs /\ s \in entries
  /\ entries' = entries \ {s}
  /\ Hangup(s)
  /\ UNCHANGED <<processVars, mode, isReady, work, stream>>

\* GET /api/events
StreamOpens(c) ==
  /\ TakesHttp /\ stream[c] = "none"
  /\ stream' = [stream EXCEPT ![c] = "open"]
  /\ UNCHANGED <<processVars, mode, isReady, clientVars>>

StreamCloses(c) ==
  /\ Runs /\ stream[c] = "open" /\ c \notin StaysOpen
  /\ stream' = [stream EXCEPT ![c] = "closed"]
  /\ UNCHANGED <<processVars, mode, isReady, clientVars>>

-----------------------------------------------------------------------------
(***************************************************************************)
(* shutdown() and stop().                                                  *)
(***************************************************************************)

\* SIGINT, SIGTERM or an uncaught exception; a second one is ignored.
Signal(code) ==
  /\ Runs /\ exitCode = "none" /\ boot \in {"grace", "up"}
  /\ exitCode' = code
  /\ applyOperationalState([draining |-> TRUE])
  /\ socket' = [s \in Sockets |-> IF s \in Open THEN "closing" ELSE socket[s]]
  /\ halt' = "ports"
  /\ UNCHANGED <<boot, exit, work, entries, stream>>

Stops(from, to) == Runs /\ halt = from /\ halt' = to

\* The public ports are closed: app.close() starts.
PortsClosed ==
  /\ Stops("ports", "http")
  /\ UNCHANGED <<boot, mode, isReady, exitCode, exit, clientVars, stream>>

\* Fastify waits for the requests that are answered; a stream is one of them.
AppClosed ==
  /\ Stops("http", "sockets")
  /\ \A c \in Streams : stream[c] # "open"
  /\ UNCHANGED <<boot, mode, isReady, exitCode, exit, clientVars, stream>>

\* wsHttpServer and wsServer wait for every socket that is still there.
WsClosed ==
  /\ Stops("sockets", "stores") /\ Open = {}
  /\ UNCHANGED <<boot, mode, isReady, exitCode, exit, clientVars, stream>>

\* An error on the way is a crash.
StoresClosed ==
  /\ Runs /\ halt = "stores"
  /\ exit' \in {exitCode, "crash"}
  /\ UNCHANGED <<boot, halt, mode, isReady, exitCode, clientVars, stream>>

-----------------------------------------------------------------------------
Stop == PortsClosed \/ AppClosed \/ WsClosed \/ StoresClosed

\* What an answer (of a store, the registry, listen()) resumes.
Resumed(s) == Authenticated(s) \/ Claims(s) \/ Unclaimed(s) \/ Bound(s)

Next ==
  \/ \E body \in Bodies : SetState(body)
  \/ Listen \/ WsListens \/ GraceEnds \/ StartFails
  \/ \E s \in Sockets :
       \/ SocketConnects(s) \/ Registers(s) \/ Resumed(s)
       \/ SocketCloses(s) \/ Evict(s)
  \/ \E c \in Streams : StreamOpens(c) \/ StreamCloses(c)
  \/ \E code \in {"clean", "crash"} : Signal(code)
  \/ Stop

Spec == Init /\ [][Next]_vars

\* stop() goes on when what it awaits has happened; every socket and every
\* stream, except those that stay open, closes in time.
FairSpec ==
  /\ Spec
  /\ WF_vars(Stop)
  /\ \A s \in Sockets : WF_vars(SocketCloses(s))
  /\ \A c \in Streams : WF_vars(StreamCloses(c))

\* registrySweep, until stop() clears it, finds the entries nobody beats for.
DeadEvicted(s) == halt = "no" /\ socket[s] = "closed" /\ Evict(s)

\* A suspended registration is resumed, and the sweep runs.
ServingSpec ==
  /\ Spec
  /\ \A s \in Sockets : WF_vars(Resumed(s)) /\ WF_vars(DeadEvicted(s))

-----------------------------------------------------------------------------
TypeOK ==
  /\ boot \in {"booting", "listening", "grace", "up"}
  /\ halt \in {"no", "ports", "http", "sockets", "stores"}
  /\ mode \in Modes /\ isReady \in BOOLEAN
  /\ exitCode \in {"none", "clean", "crash"} /\ exit \in {"no", "clean", "crash"}
  /\ socket \in [Sockets -> {"none", "open", "closing", "closed"}]
  /\ work \in [Sockets -> {"none", "auth", "in", "claims", "binds", "done"}]
  /\ entries \subseteq Sockets
  /\ stream \in [Streams -> {"none", "open", "closed"}]

(***************************************************************************)
(* "Set drain mode on target node", then "Wait until active requests       *)
(* settle (monitor gateway_active_tunnels...)" (docs/runbooks/operations-  *)
(* runbook.md:10-13) comes to an end: if the node stays draining and its   *)
(* clients leave, the drain completes for good, whatever was under way     *)
(* when they left.                                                         *)
(***************************************************************************)
DrainCompletes ==
  <>[](mode.draining /\ Runs /\ halt = "no" /\ Open = {})
    => <>[]gatewayState.drainComplete

(***************************************************************************)
(* Not so: a drain that is complete stays complete while the node drains.  *)
(* A socket that was in before may still register, or have a registration  *)
(* that awaits, and its tunnel is counted when it ends.                    *)
(***************************************************************************)
DrainStaysComplete ==
  [][mode.draining /\ mode'.draining /\ gatewayState.drainComplete
       => gatewayState'.drainComplete]_vars

(***************************************************************************)
(* "Log loudly and drain before exiting so orchestrators can restart."     *)
(* (apps/gateway-server/src/index.ts:55): a gateway that shuts down ends.  *)
(***************************************************************************)
StopEnds == exitCode # "none" ~> exit # "no"
=============================================================================
