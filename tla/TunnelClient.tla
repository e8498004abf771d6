---------------------------- MODULE TunnelClient ----------------------------
(***************************************************************************)
(* A tunnel client and its link to the gateway: start, connect, register,  *)
(* heartbeats and the liveness check, reconnect, the timer that ends a     *)
(* start that fails, and every way to be told to stop                      *)
(* (apps/tunnel-client/src/client.ts; packages/portivox-client/src/        *)
(* client.ts is a copy without the liveness check and two options).        *)
(*                                                                         *)
(* The gateway is here as far as a client can see it: it authenticates and *)
(* registers across awaits, drains, revokes, closes, or falls silent.      *)
(* Delays are the order of events: the backoff is left out, and a tick of  *)
(* the heartbeat is the unit of the liveness check.                        *)
(***************************************************************************)
EXTENDS Naturals, Sequences

CONSTANTS
  Configs,      \* configurations a client may have been given
  MaxTries,     \* bound: connections a client makes
  Silence,      \* ticks without a frame after which the next one gives up
  Backlog,      \* bound: heartbeats on their way
  None

Ends == {"stopped", "early", "fatal", "revoked", "exit"}

ASSUME ClientAssumption ==
  /\ Configs \subseteq [liveness : BOOLEAN, exitAfter : BOOLEAN, once : BOOLEAN]
  /\ MaxTries \in Nat /\ Silence \in Nat /\ Backlog \in Nat
  /\ None \notin Nat /\ None \notin Ends

VARIABLES
  config,        \* TunnelClientConfig: is there a liveness check, exitAfterMs, noReconnect
  stopped, registered,
  timers,        \* those that run: "heartbeat", "reconnect", "exit"
  redirectToken,
  tries, socket, \* how many sockets it made, and the state of the last one
  silent,        \* ticks since a frame arrived
  verdict,       \* why it has ended, or None: "stopped", or "early" if stop() came while
                 \* connecting, "fatal", "revoked", and "exit" of the process
  up, down,      \* frames on their way, of the last socket
  cut,           \* nothing gets through any more, and nobody is told
  mode, keyValid,\* the gateway: "accepting", "draining" or "down"; the client's key
  session        \* what the gateway has of the last socket

clientVars == <<config, stopped, registered, timers, redirectToken, tries, socket,
                silent, verdict>>
linkVars   == <<up, down, cut>>
gatewayVars == <<mode, keyValid, session>>
vars == <<clientVars, linkVars, gatewayVars>>

Try   == 1..MaxTries
Codes == {1006, 1013, 4000, 4401}
Down  == [type : {"registered"}, token : Try] \cup [type : {"close"}, code : Codes]
           \cup [type : {"error", "heartbeat_ack", "tunnel_revoked"}]
Plain(type)  == [type |-> type]
Close(code)  == [type |-> "close", code |-> code]

Init ==
  /\ config \in Configs
  /\ stopped = FALSE /\ registered = FALSE /\ timers = {} /\ redirectToken = None
  /\ tries = 0 /\ socket = "none" /\ silent = 0 /\ verdict = None
  /\ up = <<>> /\ down = <<>> /\ cut = FALSE
  /\ mode = "accepting" /\ keyValid = TRUE
  /\ session = "none"

Alive == verdict # "exit"

-----------------------------------------------------------------------------
(***************************************************************************)
(* Start, stop, connect.                                                   *)
(***************************************************************************)

\* mutant of Connect: the new socket is taken for registered
ConnectMutant ==
  /\ tries < MaxTries
  /\ tries' = tries + 1
  /\ socket' = "connecting"
  /\ up' = <<>> /\ down' = <<>> /\ cut' = FALSE
  /\ session' = "none"
  /\ UNCHANGED registered

\* The old socket loses its listeners; its frames are nobody's any more.
Connect ==
  /\ tries < MaxTries
  /\ tries' = tries + 1
  /\ socket' = "connecting"
  /\ registered' = FALSE
  /\ up' = <<>> /\ down' = <<>> /\ cut' = FALSE
  /\ session' = "none"

Start ==
  /\ tries = 0 /\ ~ stopped
  /\ timers' = IF config.exitAfter THEN {"exit"} ELSE {}
  /\ Connect
  /\ UNCHANGED <<config, stopped, redirectToken, silent, verdict, mode, keyValid>>

\* mutant of Stop: the reconnect timer is forgotten
StopMutant(running) ==
  /\ stopped' = TRUE
  /\ timers' = running \ {"heartbeat", "exit"}
  /\ socket' = IF socket = "open" THEN "closing" ELSE socket

\* stop(), with the timers that were running: only an open socket is closed.
Stop(running) ==
  /\ stopped' = TRUE
  /\ timers' = {}
  /\ socket' = IF socket = "open" THEN "closing" ELSE socket

\* The owner of the client stops it: SIGINT, SIGTERM, or a call.
StopCalled ==
  /\ Alive /\ tries > 0 /\ ~ stopped
  /\ Stop(timers)
  /\ verdict' = IF socket = "connecting" THEN "early" ELSE "stopped"
  /\ UNCHANGED <<config, registered, redirectToken, tries, silent, linkVars, gatewayVars>>

\* The socket opens, for a client that was stopped meanwhile too.
Opened ==
  /\ Alive /\ socket = "connecting" /\ mode # "down"
  /\ socket' = "open"
  /\ timers' = timers \cup {"heartbeat"}
  /\ silent' = 0
  /\ up' = <<"register_tunnel">>
  /\ IF mode = "draining"
       THEN /\ down' = <<Plain("error"), Close(1013)>>
            /\ session' = "closed"
       ELSE /\ session' = "auth"
            /\ UNCHANGED down
  /\ UNCHANGED <<config, stopped, registered, redirectToken, tries, verdict, cut, mode, keyValid>>

\* The error event of a socket; its close event follows.
ConnectFails ==
  /\ Alive /\ socket = "connecting"
  /\ socket' = "terminated"
  /\ timers' = timers \ {"heartbeat"}
  /\ UNCHANGED <<config, stopped, registered, redirectToken, tries, silent, verdict,
                 linkVars, gatewayVars>>

-----------------------------------------------------------------------------
(***************************************************************************)
(* Timers.                                                                 *)
(***************************************************************************)

\* mutant of ScheduleReconnect: only a tunnel that was up is worth another try
ScheduleReconnectMutant(running) ==
  IF stopped \/ "reconnect" \in running \/ ~ registered
    THEN timers' = running /\ UNCHANGED verdict
    ELSE IF config.once
           THEN timers' = running /\ verdict' = "exit"
           ELSE timers' = running \cup {"reconnect"} /\ UNCHANGED verdict

\* scheduleReconnect, with the timers that are left to run.
ScheduleReconnect(running) ==
  IF stopped \/ "reconnect" \in running
    THEN timers' = running /\ UNCHANGED verdict
    ELSE IF config.once
           THEN timers' = running /\ verdict' = "exit"
           ELSE timers' = running \cup {"reconnect"} /\ UNCHANGED verdict

ReconnectTimer ==
  /\ Alive /\ "reconnect" \in timers
  /\ timers' = timers \ {"reconnect"}
  /\ Connect
  /\ UNCHANGED <<config, stopped, redirectToken, silent, verdict, mode, keyValid>>

\* process.exit(1): the tunnel was not registered in time.
ExitTimer ==
  /\ Alive /\ "exit" \in timers
  /\ verdict' = "exit" /\ timers' = {} /\ socket' = "closed"
  /\ UNCHANGED <<config, stopped, registered, redirectToken, tries, silent, linkVars, gatewayVars>>

\* mutant of GatewaySilent: one tick late
GatewaySilentMutant == config.liveness /\ silent > Silence

GatewaySilent == config.liveness /\ silent = Silence

(***************************************************************************)
(* A tick of the heartbeat: after a silence the link is given up, and no   *)
(* close event is waited for; otherwise a heartbeat is sent.               *)
(***************************************************************************)
HeartbeatTick ==
  /\ Alive /\ "heartbeat" \in timers
  /\ \/ /\ GatewaySilent
        /\ socket' = "terminated"
        /\ ScheduleReconnect(timers \ {"heartbeat"})
        /\ UNCHANGED <<silent, up>>
     \/ /\ ~ GatewaySilent
        /\ silent' = IF config.liveness THEN silent + 1 ELSE silent
        /\ up' = IF socket = "open" /\ Len(up \o down) < Backlog THEN Append(up, "heartbeat") ELSE up
        /\ UNCHANGED <<socket, timers, verdict>>
  /\ UNCHANGED <<config, stopped, registered, redirectToken, tries, down, cut, gatewayVars>>

-----------------------------------------------------------------------------
(***************************************************************************)
(* What the gateway sent.                                                  *)
(***************************************************************************)

Receives(type) ==
  /\ Alive /\ socket \in {"open", "closing"} /\ ~ cut
  /\ down # <<>> /\ Head(down).type = type
  /\ down' = Tail(down)
  /\ silent' = 0
  /\ UNCHANGED <<config, tries, up, cut, gatewayVars>>

GotRegistered ==
  /\ Receives("registered")
  /\ registered' = TRUE
  /\ timers' = timers \ {"exit"}
  /\ redirectToken' = Head(down).token
  /\ UNCHANGED <<stopped, socket, verdict>>

GotAck ==
  /\ Receives("heartbeat_ack")
  /\ UNCHANGED <<stopped, registered, timers, redirectToken, socket, verdict>>

\* An error before the registration is fatal, a later one is logged.
GotError ==
  /\ Receives("error")
  /\ IF registered
       THEN timers' = timers \ {"exit"} /\ UNCHANGED <<stopped, socket, verdict>>
       ELSE Stop(timers) /\ verdict' = "fatal"
  /\ UNCHANGED <<registered, redirectToken>>

GotRevoked ==
  /\ Receives("tunnel_revoked")
  /\ Stop(timers) /\ verdict' = "revoked"
  /\ UNCHANGED <<registered, redirectToken>>

Rejected(code) == code = 4401

(***************************************************************************)
(* The close event: with the code the gateway gave, if that arrived.  A    *)
(* stopped client only stops; others try again, unless their key is bad.   *)
(***************************************************************************)
SocketClosed(code) ==
  /\ Alive
  /\ \/ /\ socket \in {"open", "closing"} /\ ~ cut
        /\ down # <<>> /\ Head(down) = Close(code)
     \/ socket \in {"closing", "terminated"} /\ code = 1006
  /\ socket' = "closed"
  /\ IF Rejected(code)
       THEN /\ stopped' = TRUE /\ timers' = {}
            /\ verdict' = "fatal"
       ELSE /\ ScheduleReconnect(timers \ {"heartbeat"})
            /\ UNCHANGED stopped
  /\ down' = <<>>
  /\ UNCHANGED <<config, registered, redirectToken, tries, silent, up, cut, gatewayVars>>

-----------------------------------------------------------------------------
(***************************************************************************)
(* The gateway.                                                            *)
(***************************************************************************)

others == <<clientVars, cut>>
Live  == {"auth", "idle", "registering", "binding", "serving"}
Known == Live \ {"auth"}

Becomes(s, frames) ==
  /\ session' = s
  /\ down' = down \o frames

\* resolvePrincipal answers; frames that came meanwhile were kept.
Authenticated ==
  /\ session = "auth"
  /\ IF keyValid THEN Becomes("idle", <<>>) ELSE Becomes("closed", <<Close(4401)>>)
  /\ UNCHANGED <<others, up, mode, keyValid>>

\* Before the flag "registered" is set any other frame is an error.
TooEarly(s) == s \in {"idle", "registering"}

GatewayFrame ==
  /\ session \in Known /\ up # <<>> /\ ~ cut
  /\ up' = Tail(up)
  /\ IF Head(up) = "register_tunnel"
       THEN Becomes("registering", <<>>)
       ELSE Becomes(session, <<Plain(IF TooEarly(session) THEN "error" ELSE "heartbeat_ack")>>)
  /\ UNCHANGED <<others, mode, keyValid>>

\* The registration has its key and sets the flag; it goes on to bind ports.
Flagged ==
  /\ session = "registering"
  /\ Becomes("binding", <<>>)
  /\ UNCHANGED <<others, up, mode, keyValid>>

\* The client's redirect token is taken up again if the gateway knows it.
Registered(token) ==
  /\ session = "binding"
  /\ token \in {tries, redirectToken} \ {None}
  /\ Becomes("serving", <<[type |-> "registered", token |-> token]>>)
  /\ UNCHANGED <<others, up, mode, keyValid>>

\* No entitlement, no name, no port, a store that fails.
RegistrationFails ==
  /\ session \in {"registering", "binding"}
  /\ Becomes("idle", <<Plain("error")>>)
  /\ UNCHANGED <<others, up, mode, keyValid>>

\* The tunnel, the device or the key is removed in the console.
Revoke(key) ==
  /\ session \in Known /\ keyValid
  /\ keyValid' = ~ key
  /\ Becomes("closed", <<Plain("tunnel_revoked"), Close(IF key THEN 4401 ELSE 4000)>>)
  /\ UNCHANGED <<others, up, mode>>

\* Eviction, idle timer, shutdown; or it learns that its client has gone.
GatewayCloses ==
  /\ session \in Live
  /\ Becomes("closed", <<Close(4000)>>)
  /\ UNCHANGED <<others, up, mode, keyValid>>

ModeChanges(to) ==
  /\ mode # to
  /\ mode' = to
  /\ UNCHANGED <<others, up, down, keyValid, session>>

\* The network falls silent without an error on either side.
Cut ==
  /\ ~ cut /\ socket = "open"
  /\ cut' = TRUE
  /\ UNCHANGED <<clientVars, up, down, gatewayVars>>

-----------------------------------------------------------------------------
ClientStep ==
  \/ Opened \/ ReconnectTimer \/ HeartbeatTick
  \/ GotRegistered \/ GotAck \/ GotError \/ GotRevoked
  \/ \E code \in Codes : SocketClosed(code)

CommandLineStep == Start \/ StopCalled \/ ConnectFails \/ ExitTimer

LinkStep ==
  \/ Authenticated \/ GatewayFrame \/ Flagged \/ RegistrationFails \/ Cut
  \/ GatewayCloses
  \/ \E token \in Try : Registered(token)
  \/ \E key \in BOOLEAN : Revoke(key)
  \/ \E m \in {"accepting", "draining", "down"} : ModeChanges(m)

Next == CommandLineStep \/ ClientStep \/ LinkStep

Spec == Init /\ [][Next]_vars

\* The client's event loop and timers run; the network and the gateway
\* have to do nothing.
FairSpec ==
  /\ Spec
  /\ WF_vars(ReconnectTimer) /\ WF_vars(HeartbeatTick)
  /\ WF_vars(\E code \in Codes : SocketClosed(code))

-----------------------------------------------------------------------------
TypeOK ==
  /\ config \in Configs
  /\ stopped \in BOOLEAN /\ registered \in BOOLEAN
  /\ timers \subseteq {"heartbeat", "reconnect", "exit"}
  /\ redirectToken \in Try \cup {None}
  /\ tries \in 0..MaxTries
  /\ socket \in {"none", "connecting", "open", "closing", "terminated", "closed"}
  /\ silent \in 0..Silence
  /\ verdict \in Ends \cup {None}
  /\ up \in Seq({"register_tunnel", "heartbeat"}) /\ down \in Seq(Down)
  /\ cut \in BOOLEAN
  /\ mode \in {"accepting", "draining", "down"} /\ keyValid \in BOOLEAN
  /\ session \in Live \cup {"none", "closed"}

(***************************************************************************)
(* The client and the gateway agree on a tunnel: a client that believes it *)
(* is registered is served by the session behind its own socket, or that   *)
(* session has been closed and the news is on its way (or cut off), and    *)
(* the token the client would send back is one it was given.               *)
(***************************************************************************)
BelievesRightly ==
  socket = "open" /\ registered =>
    /\ session \in {"serving", "closed"}
    /\ session = "closed" => cut \/ down # <<>>
    /\ redirectToken # None

(***************************************************************************)
(* A client that has stopped is quiet, by whatever way it was told: no     *)
(* timer of it runs and its socket is not open -- unless stop() came while *)
(* that was connecting, which opens, registers and heartbeats all the same.*)
(***************************************************************************)
StoppedIsQuiet ==
  stopped /\ verdict # "early" =>
    /\ timers = {} /\ socket \in {"closing", "terminated", "closed"}

(***************************************************************************)
(* What the client holds of itself is so, whatever order frames, timers,   *)
(* closes and stops come in: when it thinks it serves, and when it thinks  *)
(* it has stopped.                                                         *)
(***************************************************************************)
ClientIsRight == BelievesRightly /\ StoppedIsQuiet

(***************************************************************************)
(* What the client promises (TunnelPromise), read off its state.           *)
(***************************************************************************)
Promise == INSTANCE TunnelPromise WITH
  phase <- IF stopped \/ ~ Alive THEN "ended"
           ELSE IF tries = 0 THEN "idle"
           ELSE IF registered /\ socket = "open" THEN "serving" ELSE "trying",
  page  <- redirectToken

PromiseKept == Promise!Spec

(***************************************************************************)
(* "Client auto-reconnect with backoff" (FEATURES_SECURITY.md:11): a       *)
(* client with a liveness check does not stay on a link that has fallen    *)
(* silent, and one whose socket has closed connects again (up to the bound *)
(* on connections), unless it was told to stop.                            *)
(***************************************************************************)
LossRepaired ==
  /\ cut /\ config.liveness /\ Alive ~> ~ cut \/ socket # "open" \/ ~ Alive
  /\ socket = "closed" ~> socket # "closed" \/ stopped \/ ~ Alive \/ tries = MaxTries

-----------------------------------------------------------------------------
(***************************************************************************)
(* The gateway keeps frames that arrive during authentication so that it   *)
(* does not "see the first heartbeat (5 s later) as the first message"     *)
(* (server.ts:2422-2425): a heartbeat of a client that has registered      *)
(* first is never answered with an error.                                  *)
(***************************************************************************)
HeartbeatIsNotFirst ==
  [][up # <<>> /\ Head(up) = "heartbeat" /\ up' = Tail(up) =>
       down' # Append(down, Plain("error"))]_vars
=============================================================================
