--------------------------- MODULE TunnelSessions ---------------------------
(***************************************************************************)
(* The control sockets of one gateway node: the "connection" handler of    *)
(* apps/gateway-server/src/server.ts with its register_tunnel paths, the   *)
(* "close" handler, the DELETE of a live tunnel, and the maps they share.  *)
(*                                                                         *)
(* Node runs one handler at a time, so an action is what a handler does    *)
(* between two awaits.  A handler that awaits is in one of the stages in   *)
(* InFlight, and its socket may close meanwhile: the "close" handler runs  *)
(* once, at once, and knows nothing of the handler that is suspended.      *)
(*                                                                         *)
(* The ports are those of PublicPorts, composed by INSTANCE.  The registry *)
(* appears as its local sessions (LeaseRegistry has the leases).  Random   *)
(* strings are named by the socket whose registration draws them.          *)
(***************************************************************************)
EXTENDS Naturals, FiniteSets

CONSTANTS
  Socket,      \* control connections; each sends one register_tunnel
  User,        \* principals
  Principal,   \* [Socket -> User]: who resolvePrincipal says it is
  Sub,         \* subdomains
  Port, Pool,  \* public ports, and the range allocateTcpPort searches
  FixedPort,   \* ports that the admin's TCP port mappings name
  Request,     \* the registrations clients send
  IpProtection,\* ipProtectionDefault, and no --no-ip-protection
  BindHostIsAddress, \* tcpTunnelBindHost is an IP address, not a name
  None         \* an absent value (undefined)

ASSUME SessionAssumption ==
  /\ Principal \in [Socket -> User]
  /\ Port \subseteq Nat /\ Pool \subseteq Port /\ FixedPort \subseteq Port
  /\ Request \subseteq [tcp : BOOLEAN, sub : Sub \cup {None},
                        dedicated : BOOLEAN]
  /\ IpProtection \in BOOLEAN /\ BindHostIsAddress \in BOOLEAN
  /\ None \notin Socket \cup User \cup Sub \cup Port

VARIABLES
  usedTcpPorts, reservedTcpPorts, tcpBindingsBySubdomain, listens, openServers,
  readyState,               \* of each socket
  stage,                    \* where the handlers of each socket are
  request,                  \* the register_tunnel a socket sent
  redirectToken,            \* the token it replays, then the one it is given
  sessions,                 \* the registry's local entries
  socketSubdomain, socketByTunnelKey, ownershipBySubdomain,
  ipAccessByToken, ipTokenByTunnelKey,
  redirectByToken, redirectTokenByTunnelKey,
  offlineLookups,           \* keys of close handlers awaiting the tunnel store
  revokes                   \* keys of DELETE handlers awaiting server.close()

portVars     == <<usedTcpPorts, reservedTcpPorts, tcpBindingsBySubdomain,
                  listens, openServers>>
routeVars    == <<socketSubdomain, socketByTunnelKey, ownershipBySubdomain>>
accessVars   == <<ipAccessByToken, ipTokenByTunnelKey>>
redirectVars == <<redirectByToken, redirectTokenByTunnelKey>>
asyncVars    == <<offlineLookups, revokes>>
socketVars   == <<readyState, stage, request, redirectToken>>
vars == <<portVars, socketVars, sessions, routeVars, accessVars, redirectVars,
          asyncVars>>

(***************************************************************************)
(* Tunnel keys: the synthetic __tcp_port_<n>__ of a tunnel that is only a  *)
(* port, the subdomain of one the registry routes, and dedicated:<key> for *)
(* the raw port of an HTTP tunnel opened with --with-port.                 *)
(***************************************************************************)
PortKey(p)   == <<"port", p>>
SubKey(x)    == <<"sub", x>>
Dedicated(k) == <<"dedicated", k>>
Synthetic(k) == k[1] = "port"

TunnelKey == {PortKey(p) : p \in Port} \cup {SubKey(x) : x \in Sub}
Key       == TunnelKey \cup {Dedicated(k) : k \in TunnelKey}

ASSUME NoneIsNoKey == None \notin TunnelKey

Ports == INSTANCE PublicPorts

Token == Socket

RedirectEntry == [tunnelKey : TunnelKey, user : User, subdomain : Sub \cup {None},
                  publicTcpPort : Port \cup {None}, connected : BOOLEAN]

InFlight == {"entitlement", "mapping", "claim", "http_bound", "listen_fixed",
             "listen_port", "listen_tcp", "listen_http", "listen_dedicated"}

(***************************************************************************)
(* "gone": closed, and the close handler ran after the registration ended  *)
(* (or nothing ever was registered).  "orphan": the registration ended     *)
(* after the close.                                                        *)
(***************************************************************************)
Stage == InFlight \cup {"idle", "auth", "ready", "registered", "refused",
                        "gone", "orphan"}

Ended(s, outcome) == IF readyState[s] = "CLOSED" THEN "orphan" ELSE outcome

Init ==
  /\ Ports!Init
  /\ readyState = [s \in Socket |-> "NONE"]
  /\ stage = [s \in Socket |-> "idle"]
  /\ request = [s \in Socket |-> None]
  /\ redirectToken = [s \in Socket |-> None]
  /\ sessions = [x \in Sub |-> None]
  /\ socketSubdomain = [s \in Socket |-> None]
  /\ socketByTunnelKey = [k \in TunnelKey |-> None]
  /\ ownershipBySubdomain = [k \in TunnelKey |-> None]
  /\ ipAccessByToken = {}
  /\ ipTokenByTunnelKey = [k \in TunnelKey |-> None]
  /\ redirectByToken = [t \in Token |-> None]
  /\ redirectTokenByTunnelKey = [k \in TunnelKey |-> None]
  /\ offlineLookups = {}
  /\ revokes = {}

-----------------------------------------------------------------------------
(***************************************************************************)
(* Before register_tunnel.                                                 *)
(***************************************************************************)

GoTo(s, next) == stage' = [stage EXCEPT ![s] = next]

(***************************************************************************)
(* A connection while the gateway accepts them: one refused for draining   *)
(* or maintenance leaves no trace here.                                    *)
(***************************************************************************)
Connect(s) ==
  /\ stage[s] = "idle"
  /\ readyState' = [readyState EXCEPT ![s] = "OPEN"]
  /\ GoTo(s, "auth")
  /\ UNCHANGED <<request, redirectToken, sessions, portVars, routeVars,
                 accessVars, redirectVars, asyncVars>>

(***************************************************************************)
(* resolvePrincipal answers.  The close listener is attached only now: if  *)
(* the socket closed during the await, its close event is past.            *)
(***************************************************************************)
Authenticated(s) ==
  /\ stage[s] = "auth"
  /\ GoTo(s, "ready")
  /\ UNCHANGED <<readyState, request, redirectToken, sessions, portVars,
                 routeVars, accessVars, redirectVars, asyncVars>>

Closing(s) == IF readyState[s] = "OPEN" THEN "CLOSING" ELSE readyState[s]

Unauthorized(s) ==
  /\ stage[s] = "auth"
  /\ GoTo(s, "gone")
  /\ readyState' = [readyState EXCEPT ![s] = Closing(s)]
  /\ UNCHANGED <<request, redirectToken, sessions, portVars, routeVars,
                 accessVars, redirectVars, asyncVars>>

(***************************************************************************)
(* Redirect tokens that some client was told, and may send again: they are *)
(* part of a public URL, so any client may.                                *)
(***************************************************************************)
KnownTokens ==
  {redirectToken[s] : s \in {z \in Socket :
                             stage[z] \in {"registered", "gone", "orphan"}}}

(***************************************************************************)
(* The register_tunnel frame arrives; a frame buffered during the auth     *)
(* window is replayed even for a socket that has closed.                   *)
(***************************************************************************)
Register(s, r, t) ==
  /\ stage[s] = "ready"
  /\ request' = [request EXCEPT ![s] = r]
  /\ redirectToken' = [redirectToken EXCEPT ![s] = t]
  /\ GoTo(s, "entitlement")
  /\ UNCHANGED <<readyState, sessions, portVars, routeVars, accessVars,
                 redirectVars, asyncVars>>

(***************************************************************************)
(* isSubdomainAllowed answers.  A user without the entitlement is refused  *)
(* a subdomain he asked for, and is otherwise given a port only (below).   *)
(***************************************************************************)
EntitlementRead(s, allowed) ==
  /\ stage[s] = "entitlement"
  /\ \/ request[s].tcp /\ GoTo(s, "mapping")
     \/ ~ request[s].tcp /\ allowed /\ GoTo(s, "claim")
     \/ /\ ~ request[s].tcp /\ ~ allowed /\ request[s].sub # None
        /\ GoTo(s, Ended(s, "refused"))
  /\ UNCHANGED <<readyState, request, redirectToken, sessions, portVars,
                 routeVars, accessVars, redirectVars, asyncVars>>

-----------------------------------------------------------------------------
(***************************************************************************)
(* What the three register_tunnel paths share.                             *)
(***************************************************************************)

Track(s, k) ==
  /\ socketSubdomain' = [socketSubdomain EXCEPT ![s] = k]
  /\ socketByTunnelKey' = [socketByTunnelKey EXCEPT ![k] = s]
  /\ ownershipBySubdomain' = [ownershipBySubdomain EXCEPT ![k] = Principal[s]]

\* A fresh access token guards the port until a caller opens its link.
GuardPort(s, k) ==
  IF IpProtection
  THEN /\ ipAccessByToken' = ipAccessByToken \cup {s}
       /\ ipTokenByTunnelKey' = [ipTokenByTunnelKey EXCEPT ![k] = s]
  ELSE UNCHANGED accessVars

\* mutant of UnguardPort: the token is deleted, the map by key is not
UnguardPortMutant(s, k) ==
  /\ ipAccessByToken' = IF IpProtection THEN ipAccessByToken \ {s}
                                         ELSE ipAccessByToken
  /\ UNCHANGED ipTokenByTunnelKey

\* Clean-up of the access token when the port could not be bound.
UnguardPort(s, k) ==
  IF IpProtection
  THEN /\ ipAccessByToken' = ipAccessByToken \ {s}
       /\ ipTokenByTunnelKey' = [ipTokenByTunnelKey EXCEPT ![k] = None]
  ELSE UNCHANGED accessVars

\* The token sent is reused if it is alive and belongs to the same user.
MayReuse(s) ==
  LET t == redirectToken[s]
  IN  t # None /\ redirectByToken[t] # None
      /\ redirectByToken[t].user = Principal[s]

\* mutant of TokenFor: a token is taken over although nothing is filed under it
TokenForMutant(s) ==
  IF redirectToken[s] # None /\ redirectByToken[redirectToken[s]] = None
  THEN redirectToken[s] ELSE IF MayReuse(s) THEN redirectToken[s] ELSE s

TokenFor(s) == IF MayReuse(s) THEN redirectToken[s] ELSE s

PurgedRedirects(k) ==
  LET t == redirectTokenByTunnelKey[k]
  IN  IF t = None THEN redirectByToken
                  ELSE [redirectByToken EXCEPT ![t] = None]

purgeRedirectForKey(k) ==
  /\ redirectByToken' = PurgedRedirects(k)
  /\ redirectTokenByTunnelKey' = [redirectTokenByTunnelKey EXCEPT ![k] = None]

\* A reused entry shows as offline until the port is bound.
TakeToken(s) ==
  /\ redirectToken' = [redirectToken EXCEPT ![s] = TokenFor(s)]
  /\ redirectByToken' =
       IF MayReuse(s)
       THEN [redirectByToken EXCEPT ![redirectToken[s]].connected = FALSE]
       ELSE redirectByToken

\* mutant of Announce: the entry's subdomain is read off the key, whatever it is
AnnounceMutant(s, t, k, port) ==
  LET old   == redirectByToken[t]
      entry == IF old # None THEN old
               ELSE [tunnelKey |-> k, user |-> Principal[s], subdomain |-> k[2],
                     publicTcpPort |-> port, connected |-> TRUE]
  IN  /\ redirectByToken' = [redirectByToken EXCEPT ![t] = entry]
      /\ redirectTokenByTunnelKey' =
           [redirectTokenByTunnelKey EXCEPT ![k] = t]
      /\ redirectToken' = [redirectToken EXCEPT ![s] = t]
      /\ GoTo(s, Ended(s, "registered"))

(***************************************************************************)
(* The end of a registration: the redirect entry of token t is created, or *)
(* updated, and "registered" is sent.  A reused entry keeps its tunnelKey; *)
(* a port-only registration leaves its subdomain alone.                    *)
(***************************************************************************)
Announce(s, t, k, port) ==
  LET old   == redirectByToken[t]
      fresh == [tunnelKey |-> k, user |-> Principal[s], subdomain |-> None,
                publicTcpPort |-> None, connected |-> FALSE]
      entry == IF old = None THEN fresh ELSE old
  IN  /\ redirectByToken' =
           [redirectByToken EXCEPT ![t] =
              [entry EXCEPT !.subdomain = IF Synthetic(k) THEN @ ELSE k[2],
                            !.publicTcpPort = port,
                            !.connected = TRUE]]
      /\ redirectTokenByTunnelKey' =
           [redirectTokenByTunnelKey EXCEPT ![k] = t]
      /\ redirectToken' = [redirectToken EXCEPT ![s] = t]
      /\ GoTo(s, Ended(s, "registered"))

\* mutant of AwaitPooled: the key's existing binding is not looked up
AwaitPooledMutant(s, k, next) ==
  /\ \E p \in Port :
       /\ Ports!allocatable(p)
       /\ reservedTcpPorts' = reservedTcpPorts \cup {p}
       /\ listens' = listens \cup {[key |-> k, port |-> p, socket |-> s]}
  /\ UNCHANGED <<usedTcpPorts, tcpBindingsBySubdomain, openServers>>
  /\ GoTo(s, next)

\* bindTcpTunnel or bindHttpPortTunnel from the pool, up to its await.
AwaitPooled(s, k, next) == Ports!BindPooled(k, s) /\ GoTo(s, next)

PoolEmpty == Ports!Free = {}

BoundPort(k) == CHOOSE p \in Port : \E srv \in Ports!BindingsAt({k}) : srv.port = p

ListenOf(s) == {srv \in listens : srv.socket = s}

(***************************************************************************)
(* listen() succeeds for the port that is, or belongs to, a TCP tunnel.    *)
(***************************************************************************)
Listening(s) ==
  /\ stage[s] \in {"listen_fixed", "listen_port", "listen_tcp"}
  /\ \E srv \in ListenOf(s) :
       /\ Ports!ListenSucceeds(srv)
       /\ Announce(s, redirectToken[s], srv.key, srv.port)
  /\ UNCHANGED <<readyState, request, sessions, routeVars, accessVars,
                 asyncVars>>

-----------------------------------------------------------------------------
(***************************************************************************)
(* The fixed-port path: findByLocalPort answers with an enabled mapping to *)
(* p, and p is free.                                                       *)
(***************************************************************************)
RegisterFixed(s, p) ==
  LET k == PortKey(p)
  IN  /\ stage[s] = "mapping"
      /\ p \in FixedPort
      /\ Track(s, k)
      /\ GuardPort(s, k)
      /\ redirectToken' = [redirectToken EXCEPT ![s] = TokenFor(s)]
      /\ IF MayReuse(s)
         THEN /\ redirectByToken' =
                   [redirectByToken EXCEPT ![redirectToken[s]].connected = FALSE]
              /\ UNCHANGED redirectTokenByTunnelKey
         ELSE purgeRedirectForKey(k)
      /\ Ports!BindFixed(k, p, s)
      /\ GoTo(s, "listen_fixed")
      /\ UNCHANGED <<readyState, request, sessions, asyncVars>>

\* No mapping, a disabled one, one whose port is taken, or a failed lookup.
NoMapping(s) ==
  /\ stage[s] = "mapping"
  /\ GoTo(s, "claim")
  /\ UNCHANGED <<readyState, request, redirectToken, sessions, portVars,
                 routeVars, accessVars, redirectVars, asyncVars>>

\* The fixed-port path undoes the access token only.
FixedFailed(s) ==
  /\ stage[s] = "listen_fixed"
  /\ \E srv \in ListenOf(s) :
       Ports!ListenFails(srv) /\ UnguardPort(s, srv.key)
  /\ GoTo(s, Ended(s, "refused"))
  /\ UNCHANGED <<readyState, request, redirectToken, sessions, routeVars,
                 redirectVars, asyncVars>>

-----------------------------------------------------------------------------
(***************************************************************************)
(* The port-only path: HTTP without the subdomain entitlement.             *)
(***************************************************************************)
PortOnlyWanted(s) ==
  /\ stage[s] = "entitlement"
  /\ ~ request[s].tcp /\ request[s].sub = None

RegisterPortOnly(s) ==
  /\ PortOnlyWanted(s)
  /\ \E p \in Port :
       LET k == PortKey(p)
       IN  /\ Ports!allocatable(p)
           /\ Track(s, k)
           /\ GuardPort(s, k)
           /\ Ports!BindFixed(k, p, s)
  /\ TakeToken(s)
  /\ GoTo(s, "listen_port")
  /\ UNCHANGED <<readyState, request, sessions, redirectTokenByTunnelKey,
                 asyncVars>>

RefusePortOnly(s) ==
  /\ PortOnlyWanted(s)
  /\ PoolEmpty
  /\ GoTo(s, Ended(s, "refused"))
  /\ UNCHANGED <<readyState, request, redirectToken, sessions, portVars,
                 routeVars, accessVars, redirectVars, asyncVars>>

\* mutant of PortOnlyFailed: the key is left filed under the refused socket
PortOnlyFailedMutant(s) ==
  /\ stage[s] = "listen_port"
  /\ \E srv \in ListenOf(s) :
       LET k == srv.key
       IN  /\ Ports!ListenFails(srv)
           /\ UnguardPort(s, k)
           /\ socketSubdomain' = [socketSubdomain EXCEPT ![s] = None]
           /\ ownershipBySubdomain' = [ownershipBySubdomain EXCEPT ![k] = None]
           /\ purgeRedirectForKey(k)
  /\ GoTo(s, Ended(s, "refused"))
  /\ UNCHANGED <<readyState, request, redirectToken, sessions,
                 socketByTunnelKey, asyncVars>>

\* The port-only path undoes the registration by its key.
PortOnlyFailed(s) ==
  /\ stage[s] = "listen_port"
  /\ \E srv \in ListenOf(s) :
       LET k == srv.key
       IN  /\ Ports!ListenFails(srv)
           /\ UnguardPort(s, k)
           /\ socketSubdomain' = [socketSubdomain EXCEPT ![s] = None]
           /\ socketByTunnelKey' = [socketByTunnelKey EXCEPT ![k] = None]
           /\ ownershipBySubdomain' = [ownershipBySubdomain EXCEPT ![k] = None]
           /\ purgeRedirectForKey(k)
  /\ GoTo(s, Ended(s, "refused"))
  /\ UNCHANGED <<readyState, request, redirectToken, sessions, asyncVars>>

-----------------------------------------------------------------------------
(***************************************************************************)
(* The normal path: a session of the registry, and one or two ports.       *)
(* registry.assignExact or registry.assign answers.                        *)
(***************************************************************************)

\* Taken here or on another node, or no name free after the attempts.
ClaimFails(s) ==
  /\ stage[s] = "claim"
  /\ GoTo(s, Ended(s, "refused"))
  /\ UNCHANGED <<readyState, request, redirectToken, sessions, portVars,
                 routeVars, accessVars, redirectVars, asyncVars>>

Claims(s, x) ==
  /\ stage[s] = "claim"
  /\ sessions[x] = None
  /\ request[s].sub \in {None, x}
  /\ Track(s, SubKey(x))
  /\ UNCHANGED <<readyState, request, asyncVars>>

Hold(s, x)     == sessions' = [sessions EXCEPT ![x] = s]

\* mutant of RemoveBySocket: a socket that is still open keeps its sessions
RemoveBySocketMutant(s) ==
  [x \in Sub |-> IF sessions[x] = s /\ readyState[s] # "OPEN"
                 THEN None ELSE sessions[x]]

RemoveBySocket(s) ==
  [x \in Sub |-> IF sessions[x] = s THEN None ELSE sessions[x]]

(***************************************************************************)
(* A TCP tunnel: one port under the subdomain's key.  A key that is still  *)
(* bound is answered with the existing port.                               *)
(***************************************************************************)
ClaimTcp(s, x) ==
  LET k == SubKey(x)
  IN  /\ Claims(s, x)
      /\ request[s].tcp
      /\ \/ /\ Hold(s, x) /\ GuardPort(s, k) /\ TakeToken(s)
            /\ AwaitPooled(s, k, "listen_tcp")
            /\ UNCHANGED redirectTokenByTunnelKey
         \/ /\ Ports!Bound(k)
            /\ Hold(s, x) /\ GuardPort(s, k)
            /\ Announce(s, TokenFor(s), k, BoundPort(k))
            /\ UNCHANGED portVars
         \/ /\ ~ Ports!Bound(k) /\ PoolEmpty
            /\ UNCHANGED <<sessions, portVars, ipAccessByToken,
                           redirectTokenByTunnelKey>>
            /\ ipTokenByTunnelKey' =
                 IF IpProtection THEN [ipTokenByTunnelKey EXCEPT ![k] = None]
                                 ELSE ipTokenByTunnelKey
            /\ TakeToken(s)
            /\ GoTo(s, Ended(s, "refused"))

\* The normal path undoes the access token and the registry's session only.
TcpFailed(s) ==
  /\ stage[s] = "listen_tcp"
  /\ \E srv \in ListenOf(s) :
       Ports!ListenFails(srv) /\ UnguardPort(s, srv.key)
  /\ sessions' = RemoveBySocket(s)
  /\ GoTo(s, Ended(s, "refused"))
  /\ UNCHANGED <<readyState, request, redirectToken, routeVars, redirectVars,
                 asyncVars>>

(***************************************************************************)
(* An HTTP tunnel that did not ask for a subdomain also gets a public HTTP *)
(* port (httpPublicPortMode); then --with-port adds a raw port.            *)
(***************************************************************************)
ClaimHttp(s, x) ==
  LET k == SubKey(x)
  IN  /\ Claims(s, x)
      /\ ~ request[s].tcp /\ request[s].sub = None
      /\ TakeToken(s)
      /\ \/ Hold(s, x) /\ AwaitPooled(s, k, "listen_http")
         \/ /\ Ports!Bound(k)
            /\ Hold(s, x) /\ GoTo(s, "http_bound")
            /\ UNCHANGED portVars
         \/ /\ ~ Ports!Bound(k) /\ PoolEmpty
            /\ GoTo(s, Ended(s, "refused"))
            /\ UNCHANGED <<sessions, portVars>>
      /\ UNCHANGED <<accessVars, redirectTokenByTunnelKey>>

HttpListening(s) ==
  /\ stage[s] = "listen_http"
  /\ \E srv \in ListenOf(s) : Ports!ListenSucceeds(srv)
  /\ GoTo(s, "http_bound")
  /\ UNCHANGED <<readyState, request, redirectToken, sessions, routeVars,
                 accessVars, redirectVars, asyncVars>>

HttpFailed(s) ==
  /\ stage[s] = "listen_http"
  /\ \E srv \in ListenOf(s) : Ports!ListenFails(srv)
  /\ sessions' = RemoveBySocket(s)
  /\ GoTo(s, Ended(s, "refused"))
  /\ UNCHANGED <<readyState, request, redirectToken, routeVars, accessVars,
                 redirectVars, asyncVars>>

\* The raw port is optional: without one the tunnel is announced all the same.
NoDedicated(s, k) ==
  \/ ~ request[s].dedicated
  \/ ~ Ports!Bound(Dedicated(k)) /\ PoolEmpty

ClaimRequested(s, x) ==
  LET k == SubKey(x)
  IN  /\ Claims(s, x)
      /\ ~ request[s].tcp /\ request[s].sub = x
      /\ Hold(s, x)
      /\ \/ /\ request[s].dedicated
            /\ AwaitPooled(s, Dedicated(k), "listen_dedicated")
            /\ TakeToken(s) /\ UNCHANGED redirectTokenByTunnelKey
         \/ /\ request[s].dedicated /\ Ports!Bound(Dedicated(k))
            /\ Announce(s, TokenFor(s), k, BoundPort(Dedicated(k)))
            /\ UNCHANGED portVars
         \/ /\ NoDedicated(s, k)
            /\ Announce(s, TokenFor(s), k, None)
            /\ UNCHANGED portVars
      /\ UNCHANGED accessVars

HttpContinues(s) ==
  LET k == socketSubdomain[s]
  IN  /\ stage[s] = "http_bound"
      /\ \/ /\ request[s].dedicated
            /\ AwaitPooled(s, Dedicated(k), "listen_dedicated")
            /\ UNCHANGED <<redirectToken, redirectVars>>
         \/ /\ request[s].dedicated /\ Ports!Bound(Dedicated(k))
            /\ Announce(s, redirectToken[s], k, BoundPort(Dedicated(k)))
            /\ UNCHANGED portVars
         \/ /\ NoDedicated(s, k)
            /\ Announce(s, redirectToken[s], k, None)
            /\ UNCHANGED portVars
      /\ UNCHANGED <<readyState, request, sessions, routeVars, accessVars,
                     asyncVars>>

DedicatedListening(s) ==
  /\ stage[s] = "listen_dedicated"
  /\ \E srv \in ListenOf(s) :
       \/ /\ Ports!ListenSucceeds(srv)
          /\ Announce(s, redirectToken[s], socketSubdomain[s], srv.port)
       \/ /\ Ports!ListenFails(srv)
          /\ Announce(s, redirectToken[s], socketSubdomain[s], None)
  /\ UNCHANGED <<readyState, request, sessions, routeVars, accessVars,
                 asyncVars>>

-----------------------------------------------------------------------------
(***************************************************************************)
(* The end of a socket.                                                    *)
(***************************************************************************)

\* socket.close(): the idle timeout, a revoked API key, a forgotten device.
GatewayCloses(s) ==
  /\ readyState[s] = "OPEN" /\ stage[s] # "auth"
  /\ readyState' = [readyState EXCEPT ![s] = "CLOSING"]
  /\ UNCHANGED <<stage, request, redirectToken, sessions, portVars, routeVars,
                 accessVars, redirectVars, asyncVars>>

\* mutant of Evict: the session is forgotten, its socket is not terminated
EvictMutant(x) ==
  /\ sessions[x] # None
  /\ sessions' = [sessions EXCEPT ![x] = None]
  /\ UNCHANGED <<socketVars, portVars, routeVars, accessVars, redirectVars,
                 asyncVars>>

\* forceCloseLocalEntry: the session is stale or its lease is lost.
Evict(x) ==
  LET s == sessions[x]
  IN  /\ s # None
      /\ sessions' = [sessions EXCEPT ![x] = None]
      /\ readyState' = [readyState EXCEPT ![s] = Closing(s)]
      /\ UNCHANGED <<stage, request, redirectToken, portVars, routeVars,
                     accessVars, redirectVars, asyncVars>>

(***************************************************************************)
(* The close handler tears down what is filed under the socket's key.  The *)
(* redirect entry of a synthetic key is purged; that of a subdomain is     *)
(* marked offline until the tunnel store says whether it is reserved.      *)
(***************************************************************************)
TearDown(s, k) ==
  LET t == redirectTokenByTunnelKey[k]
      a == ipTokenByTunnelKey[k]
  IN  /\ ownershipBySubdomain' = [ownershipBySubdomain EXCEPT ![k] = None]
      /\ socketByTunnelKey' = [socketByTunnelKey EXCEPT ![k] = None]
      /\ Ports!Release({k, Dedicated(k)})
      /\ IF t = None \/ redirectByToken[t] = None
         THEN UNCHANGED <<redirectVars, offlineLookups>>
         ELSE IF Synthetic(k)
         THEN purgeRedirectForKey(k) /\ UNCHANGED offlineLookups
         ELSE /\ redirectByToken' =
                   [redirectByToken EXCEPT ![t].connected = FALSE]
              /\ offlineLookups' = offlineLookups \cup {k}
              /\ UNCHANGED redirectTokenByTunnelKey
      /\ ipAccessByToken' = ipAccessByToken \ {a}
      /\ ipTokenByTunnelKey' = [ipTokenByTunnelKey EXCEPT ![k] = None]

Closed(s) ==
  /\ readyState[s] \in {"OPEN", "CLOSING"}
  /\ readyState' = [readyState EXCEPT ![s] = "CLOSED"]
  /\ IF stage[s] \in {"auth", "gone"}   \* no close listener
     THEN UNCHANGED <<stage, sessions, portVars, routeVars, accessVars,
                      redirectVars, offlineLookups>>
     ELSE /\ sessions' = RemoveBySocket(s)
          /\ stage' = [stage EXCEPT ![s] = IF @ \in InFlight THEN @ ELSE "gone"]
          /\ UNCHANGED socketSubdomain
          /\ IF socketSubdomain[s] = None
             THEN UNCHANGED <<portVars, socketByTunnelKey, ownershipBySubdomain,
                              accessVars, redirectVars, offlineLookups>>
             ELSE TearDown(s, socketSubdomain[s])
  /\ UNCHANGED <<request, redirectToken, revokes>>

\* store.findBySubdomain answers the close handler; an error is no answer.
OfflineLookedUp(k, reserved) ==
  /\ k \in offlineLookups
  /\ offlineLookups' = offlineLookups \ {k}
  /\ IF reserved THEN UNCHANGED redirectVars ELSE purgeRedirectForKey(k)
  /\ UNCHANGED <<socketVars, sessions, portVars, routeVars, accessVars, revokes>>

\* redirectSweep, for one entry that has been offline for a day.
SweepRedirect(t) ==
  /\ redirectByToken[t] # None
  /\ ~ redirectByToken[t].connected
  /\ redirectByToken' = [redirectByToken EXCEPT ![t] = None]
  /\ redirectTokenByTunnelKey' =
       [redirectTokenByTunnelKey EXCEPT ![redirectByToken[t].tunnelKey] = None]
  /\ UNCHANGED <<socketVars, sessions, portVars, routeVars, accessVars,
                 asyncVars>>

-----------------------------------------------------------------------------
(***************************************************************************)
(* DELETE /api/tunnels/:id.                                                *)
(***************************************************************************)

\* revokeLiveTunnel's socket: the one filed under the key, or its session's.
SocketOf(k) ==
  IF socketByTunnelKey[k] # None THEN socketByTunnelKey[k]
  ELSE IF Synthetic(k) THEN None ELSE sessions[k[2]]

revokeLiveTunnel(k) ==
  LET s == SocketOf(k)
  IN  readyState' = IF s = None THEN readyState
                    ELSE [readyState EXCEPT ![s] = Closing(s)]

\* The id the tunnel list shows for a redirect entry.
ListedId(entry) ==
  IF entry.subdomain # None THEN SubKey(entry.subdomain)
  ELSE IF entry.publicTcpPort # None THEN PortKey(entry.publicTcpPort)
  ELSE None

EntriesOf(id) ==
  {redirectByToken[t] : t \in {u \in Token :
     redirectByToken[u] # None /\ ListedId(redirectByToken[u]) = id}}

(***************************************************************************)
(* A live session without a reservation.  The id is resolved to the key    *)
(* and the owner of the entry that shows it; an id no entry shows is the   *)
(* key.  The handler then awaits the server's close and forgets the owner. *)
(***************************************************************************)
RemoveSession(u, id) ==
  \E target \in {<<e.tunnelKey, e.user>> : e \in EntriesOf(id)} \cup
                (IF EntriesOf(id) = {}
                 THEN {<<id, ownershipBySubdomain[id]>>} ELSE {}) :
    LET k == target[1]
    IN  /\ target[2] = u
        /\ revokeLiveTunnel(k)
        /\ purgeRedirectForKey(k)
        /\ Ports!Release({k})
        /\ IF Ports!Bound(k)
           THEN revokes' = revokes \cup {k} /\ UNCHANGED ownershipBySubdomain
           ELSE /\ ownershipBySubdomain' =
                     [ownershipBySubdomain EXCEPT ![k] = None]
                /\ UNCHANGED revokes
        /\ UNCHANGED <<stage, request, redirectToken, sessions, socketSubdomain,
                       socketByTunnelKey, accessVars, offlineLookups>>

SessionRemoved(k) ==
  /\ k \in revokes
  /\ revokes' = revokes \ {k}
  /\ ownershipBySubdomain' = [ownershipBySubdomain EXCEPT ![k] = None]
  /\ UNCHANGED <<socketVars, sessions, portVars, socketSubdomain,
                 socketByTunnelKey, accessVars, redirectVars, offlineLookups>>

\* A reservation of the tunnel store for x, deleted with its live tunnel.
RemoveReserved(x) ==
  LET k == SubKey(x)
  IN  /\ revokeLiveTunnel(k)
      /\ purgeRedirectForKey(k)
      /\ Ports!Release({k})
      /\ UNCHANGED <<stage, request, redirectToken, sessions, routeVars,
                     accessVars, asyncVars>>

-----------------------------------------------------------------------------
\* The handlers that an answer (of a store, the registry, listen()) resumes.
Resumed(s) ==
  \/ Authenticated(s)
  \/ Unauthorized(s)
  \/ \E allowed \in BOOLEAN : EntitlementRead(s, allowed)
  \/ RegisterPortOnly(s)
  \/ RefusePortOnly(s)
  \/ PortOnlyFailed(s)
  \/ \E p \in Port : RegisterFixed(s, p)
  \/ NoMapping(s)
  \/ FixedFailed(s)
  \/ ClaimFails(s)
  \/ \E x \in Sub : ClaimTcp(s, x) \/ ClaimHttp(s, x) \/ ClaimRequested(s, x)
  \/ Listening(s)
  \/ TcpFailed(s)
  \/ HttpListening(s)
  \/ HttpFailed(s)
  \/ HttpContinues(s)
  \/ DedicatedListening(s)

(***************************************************************************)
(* Node resolves an address without leaving the turn: the answer to        *)
(* listen() then precedes every later event (a frame, a close, a request,  *)
(* a timer), and only handlers resumed in the same turn run before it.     *)
(* A name is looked up first, and anything can happen meanwhile.  Whoever  *)
(* has the port of bindHttpPortTunnel goes on in the same turn.            *)
(***************************************************************************)
EventTurn ==
  /\ BindHostIsAddress => listens = {}
  /\ \A s \in Socket : stage[s] # "http_bound"

Next ==
  \/ \E s \in Socket : Resumed(s)
  \/ /\ EventTurn
     /\ \/ \E s \in Socket : Connect(s)
        \/ \E s \in Socket, r \in Request, t \in KnownTokens \cup {None} :
             Register(s, r, t)
        \/ \E s \in Socket : GatewayCloses(s)
        \/ \E s \in Socket : Closed(s)
        \/ \E x \in Sub : Evict(x)
        \/ \E k \in TunnelKey, reserved \in BOOLEAN : OfflineLookedUp(k, reserved)
        \/ \E t \in Token : SweepRedirect(t)
        \/ \E u \in User, id \in TunnelKey : RemoveSession(u, id)
        \/ \E k \in TunnelKey : SessionRemoved(k)
        \/ \E x \in Sub : RemoveReserved(x)

Spec == Init /\ [][Next]_vars

-----------------------------------------------------------------------------
TypeOK ==
  /\ Ports!TypeOK
  /\ readyState \in [Socket -> {"NONE", "OPEN", "CLOSING", "CLOSED"}]
  /\ stage \in [Socket -> Stage]
  /\ request \in [Socket -> Request \cup {None}]
  /\ redirectToken \in [Socket -> Token \cup {None}]
  /\ sessions \in [Sub -> Socket \cup {None}]
  /\ socketSubdomain \in [Socket -> TunnelKey \cup {None}]
  /\ socketByTunnelKey \in [TunnelKey -> Socket \cup {None}]
  /\ ownershipBySubdomain \in [TunnelKey -> User \cup {None}]
  /\ ipAccessByToken \subseteq Socket
  /\ ipTokenByTunnelKey \in [TunnelKey -> Socket \cup {None}]
  /\ redirectByToken \in [Token -> RedirectEntry \cup {None}]
  /\ redirectTokenByTunnelKey \in [TunnelKey -> Token \cup {None}]
  /\ offlineLookups \subseteq TunnelKey
  /\ revokes \subseteq TunnelKey

(***************************************************************************)
(* The port books of PublicPorts, whose theorems hold for every behaviour  *)
(* of it, are what the handlers work on: every step of a handler is a step *)
(* of the books or leaves them alone.                                      *)
(***************************************************************************)
PortsSpec == Ports!Spec

(***************************************************************************)
(* A revocation by key reaches a socket that itself believes in that key:  *)
(* socketByTunnelKey and the registry never point at a socket that has     *)
(* registered as something else, or has undone its registration.           *)
(***************************************************************************)
RouteConsistent ==
  /\ \A k \in TunnelKey : socketByTunnelKey[k] # None =>
       socketSubdomain[socketByTunnelKey[k]] = k
  /\ \A x \in Sub : sessions[x] # None =>
       socketSubdomain[sessions[x]] = SubKey(x)

BaseKey(k) == IF k[1] = "dedicated" THEN k[2] ELSE k

(***************************************************************************)
(* One tenant's public port or subdomain never carries another tenant's    *)
(* live socket: whenever a key has an owner on file, the open sockets that *)
(* its servers and its session forward to are that owner's, however        *)
(* evictions, late closes, failed binds and new registrations of the same  *)
(* key interleave.                                                         *)
(***************************************************************************)
TenantIsolation ==
  LET owns(k, s) == \/ readyState[s] # "OPEN"
                    \/ ownershipBySubdomain[k] \in {None, Principal[s]}
  IN  /\ \A srv \in tcpBindingsBySubdomain : owns(BaseKey(srv.key), srv.socket)
      /\ \A x \in Sub : sessions[x] # None => owns(SubKey(x), sessions[x])

(***************************************************************************)
(* A socket whose close handler ran after its registration was settled     *)
(* holds nothing: no port forwards to it, no session and no key names it.  *)
(* The comment at server.ts:2226 promises this of every socket; see        *)
(* ClosedHoldsNothing.                                                     *)
(***************************************************************************)
Holds(s) ==
  \/ \E srv \in tcpBindingsBySubdomain : srv.socket = s
  \/ \E x \in Sub : sessions[x] = s
  \/ \E k \in TunnelKey : socketByTunnelKey[k] = s

GoneHoldsNothing == \A s \in Socket : stage[s] = "gone" => ~ Holds(s)

(***************************************************************************)
(* A server that listens is filed under its key, so that whoever releases  *)
(* the key (a close, a DELETE, a failed bind) closes it.  A key that two   *)
(* binds await would lose the first server when the second is recorded:    *)
(* nothing would ever close it.  The bound keys are looked up before a     *)
(* bind, so that takes a second bind of the key during the await, after a  *)
(* close; it cannot come if the bind host is an address.                   *)
(***************************************************************************)
ServersAreFiled == openServers \subseteq tcpBindingsBySubdomain

(***************************************************************************)
(* Knowing a redirect token, which is part of a public URL, is not enough  *)
(* to take it over: whatever is registered with it, an entry stays with    *)
(* the user of the registration that drew the token (server.ts:2571).      *)
(***************************************************************************)
NoRedirectHijack ==
  \A t \in Token : redirectByToken[t] # None =>
    redirectByToken[t].user = Principal[t]

(***************************************************************************)
(* The access token filed under a key is alive, so the close of the tunnel *)
(* really withdraws the link that opens its port.                          *)
(***************************************************************************)
AccessTokenAlive ==
  \A k \in TunnelKey : ipTokenByTunnelKey[k] # None =>
    ipTokenByTunnelKey[k] \in ipAccessByToken

-----------------------------------------------------------------------------
(***************************************************************************)
(* What the code's comments and documents say, and the code does not do.   *)
(***************************************************************************)

(***************************************************************************)
(* "close the control socket (its close handler tears down TCP bindings,   *)
(* registry lease, ...)" (server.ts:2228): when a socket has closed and    *)
(* its handlers have ended, no server forwards to it and no session names  *)
(* it.                                                                     *)
(***************************************************************************)
ClosedHoldsNothing ==
  \A s \in Socket : stage[s] \in {"gone", "orphan"} /\ readyState[s] = "CLOSED" =>
    ~ Holds(s)

(***************************************************************************)
(* "the listing, revocation and DELETE machinery treats it identically --  *)
(* visible in every panel and revocable by both the owner and admins"      *)
(* (server.ts:2644): a port-only tunnel that is registered and connected   *)
(* is filed under its key, with its owner.                                 *)
(***************************************************************************)
LiveTunnelRevocable ==
  \A s \in Socket :
    LET k == socketSubdomain[s]
    IN  stage[s] = "registered" /\ readyState[s] = "OPEN" /\ Synthetic(k) =>
          socketByTunnelKey[k] = s /\ ownershipBySubdomain[k] = Principal[s]

(***************************************************************************)
(* "Deleting a tunnel in the console tells the connected client to stop    *)
(* immediately" (README.md): the DELETE of an id closes the connected      *)
(* sockets whose entry the list shows under that id and that serve it.     *)
(***************************************************************************)
Serves(s, id) ==
  IF Synthetic(id) THEN \E srv \in tcpBindingsBySubdomain :
                          srv.key = id /\ srv.socket = s
                   ELSE sessions[id[2]] = s

DeleteStopsTheClient ==
  [][\A u \in User, id \in TunnelKey : RemoveSession(u, id) =>
       \A s \in Socket :
         stage[s] = "registered" /\ Principal[s] = u /\ Serves(s, id) =>
           readyState'[s] # "OPEN"]_vars
=============================================================================
