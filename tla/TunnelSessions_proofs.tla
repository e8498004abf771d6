------------------------ MODULE TunnelSessions_proofs ------------------------
(***************************************************************************)
(* The handlers of every number of sockets, users, subdomains and ports    *)
(* keep their maps well typed, and use the books of ports only as          *)
(* PublicPorts allows: TunnelSessions implements it, so what is proved of  *)
(* the books there holds of the whole gateway.                             *)
(*                                                                         *)
(* TypeOK is not inductive: a handler resumed by listen() trusts that the  *)
(* server it reads is the one it began, and that its socket still has a    *)
(* key.  ListensOK says so.                                                *)
(*                                                                         *)
(* On top of this come tenants, keys, sessions and redirect entries, from  *)
(* the invariants RInv and TInv further down.                              *)
(***************************************************************************)
EXTENDS TunnelSessions, TLAPS

ListenStage == {"listen_fixed", "listen_port", "listen_tcp", "listen_http",
                "listen_dedicated"}

SocketsOK ==
  /\ readyState \in [Socket -> {"NONE", "OPEN", "CLOSING", "CLOSED"}]
  /\ stage \in [Socket -> Stage]
  /\ request \in [Socket -> Request \cup {None}]
  /\ redirectToken \in [Socket -> Token \cup {None}]

RoutesOK ==
  /\ sessions \in [Sub -> Socket \cup {None}]
  /\ socketSubdomain \in [Socket -> TunnelKey \cup {None}]
  /\ socketByTunnelKey \in [TunnelKey -> Socket \cup {None}]
  /\ ownershipBySubdomain \in [TunnelKey -> User \cup {None}]

AccessOK ==
  /\ ipAccessByToken \subseteq Socket
  /\ ipTokenByTunnelKey \in [TunnelKey -> Socket \cup {None}]

RedirectsOK ==
  /\ redirectByToken \in [Token -> RedirectEntry \cup {None}]
  /\ redirectTokenByTunnelKey \in [TunnelKey -> Token \cup {None}]

AsyncOK == offlineLookups \subseteq TunnelKey /\ revokes \subseteq TunnelKey

(***************************************************************************)
(* What the resumed handlers rely on: a bind in flight is the one its      *)
(* socket waits for, and the key it was begun under is still the socket's. *)
(***************************************************************************)
ListensOK ==
  /\ \A srv \in listens :
       /\ stage[srv.socket] \in ListenStage
       /\ stage[srv.socket] # "listen_dedicated" => srv.key \in TunnelKey
  /\ \A a, b \in listens : a.socket = b.socket => a = b
  /\ \A s \in Socket :
       stage[s] \in {"listen_http", "http_bound", "listen_dedicated"} =>
         socketSubdomain[s] \in TunnelKey

IInv == TypeOK /\ ListensOK

\* TypeOK, by the group of maps a handler may change.
LEMMA TypeParts ==
  TypeOK <=> /\ Ports!TypeOK /\ SocketsOK /\ RoutesOK /\ AccessOK
             /\ RedirectsOK /\ AsyncOK
  BY DEF TypeOK, SocketsOK, RoutesOK, AccessOK, RedirectsOK, AsyncOK

\* The same for the next state.
LEMMA TypePartsPrime ==
  TypeOK' <=> /\ Ports!TypeOK' /\ SocketsOK' /\ RoutesOK' /\ AccessOK'
              /\ RedirectsOK' /\ AsyncOK'
  BY DEF TypeOK, SocketsOK, RoutesOK, AccessOK, RedirectsOK, AsyncOK

-----------------------------------------------------------------------------
\* The key of a subdomain is a tunnel key, from which it can be read off.
LEMMA SubKeyFacts ==
  ASSUME NEW x \in Sub
  PROVE  SubKey(x) \in TunnelKey /\ ~ Synthetic(SubKey(x)) /\ SubKey(x)[2] = x
  BY DEF SubKey, TunnelKey, Synthetic

\* The key of a port is a tunnel key, and synthetic.
LEMMA PortKeyFacts ==
  ASSUME NEW p \in Port
  PROVE  PortKey(p) \in TunnelKey /\ Synthetic(PortKey(p))
  BY DEF PortKey, TunnelKey, Synthetic

\* A tunnel key may be bound, and so may its raw port's.
LEMMA TunnelKeyFacts ==
  ASSUME NEW k \in TunnelKey
  PROVE  /\ k \in Key /\ Dedicated(k) \in Key
         /\ ~ Synthetic(k) => k[2] \in Sub
  BY DEF SubKey, PortKey, TunnelKey, Synthetic, Key

\* No socket, user, subdomain or port is the absent value.
LEMMA NoneFacts == None \notin Socket \cup User \cup Sub \cup Port
  BY SessionAssumption

-----------------------------------------------------------------------------
\* A bind that begins is a step of the books, and well typed.
LEMMA BeginBindType ==
  ASSUME Ports!TypeOK, NEW k \in Key, NEW p \in Port, NEW s \in Socket,
         Ports!BeginBind(k, p, s)
  PROVE  /\ Ports!TypeOK'
         /\ Ports!Next
         /\ listens' = listens \cup {[key |-> k, port |-> p, socket |-> s]}
<1>1. [key |-> k, port |-> p, socket |-> s] \in Ports!Server
  BY DEF Ports!Server
<1>2. Ports!Next
  BY DEF Ports!Next, Ports!BindFixed
<1> QED
  BY <1>1, <1>2 DEF Ports!TypeOK, Ports!BeginBind

\* So is a listen() that succeeds; its server was in flight.
LEMMA ListenSucceedsType ==
  ASSUME Ports!TypeOK, NEW srv, Ports!ListenSucceeds(srv)
  PROVE  /\ Ports!TypeOK'
         /\ Ports!Next
         /\ srv \in Ports!Server /\ srv \in listens
         /\ listens' = listens \ {srv}
<1>1. srv \in listens /\ srv \in Ports!Server
  BY DEF Ports!ListenSucceeds, Ports!TypeOK
<1>2. srv.port \in Port
  BY <1>1 DEF Ports!Server
<1>3. Ports!Next
  BY <1>1 DEF Ports!Next
<1> QED
  BY <1>1, <1>2, <1>3 DEF Ports!TypeOK, Ports!ListenSucceeds, Ports!BindingsAt

\* So is a listen() that fails.
LEMMA ListenFailsType ==
  ASSUME Ports!TypeOK, NEW srv, Ports!ListenFails(srv)
  PROVE  /\ Ports!TypeOK'
         /\ Ports!Next
         /\ srv \in Ports!Server /\ srv \in listens
         /\ listens' = listens \ {srv}
<1>1. srv \in listens /\ srv \in Ports!Server
  BY DEF Ports!ListenFails, Ports!TypeOK
<1>2. Ports!Next
  BY <1>1 DEF Ports!Next
<1> QED
  BY <1>1, <1>2 DEF Ports!TypeOK, Ports!ListenFails

\* So is a release, which touches no bind in flight.
LEMMA ReleaseType ==
  ASSUME Ports!TypeOK, NEW keys \in SUBSET Key, Ports!Release(keys)
  PROVE  Ports!TypeOK' /\ Ports!Next /\ listens' = listens
  BY DEF Ports!TypeOK, Ports!Release, Ports!BindingsAt, Ports!Next

\* A key that is bound has a port to report.
LEMMA BoundPortType ==
  ASSUME Ports!TypeOK, NEW k, Ports!Bound(k)
  PROVE  BoundPort(k) \in Port
<1>1. PICK srv \in Ports!BindingsAt({k}) : TRUE
  BY DEF Ports!Bound
<1>2. srv \in Ports!Server
  BY DEF Ports!TypeOK, Ports!BindingsAt
<1>3. srv.port \in Port
  BY <1>2 DEF Ports!Server
<1> QED
  BY <1>3 DEF BoundPort

-----------------------------------------------------------------------------
\* The announcement of a registration writes a redirect entry and ends it.
LEMMA AnnounceType ==
  ASSUME SocketsOK, RedirectsOK, NEW s \in Socket, NEW t \in Token \cup {None},
         NEW k \in TunnelKey, NEW port \in Port \cup {None},
         Announce(s, t, k, port)
  PROVE  /\ RedirectsOK'
         /\ redirectToken' \in [Socket -> Token \cup {None}]
         /\ \/ stage' = [stage EXCEPT ![s] = "registered"]
            \/ stage' = [stage EXCEPT ![s] = "orphan"]
<1>1. CASE t = None
  <2>1. redirectByToken' = redirectByToken
    BY <1>1, NoneFacts DEF Announce, RedirectsOK, Token
  <2> QED
    BY <1>1, <2>1 DEF Announce, RedirectsOK, SocketsOK, GoTo, Ended
<1>2. CASE t \in Token
  <2> DEFINE old   == redirectByToken[t]
             fresh == [tunnelKey |-> k, user |-> Principal[s], subdomain |-> None,
                       publicTcpPort |-> None, connected |-> FALSE]
             entry == IF old = None THEN fresh ELSE old
             new   == [entry EXCEPT !.subdomain = IF Synthetic(k) THEN @ ELSE k[2],
                                    !.publicTcpPort = port,
                                    !.connected = TRUE]
  <2>1. fresh \in RedirectEntry
    BY SessionAssumption DEF RedirectEntry
  <2>2. entry \in RedirectEntry
    BY <1>2, <2>1 DEF RedirectsOK
  <2>3. new \in RedirectEntry
    BY <2>2, TunnelKeyFacts DEF RedirectEntry
  <2>4. /\ redirectByToken' = [redirectByToken EXCEPT ![t] = new]
        /\ redirectTokenByTunnelKey' = [redirectTokenByTunnelKey EXCEPT ![k] = t]
        /\ redirectToken' = [redirectToken EXCEPT ![s] = t]
        /\ stage' = [stage EXCEPT ![s] = Ended(s, "registered")]
    BY DEF Announce, GoTo
  <2> HIDE DEF new
  <2> QED
    BY <1>2, <2>3, <2>4 DEF RedirectsOK, SocketsOK, Ended
<1> QED
  BY <1>1, <1>2

\* A fresh access token is well typed.
LEMMA GuardPortType ==
  ASSUME AccessOK, NEW s \in Socket, NEW k \in TunnelKey, GuardPort(s, k)
  PROVE  AccessOK'
  BY DEF AccessOK, GuardPort, accessVars

\* So is the clean-up of one.
LEMMA UnguardPortType ==
  ASSUME AccessOK, NEW s \in Socket, NEW k \in TunnelKey, UnguardPort(s, k)
  PROVE  AccessOK'
  BY DEF AccessOK, UnguardPort, accessVars

\* So is the purge of a key's redirect entry.
LEMMA PurgeType ==
  ASSUME RedirectsOK, NEW k \in TunnelKey, purgeRedirectForKey(k)
  PROVE  RedirectsOK'
  BY DEF RedirectsOK, purgeRedirectForKey, PurgedRedirects

\* The token of a registration is one that was drawn.
LEMMA TokenForType ==
  ASSUME SocketsOK, NEW s \in Socket
  PROVE  /\ TokenFor(s) \in Token
         /\ MayReuse(s) => redirectToken[s] \in Token
  BY DEF SocketsOK, TokenFor, MayReuse, Token

\* An entry marked offline is an entry.
LEMMA DisconnectedType ==
  ASSUME RedirectsOK, NEW t \in Token, redirectByToken[t] # None
  PROVE  [redirectByToken EXCEPT ![t].connected = FALSE]
           \in [Token -> RedirectEntry \cup {None}]
<1>1. [redirectByToken[t] EXCEPT !.connected = FALSE] \in RedirectEntry
  BY DEF RedirectsOK, RedirectEntry
<1> QED
  BY <1>1 DEF RedirectsOK

\* Taking a token keeps the redirect entries well typed.
LEMMA TakeTokenType ==
  ASSUME SocketsOK, RedirectsOK, NEW s \in Socket, TakeToken(s)
  PROVE  /\ redirectToken' \in [Socket -> Token \cup {None}]
         /\ redirectByToken' \in [Token -> RedirectEntry \cup {None}]
<1>1. redirectToken' \in [Socket -> Token \cup {None}]
  BY TokenForType DEF TakeToken, SocketsOK
<1>2. CASE MayReuse(s)
  <2>1. /\ redirectToken[s] \in Token
        /\ redirectByToken[redirectToken[s]] # None
    BY <1>2, TokenForType DEF MayReuse
  <2> QED
    BY <1>1, <1>2, <2>1, DisconnectedType DEF TakeToken
<1>3. CASE ~ MayReuse(s)
  BY <1>1, <1>3 DEF TakeToken, RedirectsOK
<1> QED
  BY <1>2, <1>3

\* Filing a socket under a key keeps the maps of routes well typed.
LEMMA TrackType ==
  ASSUME RoutesOK, NEW s \in Socket, NEW k \in TunnelKey, Track(s, k)
  PROVE  /\ socketSubdomain' \in [Socket -> TunnelKey \cup {None}]
         /\ socketSubdomain' = [socketSubdomain EXCEPT ![s] = k]
         /\ socketByTunnelKey' \in [TunnelKey -> Socket \cup {None}]
         /\ ownershipBySubdomain' \in [TunnelKey -> User \cup {None}]
  BY SessionAssumption DEF Track, RoutesOK

-----------------------------------------------------------------------------
(***************************************************************************)
(* How ListensOK is kept.                                                  *)
(***************************************************************************)
Named(s) == stage[s] \in {"listen_http", "http_bound", "listen_dedicated"} =>
              socketSubdomain[s] \in TunnelKey

\* ListensOK when no bind begins and no handler with one moves.
LEMMA ListensKept ==
  ASSUME IInv, listens' \subseteq listens,
         \A srv \in listens' : stage'[srv.socket] = stage[srv.socket],
         \A s \in Socket : Named(s)'
  PROVE  ListensOK'
  BY DEF IInv, ListensOK, Named

\* ListensOK when a handler that has no bind begins one.
LEMMA ListenBegins ==
  ASSUME IInv, NEW s \in Socket, NEW k \in Key, NEW p \in Port,
         NEW n \in ListenStage, stage[s] \notin ListenStage,
         stage' = [stage EXCEPT ![s] = n],
         listens' = listens \cup {[key |-> k, port |-> p, socket |-> s]},
         n # "listen_dedicated" => k \in TunnelKey,
         \A z \in Socket \ {s} : socketSubdomain'[z] = socketSubdomain[z],
         n \in {"listen_http", "listen_dedicated"} =>
           socketSubdomain'[s] \in TunnelKey
  PROVE  ListensOK'
<1> DEFINE new == [key |-> k, port |-> p, socket |-> s]
<1>1. stage \in [Socket -> Stage]
  BY DEF IInv, TypeOK
<1>2. \A srv \in listens : srv.socket # s /\ stage'[srv.socket] = stage[srv.socket]
  BY <1>1 DEF IInv, ListensOK, TypeOK, Ports!TypeOK, Ports!Server
<1>3. new.socket = s /\ new.key = k /\ stage'[s] = n
  BY <1>1
<1> HIDE DEF new
<1>4. \A srv \in listens' :
        /\ stage'[srv.socket] \in ListenStage
        /\ stage'[srv.socket] # "listen_dedicated" => srv.key \in TunnelKey
  BY <1>2, <1>3 DEF IInv, ListensOK, new
<1>5. \A a, b \in listens' : a.socket = b.socket => a = b
  BY <1>2, <1>3 DEF IInv, ListensOK, new
<1>6. \A z \in Socket : stage'[z] \in {"listen_http", "http_bound", "listen_dedicated"} =>
        socketSubdomain'[z] \in TunnelKey
  BY <1>1, <1>3 DEF IInv, ListensOK, ListenStage
<1> QED
  BY <1>4, <1>5, <1>6 DEF ListensOK

\* ListensOK when the bind of a handler ends, and the handler goes on.
LEMMA ListenEnds ==
  ASSUME IInv, NEW s \in Socket, NEW srv \in ListenOf(s), NEW n \in Stage,
         stage' = [stage EXCEPT ![s] = n],
         listens' = listens \ {srv},
         \A z \in Socket : Named(z)'
  PROVE  ListensOK'
<1>1. stage \in [Socket -> Stage]
  BY DEF IInv, TypeOK
<1>2. \A a \in listens' : a.socket # s
  BY DEF IInv, ListensOK, ListenOf
<1>3. \A a \in listens' : stage'[a.socket] = stage[a.socket]
  BY <1>1, <1>2 DEF IInv, TypeOK, Ports!TypeOK, Ports!Server
<1> QED
  BY <1>3, ListensKept

-----------------------------------------------------------------------------
(***************************************************************************)
(* One lemma for each action: it keeps IInv, and is a step of the books of *)
(* ports or leaves them alone.                                             *)
(***************************************************************************)
PortsStep == Ports!Next \/ UNCHANGED portVars

\* IInv of the next state, from its parts.
LEMMA PartsSuffice ==
  ASSUME Ports!TypeOK', SocketsOK', RoutesOK', AccessOK', RedirectsOK', AsyncOK',
         ListensOK'
  PROVE  IInv'
  BY TypePartsPrime DEF IInv

\* IInv holds when the gateway starts.
LEMMA InitInv == Init => IInv
  BY NoneFacts DEF Init, IInv, TypeOK, ListensOK, Ports!Init, Ports!TypeOK, Stage

\* A step that leaves the books alone keeps their types.
LEMMA PortsUnchanged ==
  ASSUME IInv, UNCHANGED portVars
  PROVE  Ports!TypeOK' /\ PortsStep /\ listens' = listens
  BY DEF IInv, TypeOK, Ports!TypeOK, portVars, PortsStep

\* A handler waits for something else than listen(), or ends.
LEMMA QuietStep ==
  ASSUME IInv, NEW s \in Socket, NEW n \in Stage \ (ListenStage \cup {"http_bound"}),
         stage[s] \notin ListenStage,
         stage' = [stage EXCEPT ![s] = n],
         readyState' \in [Socket -> {"NONE", "OPEN", "CLOSING", "CLOSED"}],
         request' \in [Socket -> Request \cup {None}],
         redirectToken' \in [Socket -> Token \cup {None}],
         UNCHANGED <<sessions, portVars, routeVars, accessVars, redirectVars,
                     asyncVars>>
  PROVE  IInv' /\ PortsStep
<1>1. Ports!TypeOK' /\ PortsStep /\ listens' = listens
  BY PortsUnchanged
<1>2. SocketsOK'
  BY DEF IInv, TypeOK, SocketsOK
<1>3. RoutesOK' /\ AccessOK' /\ RedirectsOK' /\ AsyncOK'
  BY DEF IInv, TypeOK, RoutesOK, AccessOK, RedirectsOK, AsyncOK, routeVars,
         accessVars, redirectVars, asyncVars
<1>4. stage \in [Socket -> Stage]
  BY DEF IInv, TypeOK
<1>5. \A srv \in listens' : stage'[srv.socket] = stage[srv.socket]
  BY <1>1, <1>4 DEF IInv, ListensOK
<1>6. \A z \in Socket : Named(z)'
  BY <1>4 DEF IInv, ListensOK, Named, ListenStage, routeVars
<1>7. ListensOK'
  BY <1>1, <1>5, <1>6, ListensKept
<1> QED
  BY <1>1, <1>2, <1>3, <1>7, PartsSuffice

\* A registration that ends after its socket's close ends as an orphan.
LEMMA EndedStage ==
  ASSUME NEW s, NEW n
  PROVE  Ended(s, n) \in {n, "orphan"}
  BY DEF Ended

\* The handlers before a tunnel key is chosen, and the refusals.
LEMMA BeforeRegistration ==
  ASSUME IInv, NEW s \in Socket,
         \/ Connect(s)
         \/ Authenticated(s)
         \/ Unauthorized(s)
         \/ \E r \in Request, t \in KnownTokens \cup {None} : Register(s, r, t)
         \/ \E allowed \in BOOLEAN : EntitlementRead(s, allowed)
         \/ RefusePortOnly(s)
         \/ NoMapping(s)
         \/ ClaimFails(s)
  PROVE  IInv' /\ PortsStep
<1> USE DEF GoTo, ListenStage, Stage, InFlight
<1>1. SocketsOK
  BY DEF IInv, TypeOK, SocketsOK
<1>2. CASE Connect(s)
  BY <1>1, <1>2, QuietStep DEF Connect, SocketsOK
<1>3. CASE Authenticated(s)
  BY <1>1, <1>3, QuietStep DEF Authenticated, SocketsOK
<1>4. CASE Unauthorized(s)
  BY <1>1, <1>4, QuietStep DEF Unauthorized, SocketsOK, Closing
<1>5. CASE \E r \in Request, t \in KnownTokens \cup {None} : Register(s, r, t)
  <2>1. PICK r \in Request, t \in KnownTokens \cup {None} : Register(s, r, t)
    BY <1>5
  <2>2. t \in Token \cup {None}
    BY <1>1 DEF KnownTokens, SocketsOK
  <2> QED
    BY <1>1, <2>1, <2>2, QuietStep DEF Register, SocketsOK
<1>6. CASE \E allowed \in BOOLEAN : EntitlementRead(s, allowed)
  <2>1. PICK n \in {"mapping", "claim", "refused", "orphan"} :
          stage' = [stage EXCEPT ![s] = n]
    BY <1>6, EndedStage DEF EntitlementRead
  <2> QED
    BY <1>1, <1>6, <2>1, QuietStep DEF EntitlementRead, SocketsOK
<1>7. CASE RefusePortOnly(s) \/ ClaimFails(s)
  <2>1. PICK n \in {"refused", "orphan"} : stage' = [stage EXCEPT ![s] = n]
    BY <1>7, EndedStage DEF RefusePortOnly, ClaimFails
  <2> QED
    BY <1>1, <1>7, <2>1, QuietStep
    DEF RefusePortOnly, PortOnlyWanted, ClaimFails, SocketsOK
<1>8. CASE NoMapping(s)
  BY <1>1, <1>8, QuietStep DEF NoMapping, SocketsOK
<1> QED
  BY <1>2, <1>3, <1>4, <1>5, <1>6, <1>7, <1>8

\* The fixed-port path up to its await.
LEMMA RegisterFixedStep ==
  ASSUME IInv, NEW s \in Socket, NEW p \in Port, RegisterFixed(s, p)
  PROVE  IInv' /\ PortsStep
<1> DEFINE k == PortKey(p)
<1>1. /\ Ports!TypeOK /\ SocketsOK /\ RoutesOK /\ AccessOK /\ RedirectsOK
      /\ AsyncOK /\ k \in TunnelKey /\ k \in Key
  BY TypeParts, PortKeyFacts, TunnelKeyFacts DEF IInv
<1>2. /\ stage[s] = "mapping" /\ stage' = [stage EXCEPT ![s] = "listen_fixed"]
      /\ Track(s, k) /\ GuardPort(s, k) /\ Ports!BeginBind(k, p, s)
      /\ UNCHANGED <<readyState, request, sessions, asyncVars>>
  BY DEF RegisterFixed, Ports!BindFixed, GoTo
<1> HIDE DEF k
<1>3. /\ Ports!TypeOK' /\ PortsStep
      /\ listens' = listens \cup {[key |-> k, port |-> p, socket |-> s]}
  BY <1>1, <1>2, BeginBindType DEF PortsStep
<1>4. SocketsOK'
  BY <1>1, <1>2, TokenForType DEF RegisterFixed, SocketsOK, Stage, InFlight
<1>5. /\ socketSubdomain' = [socketSubdomain EXCEPT ![s] = k]
      /\ RoutesOK'
  BY <1>1, <1>2, TrackType DEF RoutesOK
<1>6. AccessOK'
  BY <1>1, <1>2, GuardPortType
<1>7. RedirectsOK'
  <2>1. CASE MayReuse(s)
    <3>1. redirectToken[s] \in Token /\ redirectByToken[redirectToken[s]] # None
      BY <1>1, <2>1, TokenForType DEF MayReuse
    <3>2. redirectByToken' \in [Token -> RedirectEntry \cup {None}]
      BY <1>1, <2>1, <3>1, DisconnectedType DEF RegisterFixed
    <3> QED
      BY <1>1, <2>1, <3>2 DEF RegisterFixed, RedirectsOK
  <2>2. CASE ~ MayReuse(s)
    BY <1>1, <2>2, PurgeType DEF RegisterFixed, k
  <2> QED
    BY <2>1, <2>2
<1>8. AsyncOK'
  BY <1>1, <1>2 DEF AsyncOK, asyncVars
<1>9. ListensOK'
  BY <1>1, <1>2, <1>3, <1>5, ListenBegins DEF ListenStage, RoutesOK
<1> QED
  BY <1>3, <1>4, <1>5, <1>6, <1>7, <1>8, <1>9, PartsSuffice

\* The port-only path up to its await.
LEMMA RegisterPortOnlyStep ==
  ASSUME IInv, NEW s \in Socket, RegisterPortOnly(s)
  PROVE  IInv' /\ PortsStep
<1>1. PICK p \in Port :
        LET k == PortKey(p)
        IN  Track(s, k) /\ GuardPort(s, k) /\ Ports!BeginBind(k, p, s)
  BY DEF RegisterPortOnly, Ports!BindFixed
<1> DEFINE k == PortKey(p)
<1>2. /\ Ports!TypeOK /\ SocketsOK /\ RoutesOK /\ AccessOK /\ RedirectsOK
      /\ AsyncOK /\ k \in TunnelKey /\ k \in Key
  BY TypeParts, PortKeyFacts, TunnelKeyFacts DEF IInv
<1>3. /\ stage[s] = "entitlement" /\ stage' = [stage EXCEPT ![s] = "listen_port"]
      /\ Track(s, k) /\ GuardPort(s, k) /\ Ports!BeginBind(k, p, s)
      /\ TakeToken(s)
      /\ UNCHANGED <<readyState, request, sessions, redirectTokenByTunnelKey,
                     asyncVars>>
  BY <1>1 DEF RegisterPortOnly, PortOnlyWanted, GoTo
<1> HIDE DEF k
<1>4. /\ Ports!TypeOK' /\ PortsStep
      /\ listens' = listens \cup {[key |-> k, port |-> p, socket |-> s]}
  BY <1>2, <1>3, BeginBindType DEF PortsStep
<1>5. SocketsOK' /\ RedirectsOK'
  BY <1>2, <1>3, TakeTokenType DEF SocketsOK, RedirectsOK, Stage, InFlight
<1>6. socketSubdomain' = [socketSubdomain EXCEPT ![s] = k] /\ RoutesOK'
  BY <1>2, <1>3, TrackType DEF RoutesOK
<1>7. AccessOK' /\ AsyncOK'
  BY <1>2, <1>3, GuardPortType DEF AsyncOK, asyncVars
<1>8. ListensOK'
  BY <1>2, <1>3, <1>4, <1>6, ListenBegins DEF ListenStage, RoutesOK
<1> QED
  BY <1>4, <1>5, <1>6, <1>7, <1>8, PartsSuffice

\* A listen() of s ends: the books, ListensOK, and the key of a bound tunnel.
LEMMA ListenEndsFacts ==
  ASSUME IInv, NEW s \in Socket, NEW srv \in ListenOf(s), NEW n \in Stage,
         Ports!ListenSucceeds(srv) \/ Ports!ListenFails(srv),
         stage' = [stage EXCEPT ![s] = n],
         n \notin ListenStage,
         \/ n # "http_bound" /\ socketSubdomain' = [socketSubdomain EXCEPT ![s] = None]
         \/ /\ socketSubdomain' = socketSubdomain
            /\ n = "http_bound" => stage[s] = "listen_http"
  PROVE  Ports!TypeOK' /\ PortsStep /\ ListensOK'
<1>1. Ports!TypeOK' /\ PortsStep /\ listens' = listens \ {srv}
  BY ListenSucceedsType, ListenFailsType, TypeParts DEF IInv, PortsStep
<1>2. stage \in [Socket -> Stage] /\ socketSubdomain \in [Socket -> TunnelKey \cup {None}]
  BY DEF IInv, TypeOK
<1>3. \A z \in Socket : Named(z)'
  BY <1>2 DEF IInv, ListensOK, Named, ListenStage
<1> QED
  BY <1>1, <1>3, ListenEnds

\* The port of a TCP or port-only tunnel is bound.
LEMMA ListeningStep ==
  ASSUME IInv, NEW s \in Socket, Listening(s)
  PROVE  IInv' /\ PortsStep
<1>1. PICK srv \in ListenOf(s) :
        /\ Ports!ListenSucceeds(srv)
        /\ Announce(s, redirectToken[s], srv.key, srv.port)
  BY DEF Listening
<1>2. /\ Ports!TypeOK /\ SocketsOK /\ RoutesOK /\ AccessOK /\ RedirectsOK /\ AsyncOK
  BY TypeParts DEF IInv
<1>3. srv.key \in TunnelKey /\ srv.port \in Port /\ redirectToken[s] \in Token \cup {None}
  BY <1>2 DEF IInv, ListensOK, ListenOf, Listening, Ports!TypeOK, Ports!Server, SocketsOK
<1>4. /\ RedirectsOK'
      /\ redirectToken' \in [Socket -> Token \cup {None}]
      /\ \/ stage' = [stage EXCEPT ![s] = "registered"]
         \/ stage' = [stage EXCEPT ![s] = "orphan"]
  BY <1>1, <1>2, <1>3, AnnounceType
<1>5. UNCHANGED <<readyState, request, sessions, routeVars, accessVars, asyncVars>>
  BY DEF Listening
<1>6. SocketsOK' /\ RoutesOK' /\ AccessOK' /\ AsyncOK'
  BY <1>2, <1>4, <1>5 DEF SocketsOK, RoutesOK, AccessOK, AsyncOK, routeVars,
     accessVars, asyncVars, Stage
<1>7. Ports!TypeOK' /\ PortsStep /\ ListensOK'
  BY <1>1, <1>4, <1>5, ListenEndsFacts DEF Stage, ListenStage, routeVars
<1> QED
  BY <1>4, <1>6, <1>7, PartsSuffice

\* It is not, on each of the three paths.
LEMMA PortFailedStep ==
  ASSUME IInv, NEW s \in Socket, FixedFailed(s) \/ PortOnlyFailed(s) \/ TcpFailed(s)
  PROVE  IInv' /\ PortsStep
<1>1. PICK srv \in ListenOf(s) : Ports!ListenFails(srv) /\ UnguardPort(s, srv.key)
  BY DEF FixedFailed, PortOnlyFailed, TcpFailed
<1>2. /\ Ports!TypeOK /\ SocketsOK /\ RoutesOK /\ AccessOK /\ RedirectsOK /\ AsyncOK
  BY TypeParts DEF IInv
<1>3. stage[s] \in {"listen_fixed", "listen_port", "listen_tcp"}
  BY DEF FixedFailed, PortOnlyFailed, TcpFailed
<1>4. srv.key \in TunnelKey /\ \A a \in ListenOf(s) : a = srv
  BY <1>3 DEF IInv, ListensOK, ListenOf
<1>5. PICK n \in {"refused", "orphan"} : stage' = [stage EXCEPT ![s] = n]
  BY EndedStage DEF FixedFailed, PortOnlyFailed, TcpFailed, GoTo
<1>6. SocketsOK' /\ AsyncOK' /\ AccessOK'
  BY <1>1, <1>2, <1>4, <1>5, UnguardPortType DEF SocketsOK, AsyncOK, asyncVars,
     FixedFailed, PortOnlyFailed, TcpFailed, Stage
<1>7. CASE FixedFailed(s) \/ TcpFailed(s)
  <2>1. RoutesOK' /\ RedirectsOK' /\ socketSubdomain' = socketSubdomain
    BY <1>2, <1>7 DEF FixedFailed, TcpFailed, RoutesOK, RedirectsOK, routeVars,
       redirectVars, RemoveBySocket
  <2>2. Ports!TypeOK' /\ PortsStep /\ ListensOK'
    BY <1>1, <1>5, <2>1, ListenEndsFacts DEF Stage, InFlight, ListenStage
  <2> QED
    BY <1>6, <2>1, <2>2, PartsSuffice
<1>8. CASE PortOnlyFailed(s)
  <2>1. /\ socketSubdomain' = [socketSubdomain EXCEPT ![s] = None]
        /\ socketByTunnelKey' = [socketByTunnelKey EXCEPT ![srv.key] = None]
        /\ ownershipBySubdomain' = [ownershipBySubdomain EXCEPT ![srv.key] = None]
        /\ purgeRedirectForKey(srv.key)
        /\ UNCHANGED sessions
    BY <1>4, <1>8 DEF PortOnlyFailed
  <2>2. RoutesOK' /\ RedirectsOK'
    BY <1>2, <1>4, <2>1, PurgeType DEF RoutesOK
  <2>3. Ports!TypeOK' /\ PortsStep /\ ListensOK'
    BY <1>1, <1>5, <2>1, ListenEndsFacts DEF Stage, InFlight, ListenStage
  <2> QED
    BY <1>6, <2>2, <2>3, PartsSuffice
<1> QED
  BY <1>7, <1>8

\* The public HTTP port of a tunnel is bound, or is not.
LEMMA HttpAnsweredStep ==
  ASSUME IInv, NEW s \in Socket, HttpListening(s) \/ HttpFailed(s)
  PROVE  IInv' /\ PortsStep
<1>1. PICK srv \in ListenOf(s) : Ports!ListenSucceeds(srv) \/ Ports!ListenFails(srv)
  BY DEF HttpListening, HttpFailed
<1>2. /\ Ports!TypeOK /\ SocketsOK /\ RoutesOK /\ AccessOK /\ RedirectsOK /\ AsyncOK
  BY TypeParts DEF IInv
<1>3. stage[s] = "listen_http"
  BY DEF HttpListening, HttpFailed
<1>4. PICK n \in {"http_bound", "refused", "orphan"} : stage' = [stage EXCEPT ![s] = n]
  BY EndedStage DEF HttpListening, HttpFailed, GoTo
<1>5. SocketsOK' /\ AsyncOK' /\ AccessOK' /\ RoutesOK' /\ RedirectsOK'
  BY <1>2, <1>4 DEF SocketsOK, AsyncOK, asyncVars, AccessOK, accessVars, RoutesOK,
     routeVars, RedirectsOK, redirectVars, HttpListening, HttpFailed,
     RemoveBySocket, Stage, InFlight
<1>6. socketSubdomain' = socketSubdomain
  BY DEF HttpListening, HttpFailed, routeVars
<1>7. Ports!TypeOK' /\ PortsStep /\ ListensOK'
  BY <1>1, <1>3, <1>4, <1>6, ListenEndsFacts DEF Stage, InFlight, ListenStage
<1> QED
  BY <1>5, <1>7, PartsSuffice

\* The raw port of an HTTP tunnel is bound, or is not.
LEMMA DedicatedListeningStep ==
  ASSUME IInv, NEW s \in Socket, DedicatedListening(s)
  PROVE  IInv' /\ PortsStep
<1>1. PICK srv \in ListenOf(s) :
        /\ Ports!ListenSucceeds(srv) \/ Ports!ListenFails(srv)
        /\ \/ Announce(s, redirectToken[s], socketSubdomain[s], srv.port)
           \/ Announce(s, redirectToken[s], socketSubdomain[s], None)
  BY DEF DedicatedListening
<1>2. /\ Ports!TypeOK /\ SocketsOK /\ RoutesOK /\ AccessOK /\ RedirectsOK /\ AsyncOK
  BY TypeParts DEF IInv
<1>3. /\ socketSubdomain[s] \in TunnelKey /\ srv.port \in Port
      /\ redirectToken[s] \in Token \cup {None}
  BY <1>2 DEF IInv, ListensOK, ListenOf, DedicatedListening, Ports!TypeOK,
     Ports!Server, SocketsOK
<1>4. /\ RedirectsOK'
      /\ redirectToken' \in [Socket -> Token \cup {None}]
      /\ \/ stage' = [stage EXCEPT ![s] = "registered"]
         \/ stage' = [stage EXCEPT ![s] = "orphan"]
  BY <1>1, <1>2, <1>3, AnnounceType
<1>5. UNCHANGED <<readyState, request, sessions, routeVars, accessVars, asyncVars>>
  BY DEF DedicatedListening
<1>6. SocketsOK' /\ RoutesOK' /\ AccessOK' /\ AsyncOK'
  BY <1>2, <1>4, <1>5 DEF SocketsOK, RoutesOK, AccessOK, AsyncOK, routeVars,
     accessVars, asyncVars, Stage
<1>7. Ports!TypeOK' /\ PortsStep /\ ListensOK'
  BY <1>1, <1>4, <1>5, ListenEndsFacts DEF Stage, ListenStage, routeVars
<1> QED
  BY <1>4, <1>6, <1>7, PartsSuffice

\* Facts of a bind from the pool, on behalf of s, whose key is then nk.
LEMMA AwaitPooledFacts ==
  ASSUME IInv, NEW s \in Socket, NEW k \in Key, NEW n \in ListenStage,
         stage[s] \notin ListenStage,
         AwaitPooled(s, k, n),
         n # "listen_dedicated" => k \in TunnelKey,
         \A z \in Socket \ {s} : socketSubdomain'[z] = socketSubdomain[z],
         socketSubdomain'[s] \in TunnelKey
  PROVE  /\ Ports!TypeOK' /\ PortsStep /\ ListensOK'
         /\ stage' = [stage EXCEPT ![s] = n]
<1>1. PICK p \in Port : Ports!BeginBind(k, p, s)
  BY DEF AwaitPooled, Ports!BindPooled
<1>2. stage' = [stage EXCEPT ![s] = n]
  BY DEF AwaitPooled, GoTo
<1>3. /\ Ports!TypeOK' /\ PortsStep
      /\ listens' = listens \cup {[key |-> k, port |-> p, socket |-> s]}
  BY <1>1, TypeParts, BeginBindType DEF IInv, PortsStep
<1>4. ListensOK'
  BY <1>2, <1>3, ListenBegins
<1> QED
  BY <1>2, <1>3, <1>4

\* A registration that goes on without a bind leaves the books as they are.
LEMMA NoBindFacts ==
  ASSUME IInv, NEW s \in Socket, NEW n \in Stage \ ListenStage,
         stage[s] \notin ListenStage, UNCHANGED portVars,
         stage' = [stage EXCEPT ![s] = n],
         \A z \in Socket \ {s} : socketSubdomain'[z] = socketSubdomain[z],
         n = "http_bound" => socketSubdomain'[s] \in TunnelKey
  PROVE  Ports!TypeOK' /\ PortsStep /\ ListensOK'
<1>1. Ports!TypeOK' /\ PortsStep /\ listens' = listens
  BY PortsUnchanged
<1>2. stage \in [Socket -> Stage]
  BY DEF IInv, TypeOK
<1>3. \A srv \in listens' : stage'[srv.socket] = stage[srv.socket]
  BY <1>1, <1>2 DEF IInv, ListensOK
<1>4. \A z \in Socket : Named(z)'
  BY <1>2 DEF IInv, ListensOK, Named, ListenStage
<1> QED
  BY <1>1, <1>3, <1>4, ListensKept

\* A claim that the registry granted files the socket under the subdomain.
LEMMA ClaimsFacts ==
  ASSUME IInv, NEW s \in Socket, NEW x \in Sub, Claims(s, x),
         sessions' \in [Sub -> Socket \cup {None}]
  PROVE  /\ RoutesOK' /\ AsyncOK'
         /\ stage[s] = "claim"
         /\ UNCHANGED <<readyState, request>>
         /\ socketSubdomain' = [socketSubdomain EXCEPT ![s] = SubKey(x)]
         /\ socketSubdomain'[s] \in TunnelKey
         /\ \A z \in Socket \ {s} : socketSubdomain'[z] = socketSubdomain[z]
<1>1. RoutesOK /\ AsyncOK /\ SubKey(x) \in TunnelKey
  BY TypeParts, SubKeyFacts DEF IInv
<1>2. /\ Track(s, SubKey(x)) /\ stage[s] = "claim"
      /\ UNCHANGED <<readyState, request, asyncVars>>
  BY DEF Claims
<1>3. RoutesOK' /\ socketSubdomain' = [socketSubdomain EXCEPT ![s] = SubKey(x)]
  BY <1>1, <1>2, TrackType DEF RoutesOK
<1> QED
  BY <1>1, <1>2, <1>3 DEF RoutesOK, AsyncOK, asyncVars

\* A TCP tunnel after its claim: a bind, an existing binding, no port left.
LEMMA ClaimTcpStep ==
  ASSUME IInv, NEW s \in Socket, NEW x \in Sub, ClaimTcp(s, x)
  PROVE  IInv' /\ PortsStep
<1> DEFINE k == SubKey(x)
<1>1. /\ Ports!TypeOK /\ SocketsOK /\ RoutesOK /\ AccessOK /\ RedirectsOK
      /\ AsyncOK /\ k \in TunnelKey /\ k \in Key /\ None \notin Token
  BY TypeParts, SubKeyFacts, TunnelKeyFacts, NoneFacts DEF IInv, Token
<1>2. Claims(s, x)
  BY DEF ClaimTcp
<1>3. sessions' \in [Sub -> Socket \cup {None}]
  BY <1>1 DEF ClaimTcp, Hold, RoutesOK
<1>4. /\ RoutesOK' /\ AsyncOK'
      /\ stage[s] = "claim"
      /\ UNCHANGED <<readyState, request>>
      /\ socketSubdomain'[s] \in TunnelKey
      /\ \A z \in Socket \ {s} : socketSubdomain'[z] = socketSubdomain[z]
  BY <1>2, <1>3, ClaimsFacts
<1>5. \/ /\ GuardPort(s, k) /\ TakeToken(s)
         /\ AwaitPooled(s, k, "listen_tcp")
         /\ UNCHANGED redirectTokenByTunnelKey
      \/ /\ Ports!Bound(k) /\ GuardPort(s, k)
         /\ Announce(s, TokenFor(s), k, BoundPort(k))
         /\ UNCHANGED portVars
      \/ /\ UNCHANGED <<portVars, ipAccessByToken, redirectTokenByTunnelKey>>
         /\ ipTokenByTunnelKey' =
              IF IpProtection THEN [ipTokenByTunnelKey EXCEPT ![k] = None]
                              ELSE ipTokenByTunnelKey
         /\ TakeToken(s)
         /\ GoTo(s, Ended(s, "refused"))
  BY DEF ClaimTcp
<1> HIDE DEF k
<1>6. CASE /\ GuardPort(s, k) /\ TakeToken(s)
           /\ AwaitPooled(s, k, "listen_tcp")
           /\ UNCHANGED redirectTokenByTunnelKey
  <2>1. /\ Ports!TypeOK' /\ PortsStep /\ ListensOK'
        /\ stage' = [stage EXCEPT ![s] = "listen_tcp"]
    BY <1>1, <1>4, <1>6, AwaitPooledFacts DEF ListenStage
  <2>2. SocketsOK' /\ RedirectsOK' /\ AccessOK'
    BY <1>1, <1>4, <1>6, <2>1, TakeTokenType, GuardPortType
    DEF SocketsOK, RedirectsOK, Stage, InFlight
  <2> QED
    BY <1>4, <2>1, <2>2, PartsSuffice
<1>7. CASE /\ Ports!Bound(k) /\ GuardPort(s, k)
           /\ Announce(s, TokenFor(s), k, BoundPort(k))
           /\ UNCHANGED portVars
  <2>1. TokenFor(s) \in Token \cup {None} /\ BoundPort(k) \in Port \cup {None}
    BY <1>1, <1>7, TokenForType, BoundPortType
  <2>2. /\ RedirectsOK'
        /\ redirectToken' \in [Socket -> Token \cup {None}]
        /\ \/ stage' = [stage EXCEPT ![s] = "registered"]
           \/ stage' = [stage EXCEPT ![s] = "orphan"]
    BY <1>1, <1>7, <2>1, AnnounceType
  <2>3. SocketsOK' /\ AccessOK'
    BY <1>1, <1>4, <1>7, <2>2, GuardPortType DEF SocketsOK, Stage
  <2>4. Ports!TypeOK' /\ PortsStep /\ ListensOK'
    BY <1>4, <1>7, <2>2, NoBindFacts DEF ListenStage, Stage
  <2> QED
    BY <1>4, <2>2, <2>3, <2>4, PartsSuffice
<1>8. CASE /\ UNCHANGED <<portVars, ipAccessByToken, redirectTokenByTunnelKey>>
           /\ ipTokenByTunnelKey' =
                IF IpProtection THEN [ipTokenByTunnelKey EXCEPT ![k] = None]
                                ELSE ipTokenByTunnelKey
           /\ TakeToken(s)
           /\ GoTo(s, Ended(s, "refused"))
  <2>1. PICK n \in {"refused", "orphan"} : stage' = [stage EXCEPT ![s] = n]
    BY <1>8, EndedStage DEF GoTo
  <2>2. Ports!TypeOK' /\ PortsStep /\ ListensOK'
    BY <1>4, <1>8, <2>1, NoBindFacts DEF ListenStage, Stage
  <2>3. SocketsOK' /\ RedirectsOK' /\ AccessOK'
    BY <1>1, <1>4, <1>8, <2>1, TakeTokenType
    DEF SocketsOK, RedirectsOK, AccessOK, Stage
  <2> QED
    BY <1>4, <2>2, <2>3, PartsSuffice
<1> QED
  BY <1>5, <1>6, <1>7, <1>8

\* An HTTP tunnel without a requested subdomain after its claim.
LEMMA ClaimHttpStep ==
  ASSUME IInv, NEW s \in Socket, NEW x \in Sub, ClaimHttp(s, x)
  PROVE  IInv' /\ PortsStep
<1> DEFINE k == SubKey(x)
<1>1. /\ Ports!TypeOK /\ SocketsOK /\ RoutesOK /\ AccessOK /\ RedirectsOK
      /\ AsyncOK /\ k \in TunnelKey /\ k \in Key
  BY TypeParts, SubKeyFacts, TunnelKeyFacts DEF IInv
<1>2. Claims(s, x) /\ TakeToken(s) /\ UNCHANGED <<accessVars, redirectTokenByTunnelKey>>
  BY DEF ClaimHttp
<1>3. sessions' \in [Sub -> Socket \cup {None}]
  BY <1>1 DEF ClaimHttp, Hold, RoutesOK
<1>4. /\ RoutesOK' /\ AsyncOK'
      /\ stage[s] = "claim"
      /\ UNCHANGED <<readyState, request>>
      /\ socketSubdomain'[s] \in TunnelKey
      /\ \A z \in Socket \ {s} : socketSubdomain'[z] = socketSubdomain[z]
  BY <1>2, <1>3, ClaimsFacts
<1>5. AccessOK' /\ RedirectsOK' /\ redirectToken' \in [Socket -> Token \cup {None}]
  BY <1>1, <1>2, TakeTokenType DEF AccessOK, accessVars, RedirectsOK
<1>6. \/ AwaitPooled(s, k, "listen_http")
      \/ UNCHANGED portVars /\ stage' = [stage EXCEPT ![s] = "http_bound"]
      \/ UNCHANGED portVars /\ stage' = [stage EXCEPT ![s] = "refused"]
      \/ UNCHANGED portVars /\ stage' = [stage EXCEPT ![s] = "orphan"]
  BY EndedStage DEF ClaimHttp, GoTo
<1> HIDE DEF k
<1>7. CASE AwaitPooled(s, k, "listen_http")
  <2>1. /\ Ports!TypeOK' /\ PortsStep /\ ListensOK'
        /\ stage' = [stage EXCEPT ![s] = "listen_http"]
    BY <1>1, <1>4, <1>7, AwaitPooledFacts DEF ListenStage
  <2> QED
    BY <1>1, <1>4, <1>5, <2>1, PartsSuffice DEF SocketsOK, Stage, InFlight
<1>8. CASE \E n \in {"http_bound", "refused", "orphan"} :
             UNCHANGED portVars /\ stage' = [stage EXCEPT ![s] = n]
  <2>1. PICK n \in {"http_bound", "refused", "orphan"} :
          UNCHANGED portVars /\ stage' = [stage EXCEPT ![s] = n]
    BY <1>8
  <2>2. Ports!TypeOK' /\ PortsStep /\ ListensOK'
    BY <1>4, <2>1, NoBindFacts DEF ListenStage, Stage, InFlight
  <2> QED
    BY <1>1, <1>4, <1>5, <2>1, <2>2, PartsSuffice DEF SocketsOK, Stage, InFlight
<1> QED
  BY <1>6, <1>7, <1>8

\* An HTTP tunnel with a requested subdomain after its claim.
LEMMA ClaimRequestedStep ==
  ASSUME IInv, NEW s \in Socket, NEW x \in Sub, ClaimRequested(s, x)
  PROVE  IInv' /\ PortsStep
<1> DEFINE k == SubKey(x)
<1>1. /\ Ports!TypeOK /\ SocketsOK /\ RoutesOK /\ AccessOK /\ RedirectsOK
      /\ AsyncOK /\ k \in TunnelKey /\ Dedicated(k) \in Key
  BY TypeParts, SubKeyFacts, TunnelKeyFacts DEF IInv
<1>2. Claims(s, x) /\ UNCHANGED accessVars
  BY DEF ClaimRequested
<1>3. sessions' \in [Sub -> Socket \cup {None}]
  BY <1>1 DEF ClaimRequested, Hold, RoutesOK
<1>4. /\ RoutesOK' /\ AsyncOK' /\ AccessOK'
      /\ stage[s] = "claim"
      /\ UNCHANGED <<readyState, request>>
      /\ socketSubdomain'[s] \in TunnelKey
      /\ \A z \in Socket \ {s} : socketSubdomain'[z] = socketSubdomain[z]
  BY <1>1, <1>2, <1>3, ClaimsFacts DEF AccessOK, accessVars
<1>5. \/ /\ AwaitPooled(s, Dedicated(k), "listen_dedicated")
         /\ TakeToken(s) /\ UNCHANGED redirectTokenByTunnelKey
      \/ /\ Ports!Bound(Dedicated(k))
         /\ Announce(s, TokenFor(s), k, BoundPort(Dedicated(k)))
         /\ UNCHANGED portVars
      \/ Announce(s, TokenFor(s), k, None) /\ UNCHANGED portVars
  BY DEF ClaimRequested
<1> HIDE DEF k
<1>6. CASE /\ AwaitPooled(s, Dedicated(k), "listen_dedicated")
           /\ TakeToken(s) /\ UNCHANGED redirectTokenByTunnelKey
  <2>1. /\ Ports!TypeOK' /\ PortsStep /\ ListensOK'
        /\ stage' = [stage EXCEPT ![s] = "listen_dedicated"]
    BY <1>1, <1>4, <1>6, AwaitPooledFacts DEF ListenStage
  <2>2. SocketsOK' /\ RedirectsOK'
    BY <1>1, <1>4, <1>6, <2>1, TakeTokenType DEF SocketsOK, RedirectsOK, Stage, InFlight
  <2> QED
    BY <1>4, <2>1, <2>2, PartsSuffice
<1>7. CASE \E port \in Port \cup {None} :
             Announce(s, TokenFor(s), k, port) /\ UNCHANGED portVars
  <2>1. PICK port \in Port \cup {None} :
          Announce(s, TokenFor(s), k, port) /\ UNCHANGED portVars
    BY <1>7
  <2>2. /\ RedirectsOK'
        /\ redirectToken' \in [Socket -> Token \cup {None}]
        /\ \/ stage' = [stage EXCEPT ![s] = "registered"]
           \/ stage' = [stage EXCEPT ![s] = "orphan"]
    BY <1>1, <2>1, TokenForType, AnnounceType
  <2>3. Ports!TypeOK' /\ PortsStep /\ ListensOK'
    BY <1>4, <2>1, <2>2, NoBindFacts DEF ListenStage, Stage
  <2> QED
    BY <1>1, <1>4, <2>2, <2>3, PartsSuffice DEF SocketsOK, Stage
<1>8. Ports!Bound(Dedicated(k)) => BoundPort(Dedicated(k)) \in Port
  BY <1>1, BoundPortType
<1> QED
  BY <1>5, <1>6, <1>7, <1>8

\* An HTTP tunnel after its first port: the raw port, or the announcement.
LEMMA HttpContinuesStep ==
  ASSUME IInv, NEW s \in Socket, HttpContinues(s)
  PROVE  IInv' /\ PortsStep
<1> DEFINE k == socketSubdomain[s]
<1>1. /\ stage[s] = "http_bound"
      /\ UNCHANGED <<readyState, request, sessions, routeVars, accessVars, asyncVars>>
  BY DEF HttpContinues
<1>2. /\ Ports!TypeOK /\ SocketsOK /\ RoutesOK /\ AccessOK /\ RedirectsOK /\ AsyncOK
      /\ k \in TunnelKey /\ Dedicated(k) \in Key
      /\ redirectToken[s] \in Token \cup {None}
  BY <1>1, TypeParts, TunnelKeyFacts DEF IInv, ListensOK, SocketsOK
<1>3. /\ RoutesOK' /\ AccessOK' /\ AsyncOK' /\ socketSubdomain' = socketSubdomain
  BY <1>1, <1>2 DEF RoutesOK, AccessOK, AsyncOK, routeVars, accessVars, asyncVars
<1>4. \/ /\ AwaitPooled(s, Dedicated(k), "listen_dedicated")
         /\ UNCHANGED <<redirectToken, redirectVars>>
      \/ /\ Ports!Bound(Dedicated(k))
         /\ Announce(s, redirectToken[s], k, BoundPort(Dedicated(k)))
         /\ UNCHANGED portVars
      \/ Announce(s, redirectToken[s], k, None) /\ UNCHANGED portVars
  BY DEF HttpContinues
<1>5. CASE /\ AwaitPooled(s, Dedicated(k), "listen_dedicated")
           /\ UNCHANGED <<redirectToken, redirectVars>>
  <2>1. /\ Ports!TypeOK' /\ PortsStep /\ ListensOK'
        /\ stage' = [stage EXCEPT ![s] = "listen_dedicated"]
    BY <1>1, <1>2, <1>3, <1>5, AwaitPooledFacts DEF ListenStage
  <2>2. SocketsOK' /\ RedirectsOK'
    BY <1>1, <1>2, <1>5, <2>1 DEF SocketsOK, RedirectsOK, redirectVars, Stage, InFlight
  <2> QED
    BY <1>3, <2>1, <2>2, PartsSuffice
<1>6. CASE \E port \in Port \cup {None} :
             Announce(s, redirectToken[s], k, port) /\ UNCHANGED portVars
  <2>1. PICK port \in Port \cup {None} :
          Announce(s, redirectToken[s], k, port) /\ UNCHANGED portVars
    BY <1>6
  <2>2. /\ RedirectsOK'
        /\ redirectToken' \in [Socket -> Token \cup {None}]
        /\ \/ stage' = [stage EXCEPT ![s] = "registered"]
           \/ stage' = [stage EXCEPT ![s] = "orphan"]
    BY <1>2, <2>1, AnnounceType
  <2>3. Ports!TypeOK' /\ PortsStep /\ ListensOK'
    BY <1>1, <1>3, <2>1, <2>2, NoBindFacts DEF ListenStage, Stage
  <2> QED
    BY <1>1, <1>2, <1>3, <2>2, <2>3, PartsSuffice DEF SocketsOK, Stage
<1>7. Ports!Bound(Dedicated(k)) => BoundPort(Dedicated(k)) \in Port
  BY <1>2, BoundPortType
<1> QED
  BY <1>4, <1>5, <1>6, <1>7

\* No handler moves and no bind begins or ends.
LEMMA StagesKept ==
  ASSUME IInv, listens' = listens, UNCHANGED <<stage, socketSubdomain>>
  PROVE  ListensOK'
  BY DEF IInv, ListensOK

\* A socket told to close is open no longer.
LEMMA ClosingType ==
  ASSUME SocketsOK, NEW s \in Socket
  PROVE  [readyState EXCEPT ![s] = Closing(s)]
           \in [Socket -> {"NONE", "OPEN", "CLOSING", "CLOSED"}]
  BY DEF SocketsOK, Closing

\* The gateway closes a socket.
LEMMA GatewayClosesStep ==
  ASSUME IInv, NEW s \in Socket, GatewayCloses(s)
  PROVE  IInv' /\ PortsStep
<1>1. Ports!TypeOK' /\ PortsStep /\ listens' = listens
  BY PortsUnchanged DEF GatewayCloses
<1>2. ListensOK'
  BY <1>1, StagesKept DEF GatewayCloses, routeVars
<1>3. SocketsOK' /\ RoutesOK' /\ AccessOK' /\ RedirectsOK' /\ AsyncOK'
  BY TypeParts DEF IInv, GatewayCloses, SocketsOK, RoutesOK, AccessOK, RedirectsOK,
     AsyncOK, routeVars, accessVars, redirectVars, asyncVars
<1> QED
  BY <1>1, <1>2, <1>3, PartsSuffice

\* The registry evicts a session.
LEMMA EvictStep ==
  ASSUME IInv, NEW x \in Sub, Evict(x)
  PROVE  IInv' /\ PortsStep
<1>1. Ports!TypeOK' /\ PortsStep /\ listens' = listens
  BY PortsUnchanged DEF Evict
<1>2. ListensOK'
  BY <1>1, StagesKept DEF Evict, routeVars
<1>3. SocketsOK' /\ RoutesOK'
  BY TypeParts, ClosingType DEF IInv, Evict, SocketsOK, RoutesOK, routeVars
<1>4. AccessOK' /\ RedirectsOK' /\ AsyncOK'
  BY TypeParts DEF IInv, Evict, AccessOK, RedirectsOK, AsyncOK, accessVars,
     redirectVars, asyncVars
<1> QED
  BY <1>1, <1>2, <1>3, <1>4, PartsSuffice

\* What the close handler tears down stays well typed.
LEMMA TearDownType ==
  ASSUME IInv, NEW s \in Socket, NEW k \in TunnelKey, TearDown(s, k)
  PROVE  /\ Ports!TypeOK' /\ PortsStep /\ listens' = listens
         /\ AccessOK' /\ RedirectsOK' /\ offlineLookups' \subseteq TunnelKey
         /\ socketByTunnelKey' \in [TunnelKey -> Socket \cup {None}]
         /\ ownershipBySubdomain' \in [TunnelKey -> User \cup {None}]
<1>1. /\ Ports!TypeOK /\ RoutesOK /\ AccessOK /\ RedirectsOK /\ AsyncOK
      /\ {k, Dedicated(k)} \in SUBSET Key
  BY TypeParts, TunnelKeyFacts DEF IInv
<1>2. Ports!TypeOK' /\ PortsStep /\ listens' = listens
  BY <1>1, ReleaseType DEF TearDown, PortsStep
<1>3. /\ AccessOK'
      /\ socketByTunnelKey' \in [TunnelKey -> Socket \cup {None}]
      /\ ownershipBySubdomain' \in [TunnelKey -> User \cup {None}]
  BY <1>1 DEF TearDown, AccessOK, RoutesOK
<1>4. RedirectsOK' /\ offlineLookups' \subseteq TunnelKey
  <2> DEFINE t == redirectTokenByTunnelKey[k]
  <2>1. CASE t = None \/ redirectByToken[t] = None
    BY <1>1, <2>1 DEF TearDown, RedirectsOK, AsyncOK, redirectVars
  <2>2. CASE ~ (t = None \/ redirectByToken[t] = None) /\ Synthetic(k)
    BY <1>1, <2>2, PurgeType DEF TearDown, AsyncOK
  <2>3. CASE ~ (t = None \/ redirectByToken[t] = None) /\ ~ Synthetic(k)
    <3>1. t \in Token /\ redirectByToken[t] # None
      BY <1>1, <2>3 DEF RedirectsOK
    <3>2. [redirectByToken EXCEPT ![t].connected = FALSE]
            \in [Token -> RedirectEntry \cup {None}]
      BY <1>1, <3>1, DisconnectedType
    <3> QED
      BY <1>1, <2>3, <3>2 DEF TearDown, RedirectsOK, AsyncOK
  <2> QED
    BY <2>1, <2>2, <2>3
<1> QED
  BY <1>2, <1>3, <1>4

\* The close handler, attached or not.
LEMMA ClosedStep ==
  ASSUME IInv, NEW s \in Socket, Closed(s)
  PROVE  IInv' /\ PortsStep
<1>1. /\ Ports!TypeOK /\ SocketsOK /\ RoutesOK /\ AccessOK /\ RedirectsOK /\ AsyncOK
  BY TypeParts DEF IInv
<1>2. /\ readyState' = [readyState EXCEPT ![s] = "CLOSED"]
      /\ UNCHANGED <<request, redirectToken, revokes>>
  BY DEF Closed
<1>3. CASE stage[s] \in {"auth", "gone"}
  <2>1. UNCHANGED <<stage, sessions, portVars, routeVars, accessVars,
                    redirectVars, offlineLookups>>
    BY <1>3 DEF Closed
  <2>2. Ports!TypeOK' /\ PortsStep /\ listens' = listens
    BY <2>1, PortsUnchanged
  <2>3. ListensOK'
    BY <2>1, <2>2, StagesKept DEF routeVars
  <2>4. SocketsOK' /\ RoutesOK' /\ AccessOK' /\ RedirectsOK' /\ AsyncOK'
    BY <1>1, <1>2, <2>1 DEF SocketsOK, RoutesOK, AccessOK, RedirectsOK, AsyncOK,
       routeVars, accessVars, redirectVars
  <2> QED
    BY <2>2, <2>3, <2>4, PartsSuffice
<1>4. CASE stage[s] \notin {"auth", "gone"}
  <2>1. /\ sessions' = RemoveBySocket(s)
        /\ stage' = [stage EXCEPT ![s] = IF @ \in InFlight THEN @ ELSE "gone"]
        /\ UNCHANGED socketSubdomain
    BY <1>4 DEF Closed
  <2>2. /\ Ports!TypeOK' /\ PortsStep /\ listens' = listens
        /\ AccessOK' /\ RedirectsOK' /\ offlineLookups' \subseteq TunnelKey
        /\ socketByTunnelKey' \in [TunnelKey -> Socket \cup {None}]
        /\ ownershipBySubdomain' \in [TunnelKey -> User \cup {None}]
    <3>1. CASE socketSubdomain[s] = None
      <4>1. UNCHANGED <<portVars, socketByTunnelKey, ownershipBySubdomain,
                        accessVars, redirectVars, offlineLookups>>
        BY <1>4, <3>1 DEF Closed
      <4> QED
        BY <1>1, <4>1, PortsUnchanged
        DEF RoutesOK, AccessOK, RedirectsOK, AsyncOK, accessVars, redirectVars
    <3>2. CASE socketSubdomain[s] # None
      <4>1. TearDown(s, socketSubdomain[s])
        BY <1>4, <3>2 DEF Closed
      <4>2. socketSubdomain[s] \in TunnelKey
        BY <1>1, <3>2 DEF RoutesOK
      <4> QED
        BY <4>1, <4>2, TearDownType
    <3> QED
      BY <3>1, <3>2
  <2>3. SocketsOK' /\ RoutesOK' /\ AsyncOK'
    BY <1>1, <1>2, <2>1, <2>2
    DEF SocketsOK, RoutesOK, AsyncOK, RemoveBySocket, Stage
  <2>4. \A srv \in listens' : stage'[srv.socket] = stage[srv.socket]
    BY <1>1, <2>1, <2>2 DEF IInv, ListensOK, ListenStage, InFlight, SocketsOK
  <2>5. \A z \in Socket : Named(z)'
    BY <1>1, <2>1 DEF IInv, ListensOK, Named, SocketsOK
  <2>6. ListensOK'
    BY <2>2, <2>4, <2>5, ListensKept
  <2> QED
    BY <2>2, <2>3, <2>6, PartsSuffice
<1> QED
  BY <1>3, <1>4

\* The late look-up of the close handler, and the daily sweep.
LEMMA RedirectUpkeep ==
  ASSUME IInv,
         \/ \E k \in TunnelKey, reserved \in BOOLEAN : OfflineLookedUp(k, reserved)
         \/ \E t \in Token : SweepRedirect(t)
  PROVE  IInv' /\ PortsStep
<1>1. UNCHANGED <<socketVars, sessions, portVars, routeVars, accessVars, revokes>>
  BY DEF OfflineLookedUp, SweepRedirect, asyncVars
<1>2. RedirectsOK /\ AsyncOK
  BY TypeParts DEF IInv
<1>3. RedirectsOK' /\ AsyncOK'
  <2>1. CASE \E k \in TunnelKey, reserved \in BOOLEAN : OfflineLookedUp(k, reserved)
    <3>1. PICK k \in TunnelKey : UNCHANGED redirectVars \/ purgeRedirectForKey(k)
      BY <2>1 DEF OfflineLookedUp
    <3>2. offlineLookups' \subseteq offlineLookups
      BY <2>1 DEF OfflineLookedUp
    <3> QED
      BY <1>1, <1>2, <3>1, <3>2, PurgeType DEF RedirectsOK, redirectVars, AsyncOK
  <2>2. CASE \E t \in Token : SweepRedirect(t)
    BY <1>2, <2>2 DEF SweepRedirect, RedirectsOK, AsyncOK, asyncVars
  <2> QED
    BY <2>1, <2>2
<1>4. Ports!TypeOK' /\ PortsStep /\ listens' = listens
  BY <1>1, PortsUnchanged
<1>5. ListensOK'
  BY <1>1, <1>4, StagesKept DEF socketVars, routeVars
<1>6. SocketsOK' /\ RoutesOK' /\ AccessOK'
  BY <1>1, TypeParts DEF IInv, SocketsOK, RoutesOK, AccessOK, socketVars, routeVars,
     accessVars
<1> QED
  BY <1>3, <1>4, <1>5, <1>6, PartsSuffice

\* Revoking a live tunnel closes a socket, or none.
LEMMA RevokeType ==
  ASSUME IInv, NEW k \in TunnelKey, revokeLiveTunnel(k)
  PROVE  readyState' \in [Socket -> {"NONE", "OPEN", "CLOSING", "CLOSED"}]
<1>1. SocketsOK /\ RoutesOK
  BY TypeParts DEF IInv
<1>2. SocketOf(k) \in Socket \cup {None}
  BY <1>1, TunnelKeyFacts DEF SocketOf, RoutesOK
<1> QED
  BY <1>1, <1>2, ClosingType DEF revokeLiveTunnel, SocketsOK

\* DELETE of a live session.
LEMMA RemoveSessionStep ==
  ASSUME IInv, NEW u \in User, NEW id \in TunnelKey, RemoveSession(u, id)
  PROVE  IInv' /\ PortsStep
<1>1. /\ Ports!TypeOK /\ SocketsOK /\ RoutesOK /\ AccessOK /\ RedirectsOK /\ AsyncOK
  BY TypeParts DEF IInv
<1> DEFINE targets == {<<e.tunnelKey, e.user>> : e \in EntriesOf(id)} \cup
                      (IF EntriesOf(id) = {}
                       THEN {<<id, ownershipBySubdomain[id]>>} ELSE {})
<1>2. \A target \in targets : target[1] \in TunnelKey
  <2>1. \A e \in EntriesOf(id) : e.tunnelKey \in TunnelKey
    BY <1>1 DEF EntriesOf, RedirectsOK, RedirectEntry
  <2> QED
    BY <2>1
<1> HIDE DEF targets
<1>3. PICK k \in TunnelKey :
        /\ revokeLiveTunnel(k)
        /\ purgeRedirectForKey(k)
        /\ Ports!Release({k})
        /\ \/ revokes' = revokes \cup {k} /\ UNCHANGED ownershipBySubdomain
           \/ /\ ownershipBySubdomain' = [ownershipBySubdomain EXCEPT ![k] = None]
              /\ UNCHANGED revokes
        /\ UNCHANGED <<stage, request, redirectToken, sessions, socketSubdomain,
                       socketByTunnelKey, accessVars, offlineLookups>>
  <2>1. PICK target \in targets :
          LET k == target[1]
          IN  /\ revokeLiveTunnel(k)
              /\ purgeRedirectForKey(k)
              /\ Ports!Release({k})
              /\ IF Ports!Bound(k)
                 THEN revokes' = revokes \cup {k} /\ UNCHANGED ownershipBySubdomain
                 ELSE /\ ownershipBySubdomain' =
                           [ownershipBySubdomain EXCEPT ![k] = None]
                      /\ UNCHANGED revokes
              /\ UNCHANGED <<stage, request, redirectToken, sessions,
                             socketSubdomain, socketByTunnelKey, accessVars,
                             offlineLookups>>
    BY DEF RemoveSession, targets
  <2> QED
    BY <1>2, <2>1
<1>4. Ports!TypeOK' /\ PortsStep /\ listens' = listens
  BY <1>1, <1>3, ReleaseType, TunnelKeyFacts DEF PortsStep
<1>5. SocketsOK'
  BY <1>1, <1>3, RevokeType DEF SocketsOK
<1>6. RedirectsOK'
  BY <1>1, <1>3, PurgeType
<1>7. RoutesOK' /\ AccessOK' /\ AsyncOK'
  BY <1>1, <1>3 DEF RoutesOK, AccessOK, AsyncOK, accessVars
<1>8. ListensOK'
  BY <1>3, <1>4, StagesKept
<1> QED
  BY <1>4, <1>5, <1>6, <1>7, <1>8, PartsSuffice

\* Its end, after the server's close.
LEMMA SessionRemovedStep ==
  ASSUME IInv, NEW k \in TunnelKey, SessionRemoved(k)
  PROVE  IInv' /\ PortsStep
<1>1. Ports!TypeOK' /\ PortsStep /\ listens' = listens
  BY PortsUnchanged DEF SessionRemoved
<1>2. ListensOK'
  BY <1>1, StagesKept DEF SessionRemoved, socketVars
<1>3. SocketsOK' /\ RoutesOK' /\ AccessOK' /\ RedirectsOK' /\ AsyncOK'
  BY TypeParts DEF IInv, SessionRemoved, SocketsOK, RoutesOK, AccessOK, RedirectsOK,
     AsyncOK, socketVars, accessVars, redirectVars
<1> QED
  BY <1>1, <1>2, <1>3, PartsSuffice

\* DELETE of a reservation.
LEMMA RemoveReservedStep ==
  ASSUME IInv, NEW x \in Sub, RemoveReserved(x)
  PROVE  IInv' /\ PortsStep
<1> DEFINE k == SubKey(x)
<1>1. /\ Ports!TypeOK /\ SocketsOK /\ RoutesOK /\ AccessOK /\ RedirectsOK /\ AsyncOK
      /\ k \in TunnelKey /\ k \in Key
  BY TypeParts, SubKeyFacts, TunnelKeyFacts DEF IInv
<1>2. /\ revokeLiveTunnel(k) /\ purgeRedirectForKey(k) /\ Ports!Release({k})
      /\ UNCHANGED <<stage, request, redirectToken, sessions, routeVars,
                     accessVars, asyncVars>>
  BY DEF RemoveReserved
<1> HIDE DEF k
<1>3. Ports!TypeOK' /\ PortsStep /\ listens' = listens
  BY <1>1, <1>2, ReleaseType DEF PortsStep
<1>4. SocketsOK' /\ RedirectsOK'
  BY <1>1, <1>2, RevokeType, PurgeType DEF SocketsOK
<1>5. RoutesOK' /\ AccessOK' /\ AsyncOK'
  BY <1>1, <1>2 DEF RoutesOK, AccessOK, AsyncOK, routeVars, accessVars, asyncVars
<1>6. ListensOK'
  BY <1>2, <1>3, StagesKept DEF routeVars
<1> QED
  BY <1>3, <1>4, <1>5, <1>6, PartsSuffice

-----------------------------------------------------------------------------
\* Every step of the gateway keeps IInv, and is one of the books or leaves them.
LEMMA NextStep ==
  ASSUME IInv, [Next]_vars
  PROVE  IInv' /\ [Ports!Next]_portVars
<1>1. CASE UNCHANGED vars
  <2>1. Ports!TypeOK' /\ PortsStep /\ listens' = listens
    BY <1>1, PortsUnchanged DEF vars
  <2>2. ListensOK'
    BY <1>1, <2>1, StagesKept DEF vars, socketVars, routeVars
  <2>3. SocketsOK' /\ RoutesOK' /\ AccessOK' /\ RedirectsOK' /\ AsyncOK'
    BY <1>1, TypeParts DEF IInv, vars, SocketsOK, RoutesOK, AccessOK, RedirectsOK,
       AsyncOK, socketVars, routeVars, accessVars, redirectVars, asyncVars
  <2> QED
    BY <1>1, <2>1, <2>2, <2>3, PartsSuffice DEF vars
<1>2. CASE \E s \in Socket : Resumed(s)
  <2>1. PICK s \in Socket : Resumed(s)
    BY <1>2
  <2>2. CASE \/ Authenticated(s) \/ Unauthorized(s)
             \/ \E allowed \in BOOLEAN : EntitlementRead(s, allowed)
             \/ RefusePortOnly(s) \/ NoMapping(s) \/ ClaimFails(s)
    BY <2>2, BeforeRegistration DEF PortsStep
  <2>3. CASE RegisterPortOnly(s) \/ \E p \in Port : RegisterFixed(s, p)
    BY <2>3, RegisterPortOnlyStep, RegisterFixedStep DEF PortsStep
  <2>4. CASE PortOnlyFailed(s) \/ FixedFailed(s) \/ TcpFailed(s)
    BY <2>4, PortFailedStep DEF PortsStep
  <2>5. CASE \E x \in Sub : ClaimTcp(s, x) \/ ClaimHttp(s, x) \/ ClaimRequested(s, x)
    BY <2>5, ClaimTcpStep, ClaimHttpStep, ClaimRequestedStep DEF PortsStep
  <2>6. CASE Listening(s)
    BY <2>6, ListeningStep DEF PortsStep
  <2>7. CASE HttpListening(s) \/ HttpFailed(s)
    BY <2>7, HttpAnsweredStep DEF PortsStep
  <2>8. CASE HttpContinues(s) \/ DedicatedListening(s)
    BY <2>8, HttpContinuesStep, DedicatedListeningStep DEF PortsStep
  <2> QED
    BY <2>1, <2>2, <2>3, <2>4, <2>5, <2>6, <2>7, <2>8 DEF Resumed
<1>3. CASE \E s \in Socket : \/ Connect(s)
                             \/ \E r \in Request, t \in KnownTokens \cup {None} :
                                  Register(s, r, t)
  BY <1>3, BeforeRegistration DEF PortsStep
<1>4. CASE \E s \in Socket : GatewayCloses(s) \/ Closed(s)
  BY <1>4, GatewayClosesStep, ClosedStep DEF PortsStep
<1>5. CASE \E x \in Sub : Evict(x) \/ RemoveReserved(x)
  BY <1>5, EvictStep, RemoveReservedStep DEF PortsStep
<1>6. CASE \/ \E k \in TunnelKey, reserved \in BOOLEAN : OfflineLookedUp(k, reserved)
           \/ \E t \in Token : SweepRedirect(t)
  BY <1>6, RedirectUpkeep DEF PortsStep
<1>7. CASE \/ \E u \in User, id \in TunnelKey : RemoveSession(u, id)
           \/ \E k \in TunnelKey : SessionRemoved(k)
  BY <1>7, RemoveSessionStep, SessionRemovedStep DEF PortsStep
<1> QED
  BY <1>1, <1>2, <1>3, <1>4, <1>5, <1>6, <1>7 DEF Next

\* IInv holds in every reachable state, for every value of the constants.
THEOREM SessionsInvariant == Spec => []IInv
<1>1. IInv /\ [Next]_vars => IInv'
  BY NextStep
<1> QED
  BY InitInv, <1>1, PTL DEF Spec

\* The maps of the gateway are well typed in every reachable state.
THEOREM SessionsTypeOK == Spec => []TypeOK
<1>1. IInv => TypeOK
  BY DEF IInv
<1> QED
  BY SessionsInvariant, <1>1, PTL

\* The handlers use the books of ports as PublicPorts specifies: refinement.
THEOREM SessionsUsePorts == Spec => PortsSpec
<1>1. Init => Ports!Init
  BY DEF Init
<1>2. IInv /\ [Next]_vars => [Ports!Next]_(Ports!vars)
  BY NextStep DEF portVars, Ports!vars
<1> QED
  BY SessionsInvariant, <1>1, <1>2, PTL DEF Spec, PortsSpec, Ports!Spec, Ports!vars

Books == INSTANCE PublicPorts_proofs

\* What is proved of the books holds of the gateway that uses them.
THEOREM SessionsBooks ==
  Spec => [](Ports!PortClaimedOnce /\ Ports!BooksMatchServers /\ Ports!BindingsAreOpen)
<1>1. Books!PortAssumption
  BY SessionAssumption DEF Books!PortAssumption
<1>2. Books!Spec => []Books!Inv
  BY <1>1, Books!PortsInvariant
<1>3. Ports!Init => Books!Init
  BY DEF Ports!Init, Books!Init
<1>4. [Ports!Next]_(Ports!vars) => [Books!Next]_(Books!vars)
  BY DEF Ports!Next, Books!Next, Ports!BindPooled, Books!BindPooled,
         Ports!BindFixed, Books!BindFixed, Ports!BeginBind, Books!BeginBind,
         Ports!ListenSucceeds, Books!ListenSucceeds, Ports!ListenFails,
         Books!ListenFails, Ports!Release, Books!Release, Ports!Bound,
         Books!Bound, Ports!BindingsAt, Books!BindingsAt, Ports!allocatable,
         Books!allocatable, Ports!Free, Books!Free, Ports!Taken, Books!Taken,
         Ports!PortsOf, Books!PortsOf, Ports!Server, Books!Server, Ports!vars,
         Books!vars
<1>5. Books!Inv => Ports!PortClaimedOnce /\ Ports!BooksMatchServers /\ Ports!BindingsAreOpen
  BY DEF Books!Inv, Ports!PortClaimedOnce, Books!PortClaimedOnce,
         Ports!BooksMatchServers, Books!BooksMatchServers,
         Ports!BindingsAreOpen, Books!BindingsAreOpen, Ports!PortsOf,
         Books!PortsOf
<1> QED
  BY <1>2, <1>3, <1>4, <1>5, SessionsUsePorts, PTL
  DEF PortsSpec, Ports!Spec, Books!Spec

-----------------------------------------------------------------------------
(***************************************************************************)
(* Who a key, a session, a port and an access token belong to:             *)
(* RouteConsistent, AccessTokenAlive, GoneHoldsNothing and TenantIsolation,*)
(* proved together as the consequences of one invariant; and, at the end,  *)
(* whose a redirect entry is (NoRedirectHijack).                           *)
(*                                                                         *)
(* At the heart of the invariant a socket has one name for life            *)
(* (socketSubdomain), given once, before which nothing names the socket;   *)
(* what is filed about the socket is filed under that name; and an open    *)
(* socket that is being registered under a subdomain, or has been, holds   *)
(* its session.  So a subdomain without a session has no open socket       *)
(* behind it, and a port that is in no book has none either: the next      *)
(* registration may have it.                                               *)
(***************************************************************************)

Early == {"idle", "auth", "ready", "entitlement", "mapping", "claim"}

PortStage    == {"listen_fixed", "listen_port"}
SessionStage == {"listen_tcp", "listen_http", "http_bound", "listen_dedicated",
                 "registered"}

HttpStage    == {"listen_http", "http_bound", "listen_dedicated"}

Servers == tcpBindingsBySubdomain \cup listens

Live(s) == stage[s] \in PortStage \cup SessionStage /\ readyState[s] = "OPEN"

NamedOnce ==
  \A s \in Socket :
    /\ stage[s] \in Early => socketSubdomain[s] = None
    /\ stage[s] \in PortStage => Synthetic(socketSubdomain[s])
    /\ stage[s] \in HttpStage => ~ Synthetic(socketSubdomain[s])
    /\ stage[s] = "orphan" => readyState[s] = "CLOSED"

ServersNamed ==
  \A srv \in Servers :
    /\ socketSubdomain[srv.socket] = BaseKey(srv.key)
    /\ Synthetic(BaseKey(srv.key)) => srv.key = PortKey(srv.port)

BoundLate ==
  \A srv \in tcpBindingsBySubdomain :
    stage[srv.socket] \in {"http_bound", "listen_dedicated", "registered", "orphan"}

TokensNamed ==
  \A k \in TunnelKey : ipTokenByTunnelKey[k] # None =>
    /\ ipTokenByTunnelKey[k] \in ipAccessByToken
    /\ socketSubdomain[ipTokenByTunnelKey[k]] = k
    /\ IpProtection

LiveHasSession ==
  \A s \in Socket, x \in Sub :
    Live(s) /\ socketSubdomain[s] = SubKey(x) => sessions[x] = s

SessionsOwned ==
  \A x \in Sub :
    sessions[x] # None /\ readyState[sessions[x]] = "OPEN" =>
      ownershipBySubdomain[SubKey(x)] \in {None, Principal[sessions[x]]}

PortsOwned ==
  \A srv \in Servers :
    Synthetic(BaseKey(srv.key)) /\ readyState[srv.socket] = "OPEN" =>
      ownershipBySubdomain[BaseKey(srv.key)] \in {None, Principal[srv.socket]}

RInv == /\ RouteConsistent /\ NamedOnce /\ ServersNamed /\ BoundLate
        /\ TokensNamed /\ GoneHoldsNothing
        /\ LiveHasSession /\ SessionsOwned /\ PortsOwned

-----------------------------------------------------------------------------
\* A key is a port's or a subdomain's, never both, and never absent.
LEMMA KeyShapes ==
  /\ \A x \in Sub, p \in Port : SubKey(x) # PortKey(p)
  /\ \A x, y \in Sub : SubKey(x) = SubKey(y) => x = y
  /\ \A k \in TunnelKey : ~ Synthetic(k) => \E x \in Sub : k = SubKey(x)
  /\ \A k \in TunnelKey : Synthetic(k) => \E p \in Port : k = PortKey(p)
  /\ \A k \in TunnelKey : k # None
  BY NoneIsNoKey DEF SubKey, PortKey, TunnelKey, Synthetic

\* The key of a tunnel's raw port leads back to the tunnel's.
LEMMA BaseKeys ==
  /\ \A k \in TunnelKey : BaseKey(k) = k /\ BaseKey(Dedicated(k)) = k
  /\ \A k \in Key : BaseKey(k) \in TunnelKey
  BY DEF BaseKey, Dedicated, Key, TunnelKey, SubKey, PortKey

\* A server in the map or in flight has a socket, a port and a tunnel's key.
LEMMA ServerTypes ==
  ASSUME IInv, NEW srv \in Servers
  PROVE  /\ srv.socket \in Socket /\ srv.port \in Port
         /\ srv.key \in Key /\ BaseKey(srv.key) \in TunnelKey
<1>1. srv \in Ports!Server
  BY DEF IInv, TypeOK, Ports!TypeOK, Servers
<1> QED
  BY <1>1, BaseKeys DEF Ports!Server

\* When the gateway starts nothing has a name.
LEMMA InitRInv == Init => RInv
  BY NoneFacts DEF Init, Ports!Init, RInv, RouteConsistent, NamedOnce, ServersNamed,
     BoundLate, TokensNamed, GoneHoldsNothing, LiveHasSession, SessionsOwned,
     PortsOwned, Servers, Live, Early, PortStage, SessionStage, HttpStage

\* The invariant says what is to be proved.
LEMMA RInvSuffices ==
  ASSUME IInv, RInv
  PROVE  RouteConsistent /\ AccessTokenAlive /\ GoneHoldsNothing /\ TenantIsolation
<1>1. RouteConsistent /\ AccessTokenAlive /\ GoneHoldsNothing
  BY DEF RInv, AccessTokenAlive, TokensNamed
<1>2. ASSUME NEW srv \in tcpBindingsBySubdomain, readyState[srv.socket] = "OPEN"
      PROVE  ownershipBySubdomain[BaseKey(srv.key)] \in {None, Principal[srv.socket]}
  <2>1. srv \in Servers /\ srv.socket \in Socket /\ BaseKey(srv.key) \in TunnelKey
    BY ServerTypes DEF Servers
  <2>2. CASE Synthetic(BaseKey(srv.key))
    BY <1>2, <2>1, <2>2 DEF RInv, PortsOwned
  <2>3. CASE ~ Synthetic(BaseKey(srv.key))
    <3>1. PICK x \in Sub : BaseKey(srv.key) = SubKey(x)
      BY <2>1, <2>3, KeyShapes
    <3>2. Live(srv.socket) /\ socketSubdomain[srv.socket] = SubKey(x)
      BY <1>2, <2>1, <3>1 DEF RInv, BoundLate, NamedOnce, ServersNamed, Live,
         SessionStage
    <3>3. sessions[x] = srv.socket
      BY <2>1, <3>2 DEF RInv, LiveHasSession
    <3> QED
      BY <1>2, <2>1, <3>1, <3>3, NoneFacts DEF RInv, SessionsOwned
  <2> QED
    BY <2>2, <2>3
<1>3. \A x \in Sub : sessions[x] # None =>
        \/ readyState[sessions[x]] # "OPEN"
        \/ ownershipBySubdomain[SubKey(x)] \in {None, Principal[sessions[x]]}
  BY DEF RInv, SessionsOwned
<1> QED
  BY <1>1, <1>2, <1>3 DEF TenantIsolation

-----------------------------------------------------------------------------
(***************************************************************************)
(* Steps that name nothing: entries of the maps stay or go, servers stay   *)
(* or go (but a tunnel under a subdomain may get another), and a socket    *)
(* that loses its name is not filed anywhere any more.                     *)
(***************************************************************************)
Unfiled(s) ==
  /\ \A srv \in Servers : srv.socket # s
  /\ \A x \in Sub : sessions[x] # s
  /\ \A k \in TunnelKey : socketByTunnelKey[k] # s /\ ipTokenByTunnelKey[k] # s

EntriesStayOrGo ==
  /\ \A x \in Sub : sessions'[x] \in {sessions[x], None}
  /\ \A k \in TunnelKey :
       /\ socketByTunnelKey'[k] \in {socketByTunnelKey[k], None}
       /\ ownershipBySubdomain'[k] \in {ownershipBySubdomain[k], None}
       /\ ipTokenByTunnelKey'[k] \in {ipTokenByTunnelKey[k], None}

ServersStayOrGo ==
  \A srv \in Servers' :
    \/ srv \in Servers
    \/ /\ srv.socket \in Socket
       /\ BaseKey(srv.key) = socketSubdomain[srv.socket]
       /\ ~ Synthetic(BaseKey(srv.key))

NamesStayOrGo ==
  \A s \in Socket : \/ socketSubdomain'[s] = socketSubdomain[s]
                    \/ /\ socketSubdomain'[s] = None /\ Unfiled(s)'
                       /\ stage'[s] \notin PortStage \cup HttpStage

StagesGoOn ==
  \A s \in Socket :
    /\ readyState'[s] = "OPEN" => readyState[s] = "OPEN" \/ stage[s] = "idle"
    /\ stage'[s] \in Early => stage[s] \in Early
    /\ stage'[s] \in PortStage => stage[s] = stage'[s]
    /\ stage'[s] \in HttpStage => stage[s] \in HttpStage
    /\ stage'[s] \in SessionStage => stage[s] \in PortStage \cup SessionStage
    /\ stage'[s] = "orphan" => readyState'[s] = "CLOSED"

LiveKeepsSession ==
  \A x \in Sub : sessions'[x] = sessions[x] \/ (\A s \in Socket : sessions[x] = s => ~ Live(s)')

TokensAlive ==
  \A k \in TunnelKey : ipTokenByTunnelKey[k] # None =>
    ipTokenByTunnelKey[k] \in ipAccessByToken

NamesNothing ==
  /\ EntriesStayOrGo /\ ServersStayOrGo /\ NamesStayOrGo /\ StagesGoOn
  /\ LiveKeepsSession /\ TokensAlive' /\ BoundLate' /\ GoneHoldsNothing'

\* A step that names nothing keeps the invariant.
LEMMA NamesNothingStep ==
  ASSUME IInv, RInv, IInv', NamesNothing
  PROVE  RInv'
<1> USE NoneFacts
<1>1. /\ \A srv \in Servers : srv.socket \in Socket /\ BaseKey(srv.key) \in TunnelKey
      /\ \A srv \in Servers' : srv.socket \in Socket
  <2>1. \A srv \in Servers' : srv \in Ports!Server'
    BY DEF IInv, TypeOK, Ports!TypeOK, Servers
  <2> QED
    BY <2>1, ServerTypes DEF NamesNothing, ServersStayOrGo
<1>2. /\ sessions \in [Sub -> Socket \cup {None}]
      /\ socketByTunnelKey \in [TunnelKey -> Socket \cup {None}]
      /\ ipTokenByTunnelKey \in [TunnelKey -> Socket \cup {None}]
  BY DEF IInv, TypeOK
<1>3. RouteConsistent'
  BY <1>2 DEF RInv, RouteConsistent, NamesNothing, EntriesStayOrGo, NamesStayOrGo, Unfiled
<1>4. NamedOnce'
  BY DEF RInv, NamedOnce, NamesNothing, StagesGoOn, NamesStayOrGo
<1>5. ServersNamed'
  BY <1>1 DEF RInv, ServersNamed, NamesNothing, ServersStayOrGo, NamesStayOrGo, Unfiled
<1>6. TokensNamed'
  BY <1>2 DEF RInv, TokensNamed, NamesNothing, EntriesStayOrGo, NamesStayOrGo, Unfiled,
     TokensAlive
<1>7. LiveHasSession'
  <2> SUFFICES ASSUME NEW s \in Socket, NEW x \in Sub,
                      Live(s)', socketSubdomain'[s] = SubKey(x)
               PROVE  sessions'[x] = s
    BY DEF LiveHasSession
  <2>1. socketSubdomain[s] = SubKey(x)
    BY SubKeyFacts, NoneIsNoKey DEF NamesNothing, NamesStayOrGo
  <2>2. stage[s] \notin Early /\ stage[s] # "idle"
    BY <2>1, SubKeyFacts, NoneIsNoKey DEF RInv, NamedOnce, Early
  <2>3. Live(s)
    BY <2>2 DEF Live, NamesNothing, StagesGoOn
  <2>4. sessions[x] = s
    BY <2>1, <2>3 DEF RInv, LiveHasSession
  <2> QED
    BY <2>4 DEF NamesNothing, LiveKeepsSession
<1>8. SessionsOwned'
  <2> SUFFICES ASSUME NEW x \in Sub, sessions'[x] # None,
                      readyState'[sessions'[x]] = "OPEN"
               PROVE  ownershipBySubdomain'[SubKey(x)] \in {None, Principal[sessions'[x]]}
    BY DEF SessionsOwned
  <2>1. sessions'[x] = sessions[x] /\ sessions[x] \in Socket
    BY <1>2 DEF NamesNothing, EntriesStayOrGo
  <2>2. socketSubdomain[sessions[x]] = SubKey(x)
    BY <2>1 DEF RInv, RouteConsistent
  <2>3. stage[sessions[x]] # "idle"
    BY <2>1, <2>2, SubKeyFacts, NoneIsNoKey DEF RInv, NamedOnce, Early
  <2>4. readyState[sessions[x]] = "OPEN"
    BY <2>1, <2>3 DEF NamesNothing, StagesGoOn
  <2> QED
    BY <2>1, <2>4, SubKeyFacts DEF RInv, SessionsOwned, NamesNothing, EntriesStayOrGo
<1>9. PortsOwned'
  <2> SUFFICES ASSUME NEW srv \in Servers', Synthetic(BaseKey(srv.key)),
                      readyState'[srv.socket] = "OPEN"
               PROVE  ownershipBySubdomain'[BaseKey(srv.key)] \in {None, Principal[srv.socket]}
    BY DEF PortsOwned
  <2>1. srv \in Servers
    BY DEF NamesNothing, ServersStayOrGo
  <2>2. stage[srv.socket] # "idle"
    BY <1>1, <2>1, NoneIsNoKey DEF RInv, NamedOnce, ServersNamed, Early
  <2>3. readyState[srv.socket] = "OPEN"
    BY <1>1, <2>1, <2>2 DEF NamesNothing, StagesGoOn
  <2> QED
    BY <1>1, <2>1, <2>3 DEF RInv, PortsOwned, NamesNothing, EntriesStayOrGo
<1> QED
  BY <1>3, <1>4, <1>5, <1>6, <1>7, <1>8, <1>9 DEF RInv, NamesNothing

-----------------------------------------------------------------------------
(***************************************************************************)
(* Steps that name socket s k: the key has no open socket behind it.       *)
(***************************************************************************)
KeyIsFree(k) ==
  /\ Synthetic(k) => \A srv \in Servers : BaseKey(srv.key) # k
  /\ \A x \in Sub : k = SubKey(x) => sessions[x] = None

SessionHeld(s, k, n) ==
  /\ Synthetic(k) => sessions' = sessions
  /\ \A x \in Sub : k = SubKey(x) =>
       /\ sessions' = sessions \/ sessions' = [sessions EXCEPT ![x] = s]
       /\ n \in SessionStage => sessions'[x] = s

ListenAdded(s, k) ==
  \A srv \in listens' :
    \/ srv \in listens
    \/ /\ srv.socket = s /\ BaseKey(srv.key) = k
       /\ Synthetic(k) => srv.key = PortKey(srv.port)

TokenGiven(s, k) ==
  \A j \in TunnelKey :
    \/ ipTokenByTunnelKey'[j] = ipTokenByTunnelKey[j]
    \/ j = k /\ ipTokenByTunnelKey'[j] = None
    \/ j = k /\ ipTokenByTunnelKey'[j] = s /\ IpProtection

Names(s, k, n) ==
  /\ Track(s, k)
  /\ stage[s] \in Early /\ stage' = [stage EXCEPT ![s] = n]
  /\ n = "orphan" => readyState[s] = "CLOSED"
  /\ n \in PortStage => Synthetic(k)
  /\ n \in HttpStage => ~ Synthetic(k)
  /\ UNCHANGED <<readyState, tcpBindingsBySubdomain>>
  /\ KeyIsFree(k) /\ SessionHeld(s, k, n) /\ ListenAdded(s, k)
  /\ TokenGiven(s, k) /\ TokensAlive'

\* A step that names a socket keeps the invariant.
LEMMA NamingStep ==
  ASSUME IInv, RInv, NEW s \in Socket, NEW k \in TunnelKey,
         NEW n \in PortStage \cup SessionStage \cup {"refused", "orphan"},
         Names(s, k, n)
  PROVE  RInv'
<1> USE NoneFacts
<1>1. \A srv \in Servers : srv.socket \in Socket /\ BaseKey(srv.key) \in TunnelKey
  BY ServerTypes
<1>2. /\ sessions \in [Sub -> Socket \cup {None}]
      /\ socketByTunnelKey \in [TunnelKey -> Socket \cup {None}]
      /\ ipTokenByTunnelKey \in [TunnelKey -> Socket \cup {None}]
      /\ ownershipBySubdomain \in [TunnelKey -> User \cup {None}]
      /\ socketSubdomain \in [Socket -> TunnelKey \cup {None}]
      /\ stage \in [Socket -> Stage]
  BY DEF IInv, TypeOK
<1>3. /\ socketSubdomain[s] = None
      /\ socketSubdomain' = [socketSubdomain EXCEPT ![s] = k]
      /\ socketByTunnelKey' = [socketByTunnelKey EXCEPT ![k] = s]
      /\ ownershipBySubdomain' = [ownershipBySubdomain EXCEPT ![k] = Principal[s]]
  BY DEF RInv, NamedOnce, Names, Track
<1>4. /\ stage[s] \in Early /\ stage' = [stage EXCEPT ![s] = n]
      /\ UNCHANGED <<readyState, tcpBindingsBySubdomain>>
  BY DEF Names
<1>5. /\ \A srv \in Servers : srv.socket # s
      /\ \A x \in Sub : sessions[x] # s
      /\ \A j \in TunnelKey : socketByTunnelKey[j] # s /\ ipTokenByTunnelKey[j] # s
  BY <1>1, <1>2, <1>3, SubKeyFacts, NoneIsNoKey
  DEF RInv, ServersNamed, RouteConsistent, TokensNamed
<1>6. \A x \in Sub : \/ sessions'[x] = sessions[x]
                     \/ k = SubKey(x) /\ sessions'[x] = s /\ sessions[x] = None
  <2>1. CASE Synthetic(k)
    BY <2>1 DEF Names, SessionHeld
  <2>2. CASE ~ Synthetic(k)
    <3>1. PICK y \in Sub : k = SubKey(y)
      BY <2>2, KeyShapes
    <3> QED
      BY <1>2, <3>1 DEF Names, SessionHeld, KeyIsFree
  <2> QED
    BY <2>1, <2>2
<1>7. \A srv \in Servers' :
        \/ srv \in Servers
        \/ /\ srv.socket = s /\ BaseKey(srv.key) = k
           /\ Synthetic(k) => srv.key = PortKey(srv.port)
  BY <1>4 DEF Servers, Names, ListenAdded
<1>8. RouteConsistent'
  BY <1>2, <1>3, <1>5, <1>6, SubKeyFacts DEF RInv, RouteConsistent
<1>9. NamedOnce'
  BY <1>2, <1>3, <1>4 DEF RInv, NamedOnce, Names, Early, SessionStage, PortStage, HttpStage
<1>10. ServersNamed'
  BY <1>1, <1>2, <1>3, <1>5, <1>7 DEF RInv, ServersNamed
<1>11. BoundLate'
  BY <1>1, <1>2, <1>4, <1>5 DEF RInv, BoundLate, Servers
<1>12. TokensNamed'
  BY <1>2, <1>3, <1>5 DEF RInv, TokensNamed, Names, TokenGiven, TokensAlive
<1>13. GoneHoldsNothing'
  BY <1>2, <1>3, <1>4, <1>5, <1>6
  DEF RInv, GoneHoldsNothing, Holds, SessionStage, PortStage
<1>14. LiveHasSession'
  <2> SUFFICES ASSUME NEW z \in Socket, NEW x \in Sub,
                      Live(z)', socketSubdomain'[z] = SubKey(x)
               PROVE  sessions'[x] = z
    BY DEF LiveHasSession
  <2>1. CASE z = s
    <3>1. k = SubKey(x)
      BY <1>2, <1>3, <2>1
    <3>2. n \in SessionStage
      BY <1>2, <1>4, <2>1, <3>1, SubKeyFacts DEF Live, Names
    <3> QED
      BY <2>1, <3>1, <3>2 DEF Names, SessionHeld
  <2>2. CASE z # s
    <3>1. Live(z) /\ socketSubdomain[z] = SubKey(x)
      BY <1>2, <1>3, <1>4, <2>2 DEF Live
    <3>2. sessions[x] = z
      BY <3>1 DEF RInv, LiveHasSession
    <3> QED
      BY <1>6, <3>2
  <2> QED
    BY <2>1, <2>2
<1>15. SessionsOwned'
  <2> SUFFICES ASSUME NEW x \in Sub, sessions'[x] # None,
                      readyState'[sessions'[x]] = "OPEN"
               PROVE  ownershipBySubdomain'[SubKey(x)] \in {None, Principal[sessions'[x]]}
    BY DEF SessionsOwned
  <2>1. CASE k = SubKey(x)
    <3>1. sessions'[x] = s
      BY <1>6, <2>1 DEF Names, KeyIsFree
    <3> QED
      BY <1>2, <1>3, <2>1, <3>1
  <2>2. CASE k # SubKey(x)
    <3>1. sessions'[x] = sessions[x]
      BY <1>6, <2>2
    <3>2. ownershipBySubdomain'[SubKey(x)] = ownershipBySubdomain[SubKey(x)]
      BY <1>2, <1>3, <2>2
    <3> QED
      BY <1>4, <3>1, <3>2 DEF RInv, SessionsOwned
  <2> QED
    BY <2>1, <2>2
<1>16. PortsOwned'
  <2> SUFFICES ASSUME NEW srv \in Servers', Synthetic(BaseKey(srv.key)),
                      readyState'[srv.socket] = "OPEN"
               PROVE  ownershipBySubdomain'[BaseKey(srv.key)] \in {None, Principal[srv.socket]}
    BY DEF PortsOwned
  <2>1. CASE srv \in Servers
    <3>1. BaseKey(srv.key) # k
      BY <2>1 DEF Names, KeyIsFree
    <3> QED
      BY <1>1, <1>2, <1>3, <1>4, <2>1, <3>1 DEF RInv, PortsOwned
  <2>2. CASE srv \notin Servers
    BY <1>2, <1>3, <1>7, <2>2
  <2> QED
    BY <2>1, <2>2
<1> QED
  BY <1>8, <1>9, <1>10, <1>11, <1>12, <1>13, <1>14, <1>15, <1>16 DEF RInv

-----------------------------------------------------------------------------
(***************************************************************************)
(* The actions that name nothing.                                          *)
(***************************************************************************)
BoundStage == {"http_bound", "listen_dedicated", "registered", "orphan"}

\* A socket without a name is not filed anywhere.
LEMMA UnnamedUnfiled ==
  ASSUME IInv, RInv, NEW s \in Socket, socketSubdomain[s] = None
  PROVE  Unfiled(s)
<1>1. \A srv \in Servers : BaseKey(srv.key) \in TunnelKey
  BY ServerTypes
<1> QED
  BY <1>1, NoneFacts, SubKeyFacts, NoneIsNoKey
  DEF RInv, ServersNamed, RouteConsistent, TokensNamed, Unfiled

\* The handler of one socket goes on to stage n, and may give things up.
LEMMA StageMoves ==
  ASSUME IInv, RInv, NEW s \in Socket, NEW n \in Stage,
         stage' = [stage EXCEPT ![s] = n],
         n \in Early => stage[s] \in Early,
         n \notin PortStage,
         n \in HttpStage => stage[s] \in HttpStage,
         n \in SessionStage => stage[s] \in PortStage \cup SessionStage,
         n = "orphan" => readyState[s] = "CLOSED",
         n = "gone" => stage[s] \in Early,
         n \notin BoundStage => /\ tcpBindingsBySubdomain' = tcpBindingsBySubdomain
                                /\ stage[s] \notin BoundStage,
         \A srv \in tcpBindingsBySubdomain' :
           srv \in tcpBindingsBySubdomain \/ srv \in ListenOf(s),
         UNCHANGED <<readyState, routeVars>>,
         sessions' = sessions \/ /\ n \notin Early \cup PortStage \cup SessionStage
                                 /\ sessions' = RemoveBySocket(s),
         ServersStayOrGo, TokensAlive',
         \A k \in TunnelKey : ipTokenByTunnelKey'[k] \in {ipTokenByTunnelKey[k], None}
  PROVE  NamesNothing
<1> USE NoneFacts
<1>1. /\ stage \in [Socket -> Stage]
      /\ sessions \in [Sub -> Socket \cup {None}]
      /\ UNCHANGED <<socketSubdomain, socketByTunnelKey, ownershipBySubdomain>>
      /\ \A srv \in Servers : srv.socket \in Socket
  BY ServerTypes DEF IInv, TypeOK, routeVars
<1>2. EntriesStayOrGo
  BY <1>1 DEF EntriesStayOrGo, RemoveBySocket
<1>3. NamesStayOrGo
  BY <1>1 DEF NamesStayOrGo
<1>4. StagesGoOn
  BY <1>1 DEF RInv, NamedOnce, StagesGoOn
<1>5. LiveKeepsSession
  BY <1>1 DEF LiveKeepsSession, RemoveBySocket, Live
<1>6. BoundLate'
  <2> SUFFICES ASSUME NEW srv \in tcpBindingsBySubdomain'
               PROVE  stage'[srv.socket] \in BoundStage
    BY DEF BoundLate, BoundStage
  <2>1. srv.socket \in Socket
    BY <1>1 DEF Servers, ListenOf
  <2>2. CASE srv.socket = s
    BY <1>1, <2>1, <2>2 DEF RInv, BoundLate, BoundStage
  <2>3. CASE srv.socket # s
    <3>1. stage'[srv.socket] = stage[srv.socket] /\ srv \in tcpBindingsBySubdomain
      BY <1>1, <2>1, <2>3 DEF ListenOf
    <3> QED
      BY <3>1 DEF RInv, BoundLate, BoundStage
  <2> QED
    BY <2>2, <2>3
<1>7. GoneHoldsNothing'
  <2> SUFFICES ASSUME NEW z \in Socket, stage'[z] = "gone"
               PROVE  ~ Holds(z)'
    BY DEF GoneHoldsNothing
  <2>1. CASE z = s
    <3>1. n = "gone" /\ socketSubdomain[s] = None
      BY <1>1, <2>1 DEF RInv, NamedOnce
    <3>2. tcpBindingsBySubdomain' = tcpBindingsBySubdomain
      BY <3>1 DEF BoundStage
    <3> QED
      BY <1>1, <2>1, <3>1, <3>2, UnnamedUnfiled
      DEF Unfiled, Holds, Servers, RemoveBySocket
  <2>2. CASE z # s
    <3>1. ~ Holds(z)
      BY <1>1, <2>2 DEF RInv, GoneHoldsNothing
    <3> QED
      BY <1>1, <2>2, <3>1 DEF Holds, ListenOf, RemoveBySocket
  <2> QED
    BY <2>1, <2>2
<1> QED
  BY <1>2, <1>3, <1>4, <1>5, <1>6, <1>7 DEF NamesNothing

\* No handler goes on: sockets are closing, and entries go.
LEMMA StagesStay ==
  ASSUME IInv, RInv, UNCHANGED <<stage, socketSubdomain, listens, accessVars>>,
         tcpBindingsBySubdomain' \subseteq tcpBindingsBySubdomain,
         \A s \in Socket : /\ readyState'[s] = "OPEN" => readyState[s] = "OPEN"
                           /\ readyState[s] = "CLOSED" => readyState'[s] = "CLOSED",
         \A x \in Sub : \/ sessions'[x] = sessions[x]
                        \/ /\ sessions'[x] = None
                           /\ sessions[x] \in Socket => readyState'[sessions[x]] # "OPEN",
         \A k \in TunnelKey :
           /\ socketByTunnelKey'[k] \in {socketByTunnelKey[k], None}
           /\ ownershipBySubdomain'[k] \in {ownershipBySubdomain[k], None}
  PROVE  NamesNothing
<1> USE NoneFacts
<1>1. UNCHANGED <<ipAccessByToken, ipTokenByTunnelKey>>
  BY DEF accessVars
<1>2. EntriesStayOrGo /\ NamesStayOrGo
  BY <1>1 DEF EntriesStayOrGo, NamesStayOrGo
<1>3. ServersStayOrGo
  BY DEF ServersStayOrGo, Servers
<1>4. StagesGoOn
  BY DEF StagesGoOn, RInv, NamedOnce, PortStage, SessionStage, HttpStage
<1>5. LiveKeepsSession
  BY DEF LiveKeepsSession, Live
<1>6. TokensAlive'
  BY <1>1 DEF RInv, TokensNamed, TokensAlive
<1>7. BoundLate'
  BY DEF RInv, BoundLate
<1>8. GoneHoldsNothing'
  BY DEF RInv, GoneHoldsNothing, Holds
<1> QED
  BY <1>2, <1>3, <1>4, <1>5, <1>6, <1>7, <1>8 DEF NamesNothing

\* Before a socket is named its handlers only move it on.
LEMMA EarlyMoves ==
  ASSUME IInv, RInv, NEW s \in Socket,
         \/ Authenticated(s)
         \/ \E r \in Request, t \in KnownTokens \cup {None} : Register(s, r, t)
         \/ \E allowed \in BOOLEAN : EntitlementRead(s, allowed)
         \/ RefusePortOnly(s) \/ NoMapping(s) \/ ClaimFails(s)
  PROVE  NamesNothing
<1>1. /\ stage[s] \in Early
      /\ UNCHANGED <<readyState, sessions, portVars, routeVars, accessVars>>
  BY DEF Authenticated, Register, EntitlementRead, RefusePortOnly, PortOnlyWanted,
     NoMapping, ClaimFails, Early
<1>2. PICK n \in {"ready", "entitlement", "mapping", "claim", "refused", "orphan"} :
        /\ stage' = [stage EXCEPT ![s] = n]
        /\ n = "orphan" => readyState[s] = "CLOSED"
  BY DEF Authenticated, Register, EntitlementRead, RefusePortOnly, PortOnlyWanted,
     NoMapping, ClaimFails, GoTo, Ended
<1>3. n \in Stage
  BY DEF Stage, InFlight
<1>4. /\ UNCHANGED <<tcpBindingsBySubdomain, listens, ipAccessByToken,
                     ipTokenByTunnelKey>>
  BY <1>1 DEF portVars, accessVars
<1>5. ServersStayOrGo /\ TokensAlive'
  BY <1>4 DEF ServersStayOrGo, Servers, TokensAlive, RInv, TokensNamed
<1>6. stage[s] \notin BoundStage
  BY <1>1 DEF Early, BoundStage
<1>7. n \notin PortStage \cup SessionStage \cup HttpStage \cup {"gone"}
  BY DEF PortStage, SessionStage, HttpStage
<1> QED
  BY <1>1, <1>2, <1>3, <1>4, <1>5, <1>6, <1>7, StageMoves

\* A socket that opens, or is refused at once, has no name yet.
LEMMA FirstMoves ==
  ASSUME IInv, RInv, NEW s \in Socket, Connect(s) \/ Unauthorized(s)
  PROVE  NamesNothing
<1> USE NoneFacts
<1>1. /\ stage[s] \in {"idle", "auth"} /\ stage[s] \in Early
      /\ UNCHANGED <<sessions, portVars, routeVars, accessVars>>
  BY DEF Connect, Unauthorized, Early
<1>2. PICK n \in {"auth", "gone"} : stage' = [stage EXCEPT ![s] = n]
  BY DEF Connect, Unauthorized, GoTo
<1>3. PICK state : /\ readyState' = [readyState EXCEPT ![s] = state]
                   /\ state = "OPEN" => readyState[s] = "OPEN" \/ stage[s] = "idle"
  BY DEF Connect, Unauthorized, Closing
<1>4. /\ UNCHANGED <<socketSubdomain, socketByTunnelKey, ownershipBySubdomain,
                     tcpBindingsBySubdomain, listens, ipAccessByToken,
                     ipTokenByTunnelKey>>
      /\ stage \in [Socket -> Stage]
      /\ readyState \in [Socket -> {"NONE", "OPEN", "CLOSING", "CLOSED"}]
  BY <1>1 DEF portVars, accessVars, routeVars, IInv, TypeOK
<1>5. Unfiled(s)
  BY <1>1, UnnamedUnfiled DEF RInv, NamedOnce
<1>6. EntriesStayOrGo /\ NamesStayOrGo /\ LiveKeepsSession /\ ServersStayOrGo
  BY <1>1, <1>4 DEF EntriesStayOrGo, NamesStayOrGo, LiveKeepsSession, ServersStayOrGo,
     Servers
<1>7. StagesGoOn
  BY <1>1, <1>2, <1>3, <1>4 DEF StagesGoOn, Early, PortStage, SessionStage, HttpStage,
     RInv, NamedOnce
<1>8. TokensAlive' /\ GoneHoldsNothing'
  BY <1>1, <1>2, <1>4, <1>5 DEF TokensAlive, RInv, TokensNamed, GoneHoldsNothing,
     Unfiled, Holds, Servers
<1>9. BoundLate'
  <2>1. \A srv \in tcpBindingsBySubdomain : srv.socket \in Socket \ {s}
    BY <1>5, ServerTypes DEF Unfiled, Servers
  <2> QED
    BY <1>2, <1>4, <2>1 DEF RInv, BoundLate
<1> QED
  BY <1>6, <1>7, <1>8, <1>9 DEF NamesNothing

\* The clean-up of an access token under the socket's own key leaves no other
\* key with a dead token.
LEMMA UnguardTokens ==
  ASSUME IInv, RInv, NEW s \in Socket, NEW k \in TunnelKey,
         socketSubdomain[s] = k, UnguardPort(s, k)
  PROVE  /\ TokensAlive'
         /\ \A j \in TunnelKey :
              /\ ipTokenByTunnelKey'[j] \in {ipTokenByTunnelKey[j], None}
              /\ ipTokenByTunnelKey'[j] # s
<1>1. ipTokenByTunnelKey \in [TunnelKey -> Socket \cup {None}]
  BY DEF IInv, TypeOK
<1> QED
  BY <1>1, NoneFacts DEF UnguardPort, accessVars, TokensAlive, RInv, TokensNamed

\* A bind that is answered: what its handler may rely on.
LEMMA AnsweredFacts ==
  ASSUME IInv, RInv, NEW s \in Socket, NEW srv \in ListenOf(s)
  PROVE  /\ srv \in Servers /\ srv.socket = s
         /\ socketSubdomain[s] = BaseKey(srv.key)
         /\ BaseKey(srv.key) \in TunnelKey
         /\ stage[s] # "listen_dedicated" =>
              srv.key \in TunnelKey /\ socketSubdomain[s] = srv.key
         /\ \A a \in listens \ {srv} : a.socket # s
         /\ Ports!ListenSucceeds(srv) \/ Ports!ListenFails(srv) =>
              /\ ServersStayOrGo
              /\ \A a \in tcpBindingsBySubdomain' :
                   a \in tcpBindingsBySubdomain \/ a \in ListenOf(s)
<1>1. srv \in listens /\ srv \in Servers /\ srv.socket = s
  BY DEF ListenOf, Servers
<1>2. socketSubdomain[s] = BaseKey(srv.key) /\ BaseKey(srv.key) \in TunnelKey
  BY <1>1, ServerTypes DEF RInv, ServersNamed
<1>3. stage[s] # "listen_dedicated" => srv.key \in TunnelKey /\ socketSubdomain[s] = srv.key
  BY <1>1, <1>2, BaseKeys DEF IInv, ListensOK
<1>4. \A a \in listens \ {srv} : a.socket # s
  BY <1>1 DEF IInv, ListensOK
<1>5. ASSUME Ports!ListenSucceeds(srv) \/ Ports!ListenFails(srv)
      PROVE  /\ ServersStayOrGo
             /\ \A a \in tcpBindingsBySubdomain' :
                  a \in tcpBindingsBySubdomain \/ a \in ListenOf(s)
  BY <1>1, <1>5 DEF Ports!ListenSucceeds, Ports!ListenFails, ServersStayOrGo, Servers,
     ListenOf
<1> QED
  BY <1>1, <1>2, <1>3, <1>4, <1>5

\* listen() answered the handler of a registration that goes on.
LEMMA AnsweredMoves ==
  ASSUME IInv, RInv, NEW s \in Socket,
         Listening(s) \/ HttpListening(s) \/ DedicatedListening(s)
  PROVE  NamesNothing
<1>1. /\ stage[s] \in PortStage \cup SessionStage
      /\ UNCHANGED <<readyState, sessions, routeVars, accessVars>>
  BY DEF Listening, HttpListening, DedicatedListening, PortStage, SessionStage
<1>2. PICK srv \in ListenOf(s) : Ports!ListenSucceeds(srv) \/ Ports!ListenFails(srv)
  BY DEF Listening, HttpListening, DedicatedListening
<1>3. PICK n \in {"http_bound", "registered", "orphan"} :
        /\ stage' = [stage EXCEPT ![s] = n]
        /\ n = "orphan" => readyState[s] = "CLOSED"
        /\ n \in HttpStage => stage[s] \in HttpStage
  BY DEF Listening, HttpListening, DedicatedListening, Announce, GoTo, Ended,
     HttpStage
<1>4. n \in Stage /\ n \in BoundStage /\ n \notin Early \cup PortStage \cup {"gone"}
  BY DEF Stage, InFlight, BoundStage, Early, PortStage
<1>5. TokensAlive'
  BY <1>1 DEF accessVars, TokensAlive, RInv, TokensNamed
<1> QED
  BY <1>1, <1>2, <1>3, <1>4, <1>5, AnsweredFacts, StageMoves DEF accessVars

\* The next one's raw port is a bind under the name of its socket.
LEMMA HttpContinuesMoves ==
  ASSUME IInv, RInv, NEW s \in Socket, HttpContinues(s)
  PROVE  NamesNothing
<1> DEFINE k == socketSubdomain[s]
<1>1. /\ stage[s] = "http_bound" /\ k \in TunnelKey
      /\ UNCHANGED <<readyState, sessions, routeVars, accessVars>>
  BY DEF HttpContinues, IInv, ListensOK
<1>2. PICK n \in {"listen_dedicated", "registered", "orphan"} :
        /\ stage' = [stage EXCEPT ![s] = n]
        /\ n = "orphan" => readyState[s] = "CLOSED"
  BY DEF HttpContinues, AwaitPooled, Announce, GoTo, Ended
<1>3. /\ n \in Stage /\ n \in BoundStage /\ n \notin Early \cup PortStage \cup {"gone"}
      /\ stage[s] \in PortStage \cup SessionStage /\ stage[s] \in HttpStage
  BY <1>1 DEF Stage, InFlight, BoundStage, Early, PortStage, SessionStage, HttpStage
<1>4. TokensAlive'
  BY <1>1 DEF accessVars, TokensAlive, RInv, TokensNamed
<1>5. /\ tcpBindingsBySubdomain' = tcpBindingsBySubdomain
      /\ \A srv \in listens' : \/ srv \in listens
                               \/ srv.socket = s /\ srv.key = Dedicated(k)
  BY DEF HttpContinues, AwaitPooled, Ports!BindPooled, Ports!BeginBind, portVars
<1>6. ~ Synthetic(k)
  BY <1>1 DEF RInv, NamedOnce, HttpStage
<1>7. ServersStayOrGo
  BY <1>1, <1>5, <1>6, BaseKeys DEF ServersStayOrGo, Servers
<1> QED
  BY <1>1, <1>2, <1>3, <1>4, <1>5, <1>7, StageMoves DEF accessVars

\* The bind of a session's port, or of a mapped one, failed.
LEMMA FailedMoves ==
  ASSUME IInv, RInv, NEW s \in Socket,
         FixedFailed(s) \/ TcpFailed(s) \/ HttpFailed(s)
  PROVE  NamesNothing
<1>1. /\ stage[s] \in {"listen_fixed", "listen_tcp", "listen_http"}
      /\ UNCHANGED <<readyState, routeVars>>
      /\ sessions' = sessions \/ sessions' = RemoveBySocket(s)
  BY DEF FixedFailed, TcpFailed, HttpFailed
<1>2. PICK srv \in ListenOf(s) : /\ Ports!ListenFails(srv)
                                 /\ UnguardPort(s, srv.key) \/ UNCHANGED accessVars
  BY DEF FixedFailed, TcpFailed, HttpFailed
<1>3. PICK n \in {"refused", "orphan"} :
        /\ stage' = [stage EXCEPT ![s] = n]
        /\ n = "orphan" => readyState[s] = "CLOSED"
  BY DEF FixedFailed, TcpFailed, HttpFailed, GoTo, Ended
<1>4. /\ n \in Stage
      /\ n \notin Early \cup PortStage \cup SessionStage \cup HttpStage \cup {"gone"}
      /\ stage[s] \notin BoundStage /\ stage[s] # "listen_dedicated"
  BY <1>1 DEF Stage, InFlight, BoundStage, Early, PortStage, SessionStage, HttpStage
<1>5. /\ TokensAlive'
      /\ \A k \in TunnelKey : ipTokenByTunnelKey'[k] \in {ipTokenByTunnelKey[k], None}
  <2>1. srv.key \in TunnelKey /\ socketSubdomain[s] = srv.key
    BY <1>4, AnsweredFacts
  <2>2. CASE UnguardPort(s, srv.key)
    BY <2>1, <2>2, UnguardTokens
  <2>3. CASE UNCHANGED accessVars
    BY <2>3 DEF accessVars, TokensAlive, RInv, TokensNamed
  <2> QED
    BY <1>2, <2>2, <2>3
<1>6. tcpBindingsBySubdomain' = tcpBindingsBySubdomain
  BY <1>2 DEF Ports!ListenFails
<1> QED
  BY <1>1, <1>2, <1>3, <1>4, <1>5, <1>6, AnsweredFacts, StageMoves

\* A port-only registration that failed takes its socket's name back.
LEMMA PortOnlyFailedMoves ==
  ASSUME IInv, RInv, NEW s \in Socket, PortOnlyFailed(s)
  PROVE  NamesNothing
<1> USE NoneFacts
<1>1. PICK srv \in ListenOf(s) :
        /\ Ports!ListenFails(srv)
        /\ UnguardPort(s, srv.key)
        /\ socketSubdomain' = [socketSubdomain EXCEPT ![s] = None]
        /\ socketByTunnelKey' = [socketByTunnelKey EXCEPT ![srv.key] = None]
        /\ ownershipBySubdomain' = [ownershipBySubdomain EXCEPT ![srv.key] = None]
  BY DEF PortOnlyFailed
<1>2. stage[s] = "listen_port" /\ UNCHANGED <<readyState, sessions>>
  BY DEF PortOnlyFailed
<1>3. PICK n \in {"refused", "orphan"} :
        /\ stage' = [stage EXCEPT ![s] = n]
        /\ n = "orphan" => readyState[s] = "CLOSED"
  BY DEF PortOnlyFailed, GoTo, Ended
<1>4. /\ stage \in [Socket -> Stage]
      /\ socketSubdomain \in [Socket -> TunnelKey \cup {None}]
      /\ socketByTunnelKey \in [TunnelKey -> Socket \cup {None}]
      /\ ownershipBySubdomain \in [TunnelKey -> User \cup {None}]
      /\ sessions \in [Sub -> Socket \cup {None}]
      /\ \A a \in Servers : a.socket \in Socket
  BY ServerTypes DEF IInv, TypeOK
<1>5. /\ srv.key \in TunnelKey /\ socketSubdomain[s] = srv.key /\ Synthetic(srv.key)
      /\ \A a \in listens \ {srv} : a.socket # s
  BY <1>2, AnsweredFacts DEF RInv, NamedOnce, PortStage
<1>6. /\ TokensAlive'
      /\ \A k \in TunnelKey : /\ ipTokenByTunnelKey'[k] \in {ipTokenByTunnelKey[k], None}
                              /\ ipTokenByTunnelKey'[k] # s
  BY <1>1, <1>5, UnguardTokens
<1>7. /\ tcpBindingsBySubdomain' = tcpBindingsBySubdomain
      /\ listens' = listens \ {srv}
  BY <1>1 DEF Ports!ListenFails
<1>8. \A a \in tcpBindingsBySubdomain : a.socket # s
  BY <1>2 DEF RInv, BoundLate
<1>9. Unfiled(s)'
  <2>1. \A x \in Sub : sessions'[x] # s
    BY <1>2, <1>5, SubKeyFacts DEF RInv, RouteConsistent
  <2>2. \A k \in TunnelKey : socketByTunnelKey'[k] # s
    BY <1>1, <1>4, <1>5 DEF RInv, RouteConsistent
  <2>3. \A a \in Servers' : a.socket # s
    BY <1>5, <1>7, <1>8 DEF Servers
  <2> QED
    BY <1>6, <2>1, <2>2, <2>3 DEF Unfiled
<1>10. EntriesStayOrGo
  BY <1>1, <1>2, <1>4, <1>5, <1>6 DEF EntriesStayOrGo
<1>11. NamesStayOrGo
  BY <1>1, <1>3, <1>4, <1>9 DEF NamesStayOrGo, PortStage, HttpStage
<1>12. ServersStayOrGo
  BY <1>7 DEF ServersStayOrGo, Servers
<1>13. StagesGoOn
  BY <1>2, <1>3, <1>4 DEF StagesGoOn, RInv, NamedOnce, Early, PortStage, SessionStage,
     HttpStage
<1>14. LiveKeepsSession
  BY <1>2 DEF LiveKeepsSession
<1>15. BoundLate'
  BY <1>3, <1>4, <1>7, <1>8 DEF RInv, BoundLate, Servers
<1>16. GoneHoldsNothing'
  <2> SUFFICES ASSUME NEW z \in Socket, stage'[z] = "gone"
               PROVE  ~ Holds(z)'
    BY DEF GoneHoldsNothing
  <2>1. z # s /\ stage[z] = "gone"
    BY <1>3, <1>4
  <2>2. ~ Holds(z)
    BY <2>1 DEF RInv, GoneHoldsNothing
  <2> QED
    BY <1>1, <1>2, <1>4, <1>5, <1>7, <2>2 DEF Holds
<1> QED
  BY <1>6, <1>10, <1>11, <1>12, <1>13, <1>14, <1>15, <1>16 DEF NamesNothing

\* What a close handler tears down is all that was filed about its socket.
LEMMA ClosedMoves ==
  ASSUME IInv, RInv, NEW s \in Socket, Closed(s)
  PROVE  NamesNothing
<1> USE NoneFacts
<1> DEFINE k == socketSubdomain[s]
<1>1. /\ readyState[s] \in {"OPEN", "CLOSING"}
      /\ readyState' = [readyState EXCEPT ![s] = "CLOSED"]
      /\ readyState \in [Socket -> {"NONE", "OPEN", "CLOSING", "CLOSED"}]
      /\ stage \in [Socket -> Stage]
      /\ sessions \in [Sub -> Socket \cup {None}]
      /\ socketSubdomain \in [Socket -> TunnelKey \cup {None}]
      /\ socketByTunnelKey \in [TunnelKey -> Socket \cup {None}]
      /\ ownershipBySubdomain \in [TunnelKey -> User \cup {None}]
      /\ ipTokenByTunnelKey \in [TunnelKey -> Socket \cup {None}]
      /\ \A srv \in Servers : srv.socket \in Socket
  BY ServerTypes DEF Closed, IInv, TypeOK
<1>2. socketSubdomain' = socketSubdomain
  BY DEF Closed, routeVars
<1>3. CASE stage[s] \in {"auth", "gone"}
  <2>1. UNCHANGED <<stage, sessions, socketByTunnelKey, ownershipBySubdomain,
                    tcpBindingsBySubdomain, listens, ipAccessByToken,
                    ipTokenByTunnelKey>>
    BY <1>3 DEF Closed, routeVars, portVars, accessVars
  <2>2. UNCHANGED accessVars
    BY <2>1 DEF accessVars
  <2> QED
    BY <1>1, <1>2, <2>1, <2>2, StagesStay
<1>4. CASE stage[s] \notin {"auth", "gone"}
  <2>1. /\ sessions' = RemoveBySocket(s)
        /\ stage' = [stage EXCEPT ![s] = IF @ \in InFlight THEN @ ELSE "gone"]
    BY <1>4 DEF Closed
  <2>2. /\ \A j \in TunnelKey :
             /\ socketByTunnelKey'[j] \in {socketByTunnelKey[j], None}
             /\ ownershipBySubdomain'[j] \in {ownershipBySubdomain[j], None}
             /\ ipTokenByTunnelKey'[j] \in {ipTokenByTunnelKey[j], None}
             /\ socketByTunnelKey'[j] # s
        /\ tcpBindingsBySubdomain' \subseteq tcpBindingsBySubdomain
        /\ listens' = listens
        /\ \A srv \in tcpBindingsBySubdomain' : srv.socket # s
        /\ TokensAlive'
    <3>1. CASE k = None
      <4>1. UNCHANGED <<socketByTunnelKey, ownershipBySubdomain, ipAccessByToken,
                        tcpBindingsBySubdomain, listens, ipTokenByTunnelKey>>
        BY <1>4, <3>1 DEF Closed, portVars, accessVars
      <4>2. Unfiled(s)
        BY <3>1, UnnamedUnfiled
      <4> QED
        BY <4>1, <4>2 DEF Unfiled, Servers, RInv, TokensNamed, TokensAlive
    <3>2. CASE k # None
      <4>1. k \in TunnelKey /\ TearDown(s, k)
        BY <1>1, <1>4, <3>2 DEF Closed
      <4>2. /\ socketByTunnelKey' = [socketByTunnelKey EXCEPT ![k] = None]
            /\ ownershipBySubdomain' = [ownershipBySubdomain EXCEPT ![k] = None]
            /\ ipAccessByToken' = ipAccessByToken \ {ipTokenByTunnelKey[k]}
            /\ ipTokenByTunnelKey' = [ipTokenByTunnelKey EXCEPT ![k] = None]
            /\ tcpBindingsBySubdomain' = tcpBindingsBySubdomain
                                           \ Ports!BindingsAt({k, Dedicated(k)})
            /\ listens' = listens
        BY <4>1 DEF TearDown, Ports!Release
      <4> HIDE DEF k
      <4>3. \A j \in TunnelKey : /\ socketByTunnelKey'[j] \in {socketByTunnelKey[j], None}
                                 /\ ownershipBySubdomain'[j] \in {ownershipBySubdomain[j], None}
                                 /\ ipTokenByTunnelKey'[j] \in {ipTokenByTunnelKey[j], None}
        BY <1>1, <4>2
      <4>4. \A j \in TunnelKey : socketByTunnelKey'[j] # s
        BY <1>1, <4>1, <4>2 DEF RInv, RouteConsistent, k
      <4>5. ASSUME NEW srv \in tcpBindingsBySubdomain, srv.socket = s
            PROVE  srv.key \in {k, Dedicated(k)}
        <5>1. srv \in Servers /\ BaseKey(srv.key) = k
          BY <4>5 DEF RInv, ServersNamed, Servers, k
        <5>2. srv.key \in Key
          BY <5>1, ServerTypes
        <5> QED
          BY <5>1, <5>2, BaseKeys DEF Key
      <4>6. \A srv \in tcpBindingsBySubdomain' : srv.socket # s
        BY <4>2, <4>5 DEF Ports!BindingsAt
      <4>7. TokensAlive'
        BY <1>1, <4>1, <4>2 DEF RInv, TokensNamed, TokensAlive
      <4> QED
        BY <4>2, <4>3, <4>4, <4>6, <4>7
    <3> QED
      BY <3>1, <3>2
  <2>3. EntriesStayOrGo /\ NamesStayOrGo /\ LiveKeepsSession
    BY <1>1, <1>2, <2>1, <2>2 DEF EntriesStayOrGo, NamesStayOrGo, LiveKeepsSession,
       RemoveBySocket, Live
  <2>4. ServersStayOrGo
    BY <2>2 DEF ServersStayOrGo, Servers
  <2>5. StagesGoOn
    BY <1>1, <2>1 DEF StagesGoOn, RInv, NamedOnce, Early, PortStage, SessionStage,
       HttpStage
  <2>6. BoundLate'
    BY <1>1, <2>1, <2>2 DEF RInv, BoundLate, Servers
  <2>7. GoneHoldsNothing'
    <3> SUFFICES ASSUME NEW z \in Socket, stage'[z] = "gone"
                 PROVE  ~ Holds(z)'
      BY DEF GoneHoldsNothing
    <3>1. CASE z = s
      BY <1>1, <2>1, <2>2, <3>1 DEF Holds, RemoveBySocket
    <3>2. CASE z # s
      <4>1. ~ Holds(z)
        BY <1>1, <2>1, <3>2 DEF RInv, GoneHoldsNothing
      <4> QED
        BY <1>1, <2>1, <2>2, <4>1 DEF Holds, RemoveBySocket
    <3> QED
      BY <3>1, <3>2
  <2> QED
    BY <2>2, <2>3, <2>4, <2>5, <2>6, <2>7 DEF NamesNothing
<1> QED
  BY <1>3, <1>4

\* A socket the gateway asks to close is still open to its handlers.
LEMMA ClosingMoves ==
  ASSUME IInv, RInv,
         \/ \E s \in Socket : GatewayCloses(s)
         \/ \E x \in Sub : Evict(x)
         \/ \E k \in TunnelKey, reserved \in BOOLEAN : OfflineLookedUp(k, reserved)
         \/ \E t \in Token : SweepRedirect(t)
         \/ \E k \in TunnelKey : SessionRemoved(k)
         \/ UNCHANGED vars
  PROVE  NamesNothing
<1>1. /\ readyState \in [Socket -> {"NONE", "OPEN", "CLOSING", "CLOSED"}]
      /\ sessions \in [Sub -> Socket \cup {None}]
      /\ socketByTunnelKey \in [TunnelKey -> Socket \cup {None}]
      /\ ownershipBySubdomain \in [TunnelKey -> User \cup {None}]
  BY DEF IInv, TypeOK
<1>2. UNCHANGED <<stage, socketSubdomain, listens, accessVars,
                  tcpBindingsBySubdomain, socketByTunnelKey>>
  BY DEF GatewayCloses, Evict, OfflineLookedUp, SweepRedirect, SessionRemoved, vars,
     portVars, routeVars, socketVars
<1>3. CASE \E x \in Sub : Evict(x)
  <2>1. PICK x \in Sub : Evict(x)
    BY <1>3
  <2>2. UNCHANGED ownershipBySubdomain
    BY <2>1 DEF Evict, routeVars
  <2> QED
    BY <1>1, <1>2, <2>1, <2>2, NoneFacts, StagesStay DEF Evict, Closing
<1>4. CASE ~ \E x \in Sub : Evict(x)
  <2>1. UNCHANGED sessions
    BY <1>4 DEF GatewayCloses, OfflineLookedUp, SweepRedirect, SessionRemoved, vars
  <2>2. \A k \in TunnelKey : ownershipBySubdomain'[k] \in {ownershipBySubdomain[k], None}
    BY <1>1, <1>4 DEF GatewayCloses, OfflineLookedUp, SweepRedirect, SessionRemoved,
       vars, routeVars
  <2>3. \A s \in Socket : /\ readyState'[s] = "OPEN" => readyState[s] = "OPEN"
                          /\ readyState[s] = "CLOSED" => readyState'[s] = "CLOSED"
    BY <1>1, <1>4 DEF GatewayCloses, OfflineLookedUp, SweepRedirect, SessionRemoved,
       vars, socketVars
  <2> QED
    BY <1>2, <2>1, <2>2, <2>3, StagesStay
<1> QED
  BY <1>3, <1>4

\* A DELETE asks a socket to close, releases ports and forgets an owner.
LEMMA DeleteMoves ==
  ASSUME IInv, RInv,
         \/ \E u \in User, id \in TunnelKey : RemoveSession(u, id)
         \/ \E x \in Sub : RemoveReserved(x)
  PROVE  NamesNothing
<1>1. /\ readyState \in [Socket -> {"NONE", "OPEN", "CLOSING", "CLOSED"}]
      /\ ownershipBySubdomain \in [TunnelKey -> User \cup {None}]
  BY DEF IInv, TypeOK
<1>2. PICK k : /\ revokeLiveTunnel(k) /\ Ports!Release({k})
               /\ ownershipBySubdomain' \in
                    {ownershipBySubdomain, [ownershipBySubdomain EXCEPT ![k] = None]}
  BY DEF RemoveSession, RemoveReserved, routeVars
<1>3. UNCHANGED <<stage, sessions, socketSubdomain, socketByTunnelKey, accessVars>>
  BY DEF RemoveSession, RemoveReserved, routeVars
<1>4. listens' = listens /\ tcpBindingsBySubdomain' \subseteq tcpBindingsBySubdomain
  BY <1>2 DEF Ports!Release
<1>5. \A s \in Socket : /\ readyState'[s] = "OPEN" => readyState[s] = "OPEN"
                        /\ readyState[s] = "CLOSED" => readyState'[s] = "CLOSED"
  BY <1>1, <1>2 DEF revokeLiveTunnel, Closing
<1>6. \A j \in TunnelKey : ownershipBySubdomain'[j] \in {ownershipBySubdomain[j], None}
  BY <1>1, <1>2
<1> QED
  BY <1>3, <1>4, <1>5, <1>6, StagesStay

-----------------------------------------------------------------------------
(***************************************************************************)
(* The actions that name a socket.  That a port has no open socket behind  *)
(* it when it is given away is what the books are for.                     *)
(***************************************************************************)
BooksOK == Ports!BooksMatchServers /\ Ports!BindingsAreOpen

\* A port that is in no book has no server, and no bind in flight.
LEMMA PortIsFree ==
  ASSUME IInv, RInv, BooksOK, NEW p \in Port, p \notin Ports!Taken
  PROVE  KeyIsFree(PortKey(p))
<1>1. \A srv \in Servers : srv.port # p
  BY DEF BooksOK, Ports!BooksMatchServers, Ports!BindingsAreOpen, Ports!PortsOf,
     Ports!Taken, Servers
<1>2. \A srv \in Servers : BaseKey(srv.key) # PortKey(p)
  <2> SUFFICES ASSUME NEW srv \in Servers, BaseKey(srv.key) = PortKey(p)
               PROVE  FALSE
    OBVIOUS
  <2>1. srv.key = PortKey(srv.port) /\ srv.port \in Port
    BY PortKeyFacts, ServerTypes DEF RInv, ServersNamed
  <2>2. BaseKey(srv.key) = srv.key
    BY <2>1, PortKeyFacts, BaseKeys
  <2> QED
    BY <1>1, <2>1, <2>2 DEF PortKey
<1> QED
  BY <1>2, KeyShapes DEF KeyIsFree

\* A fresh access token is alive.
LEMMA GuardTokens ==
  ASSUME IInv, RInv, NEW s \in Socket, NEW k \in TunnelKey,
         GuardPort(s, k) \/ UNCHANGED accessVars
  PROVE  TokenGiven(s, k) /\ TokensAlive'
<1>1. ipTokenByTunnelKey \in [TunnelKey -> Socket \cup {None}]
  BY DEF IInv, TypeOK
<1> QED
  BY <1>1, NoneFacts
  DEF GuardPort, accessVars, TokenGiven, TokensAlive, RInv, TokensNamed

\* A bind that begins for s, under its tunnel's key or the raw port's.
LEMMA BindAdds ==
  ASSUME NEW s \in Socket, NEW k \in TunnelKey, NEW j \in {k, Dedicated(k)},
         NEW p \in Port, Ports!BeginBind(j, p, s),
         Synthetic(k) => j = PortKey(p)
  PROVE  ListenAdded(s, k) /\ UNCHANGED tcpBindingsBySubdomain
<1>1. BaseKey(j) = k
  BY BaseKeys
<1> DEFINE new == [key |-> j, port |-> p, socket |-> s]
<1>2. listens' = listens \cup {new} /\ UNCHANGED tcpBindingsBySubdomain
  BY DEF Ports!BeginBind
<1>3. new.key = j /\ new.port = p /\ new.socket = s
  OBVIOUS
<1> HIDE DEF new
<1> QED
  BY <1>1, <1>2, <1>3 DEF ListenAdded

\* A registration of a port names its socket after the port.
LEMMA PortNames ==
  ASSUME IInv, RInv, BooksOK, NEW s \in Socket,
         RegisterPortOnly(s) \/ \E p \in Port : RegisterFixed(s, p)
  PROVE  RInv'
<1>1. PICK p \in Port, n \in PortStage :
        /\ Track(s, PortKey(p)) /\ GuardPort(s, PortKey(p))
        /\ Ports!BeginBind(PortKey(p), p, s)
        /\ stage' = [stage EXCEPT ![s] = n]
  BY DEF RegisterPortOnly, RegisterFixed, GoTo, Ports!BindFixed, PortStage
<1> DEFINE k == PortKey(p)
<1>2. k \in TunnelKey /\ Synthetic(k)
  BY PortKeyFacts
<1>3. stage[s] \in Early /\ UNCHANGED <<readyState, sessions>>
  BY DEF RegisterPortOnly, RegisterFixed, PortOnlyWanted, Early
<1>4. KeyIsFree(k)
  BY <1>1, PortIsFree DEF Ports!BeginBind
<1>5. ListenAdded(s, k) /\ UNCHANGED tcpBindingsBySubdomain
  BY <1>1, <1>2, BindAdds
<1>6. TokenGiven(s, k) /\ TokensAlive'
  BY <1>1, <1>2, GuardTokens
<1>7. SessionHeld(s, k, n)
  BY <1>3, KeyShapes DEF SessionHeld
<1>8. n # "orphan" /\ n \notin HttpStage
  BY DEF PortStage, HttpStage
<1>9. Names(s, k, n)
  BY <1>1, <1>2, <1>3, <1>4, <1>5, <1>6, <1>7, <1>8 DEF Names
<1> QED
  BY <1>2, <1>9, NamingStep

\* A claim of a subdomain names its socket after it, and holds its session
\* unless the registration is refused in the same turn.
LEMMA ClaimNames ==
  ASSUME IInv, RInv, NEW s \in Socket, NEW x \in Sub,
         ClaimTcp(s, x) \/ ClaimHttp(s, x) \/ ClaimRequested(s, x)
  PROVE  RInv'
<1> DEFINE k == SubKey(x)
<1>1. /\ Claims(s, x)
      /\ k \in TunnelKey /\ ~ Synthetic(k)
      /\ \A y \in Sub : SubKey(y) = k => y = x
  BY SubKeyFacts, KeyShapes DEF ClaimTcp, ClaimHttp, ClaimRequested
<1>2. /\ stage[s] \in Early /\ Track(s, k) /\ UNCHANGED readyState
      /\ sessions[x] = None
      /\ sessions \in [Sub -> Socket \cup {None}]
      /\ ipTokenByTunnelKey \in [TunnelKey -> Socket \cup {None}]
  BY <1>1 DEF Claims, Early, IInv, TypeOK
<1>3. KeyIsFree(k)
  BY <1>1, <1>2 DEF KeyIsFree
<1>4. TokenGiven(s, k) /\ TokensAlive'
  <2>1. CASE GuardPort(s, k) \/ UNCHANGED accessVars
    BY <1>1, <2>1, GuardTokens
  <2>2. CASE ~ (GuardPort(s, k) \/ UNCHANGED accessVars)
    <3>1. /\ ipAccessByToken' = ipAccessByToken
          /\ ipTokenByTunnelKey' = IF IpProtection
                                   THEN [ipTokenByTunnelKey EXCEPT ![k] = None]
                                   ELSE ipTokenByTunnelKey
      BY <2>2 DEF ClaimTcp, ClaimHttp, ClaimRequested
    <3> QED
      BY <1>1, <1>2, <3>1 DEF TokenGiven, TokensAlive, RInv, TokensNamed
  <2> QED
    BY <2>1, <2>2
<1>5. ListenAdded(s, k) /\ UNCHANGED tcpBindingsBySubdomain
  <2>1. CASE \E j \in {k, Dedicated(k)} : Ports!BindPooled(j, s)
    BY <1>1, <2>1, BindAdds DEF Ports!BindPooled
  <2>2. CASE UNCHANGED portVars
    BY <2>2 DEF portVars, ListenAdded
  <2> QED
    BY <2>1, <2>2 DEF ClaimTcp, ClaimHttp, ClaimRequested, AwaitPooled
<1>6. PICK n \in SessionStage \cup {"refused", "orphan"} :
        /\ stage' = [stage EXCEPT ![s] = n]
        /\ n = "orphan" => readyState[s] = "CLOSED"
        /\ \/ sessions' = [sessions EXCEPT ![x] = s]
           \/ n \notin SessionStage /\ sessions' = sessions
  BY DEF ClaimTcp, ClaimHttp, ClaimRequested, AwaitPooled, Announce, GoTo, Ended,
     Hold, SessionStage
<1>7. SessionHeld(s, k, n)
  BY <1>1, <1>2, <1>6 DEF SessionHeld
<1>8. n \notin PortStage
  BY DEF PortStage, SessionStage
<1>9. Names(s, k, n)
  BY <1>1, <1>2, <1>3, <1>4, <1>5, <1>6, <1>7, <1>8 DEF Names
<1> QED
  BY <1>1, <1>9, NamingStep

-----------------------------------------------------------------------------
\* Every step of the gateway keeps RInv, given the books.
LEMMA NextRoutes ==
  ASSUME IInv, RInv, BooksOK, [Next]_vars
  PROVE  RInv'
<1>1. IInv'
  BY NextStep
<1>2. CASE NamesNothing
  BY <1>1, <1>2, NamesNothingStep
<1>3. CASE \E s \in Socket : Resumed(s)
  <2>1. PICK s \in Socket : Resumed(s)
    BY <1>3
  <2>2. CASE RegisterPortOnly(s) \/ \E p \in Port : RegisterFixed(s, p)
    BY <2>2, PortNames
  <2>3. CASE \E x \in Sub : ClaimTcp(s, x) \/ ClaimHttp(s, x) \/ ClaimRequested(s, x)
    BY <2>3, ClaimNames
  <2>4. CASE \/ Authenticated(s) \/ Unauthorized(s)
             \/ \E allowed \in BOOLEAN : EntitlementRead(s, allowed)
             \/ RefusePortOnly(s) \/ NoMapping(s) \/ ClaimFails(s)
    BY <1>2, <2>4, EarlyMoves, FirstMoves
  <2>5. CASE Listening(s) \/ HttpListening(s) \/ DedicatedListening(s)
    BY <1>2, <2>5, AnsweredMoves
  <2>6. CASE HttpContinues(s)
    BY <1>2, <2>6, HttpContinuesMoves
  <2>7. CASE FixedFailed(s) \/ TcpFailed(s) \/ HttpFailed(s) \/ PortOnlyFailed(s)
    BY <1>2, <2>7, FailedMoves, PortOnlyFailedMoves
  <2> QED
    BY <2>1, <2>2, <2>3, <2>4, <2>5, <2>6, <2>7 DEF Resumed
<1>4. CASE \E s \in Socket : \/ Connect(s)
                             \/ \E r \in Request, t \in KnownTokens \cup {None} :
                                  Register(s, r, t)
  BY <1>2, <1>4, FirstMoves, EarlyMoves
<1>5. CASE \E s \in Socket : Closed(s)
  BY <1>2, <1>5, ClosedMoves
<1>6. CASE \/ \E s \in Socket : GatewayCloses(s)
           \/ \E x \in Sub : Evict(x)
           \/ \E k \in TunnelKey, reserved \in BOOLEAN : OfflineLookedUp(k, reserved)
           \/ \E t \in Token : SweepRedirect(t)
           \/ \E k \in TunnelKey : SessionRemoved(k)
           \/ UNCHANGED vars
  BY <1>2, <1>6, ClosingMoves
<1>7. CASE \/ \E u \in User, id \in TunnelKey : RemoveSession(u, id)
           \/ \E x \in Sub : RemoveReserved(x)
  BY <1>2, <1>7, DeleteMoves
<1> QED
  BY <1>3, <1>4, <1>5, <1>6, <1>7 DEF Next

\* RInv holds in every reachable state, for every value of the constants.
THEOREM RoutesInvariant == Spec => []RInv
<1>1. IInv /\ RInv /\ BooksOK /\ [Next]_vars => RInv'
  BY NextRoutes
<1>2. Ports!PortClaimedOnce /\ Ports!BooksMatchServers /\ Ports!BindingsAreOpen => BooksOK
  BY DEF BooksOK
<1> QED
  BY InitRInv, <1>1, <1>2, SessionsInvariant, SessionsBooks, PTL DEF Spec

\* A socket that is filed under a key, or holds a session, believes in that
\* key: a revocation by key never reaches a socket registered as another.
THEOREM SessionsRouteConsistent == Spec => []RouteConsistent
<1>1. IInv /\ RInv => RouteConsistent
  BY RInvSuffices
<1> QED
  BY <1>1, SessionsInvariant, RoutesInvariant, PTL

\* The access token filed under a key is alive, so a close withdraws its link.
THEOREM SessionsAccessTokenAlive == Spec => []AccessTokenAlive
<1>1. IInv /\ RInv => AccessTokenAlive
  BY RInvSuffices
<1> QED
  BY <1>1, SessionsInvariant, RoutesInvariant, PTL

\* A socket whose close handler ran last holds no port, session or key.
THEOREM SessionsGoneHoldsNothing == Spec => []GoneHoldsNothing
<1>1. IInv /\ RInv => GoneHoldsNothing
  BY RInvSuffices
<1> QED
  BY <1>1, SessionsInvariant, RoutesInvariant, PTL

\* One tenant's port or subdomain never carries another tenant's live socket.
THEOREM SessionsTenantIsolation == Spec => []TenantIsolation
<1>1. IInv /\ RInv => TenantIsolation
  BY RInvSuffices
<1> QED
  BY <1>1, SessionsInvariant, RoutesInvariant, PTL

-----------------------------------------------------------------------------
(***************************************************************************)
(* Whose a redirect entry is, for every number of sockets, users,          *)
(* subdomains and ports: NoRedirectHijack.                                 *)
(*                                                                         *)
(* The entry of a token is written when a registration ends, long after    *)
(* MayReuse looked at it: the entry may be purged or swept, and the token  *)
(* taken by another socket of its user, between the two.  What survives is *)
(* whose token a suspended handler carries, which is TokensOwned.          *)
(***************************************************************************)
BindStage == ListenStage \cup {"http_bound"}

TokensOwned ==
  \A s \in Socket : stage[s] \in BindStage =>
    redirectToken[s] \in Token /\ Principal[redirectToken[s]] = Principal[s]

TInv == NoRedirectHijack /\ TokensOwned

\* Entries go, or stay with their user.
UsersStay ==
  \A t \in Token : \/ redirectByToken'[t] = None
                   \/ /\ redirectByToken[t] # None
                      /\ redirectByToken'[t].user = redirectByToken[t].user

\* When the gateway starts there are no entries.
LEMMA InitTInv == Init => TInv
  BY DEF Init, TInv, NoRedirectHijack, TokensOwned, BindStage, ListenStage, Token

\* An entry that is marked offline stays with its user.
LEMMA OfflineKeepsUser ==
  ASSUME IInv, NEW t \in Token, redirectByToken[t] # None,
         redirectByToken' = [redirectByToken EXCEPT ![t].connected = FALSE]
  PROVE  UsersStay
<1>1. redirectByToken \in [Token -> RedirectEntry \cup {None}]
  BY DEF IInv, TypeOK
<1>2. redirectByToken[t] \in RedirectEntry
  BY <1>1
<1>3. [redirectByToken[t] EXCEPT !.connected = FALSE].user = redirectByToken[t].user
  BY <1>2 DEF RedirectEntry
<1> QED
  BY <1>1, <1>3 DEF UsersStay

\* A purge removes entries.
LEMMA PurgeKeepsUsers ==
  ASSUME IInv, NEW k \in TunnelKey, purgeRedirectForKey(k)
  PROVE  UsersStay
  BY DEF purgeRedirectForKey, PurgedRedirects, UsersStay, IInv, TypeOK

\* Entries that do not change stay with their users.
LEMMA SameUsers ==
  ASSUME redirectByToken' = redirectByToken
  PROVE  UsersStay
  BY DEF UsersStay

\* Steps that write no entry and bring no handler to a bind keep TInv.
LEMMA UsersStayStep ==
  ASSUME TInv, UsersStay,
         \A s \in Socket : stage'[s] \in BindStage =>
           stage[s] \in BindStage /\ redirectToken'[s] = redirectToken[s]
  PROVE  TInv'
  BY DEF TInv, NoRedirectHijack, TokensOwned, UsersStay

\* The token a registration takes is of its own user.
LEMMA TokenForOwner ==
  ASSUME IInv, TInv, NEW s \in Socket
  PROVE  TokenFor(s) \in Token /\ Principal[TokenFor(s)] = Principal[s]
<1>1. SocketsOK
  BY TypeParts DEF IInv
<1> QED
  BY <1>1, TokenForType DEF TokenFor, MayReuse, TInv, NoRedirectHijack, Token

\* A registration that takes its token and goes on to a bind, or is refused.
LEMMA TakesToken ==
  ASSUME IInv, TInv, NEW s \in Socket, NEW n \in Stage, UsersStay,
         redirectToken' = [redirectToken EXCEPT ![s] = TokenFor(s)],
         stage' = [stage EXCEPT ![s] = n]
  PROVE  TInv'
<1>1. stage \in [Socket -> Stage] /\ redirectToken \in [Socket -> Token \cup {None}]
  BY DEF IInv, TypeOK
<1>2. NoRedirectHijack'
  BY DEF TInv, NoRedirectHijack, UsersStay
<1>3. TokensOwned'
  BY <1>1, TokenForOwner DEF TInv, TokensOwned
<1> QED
  BY <1>2, <1>3 DEF TInv

\* Taking a token writes no entry: the one reused is shown as offline.
LEMMA TakeTokenUsers ==
  ASSUME IInv, NEW s \in Socket, TakeToken(s)
  PROVE  /\ UsersStay
         /\ redirectToken' = [redirectToken EXCEPT ![s] = TokenFor(s)]
<1>1. SocketsOK
  BY TypeParts DEF IInv
<1>2. CASE MayReuse(s)
  BY <1>1, <1>2, TokenForType, OfflineKeepsUser DEF TakeToken, MayReuse
<1>3. CASE ~ MayReuse(s)
  BY <1>3, SameUsers DEF TakeToken
<1> QED
  BY <1>2, <1>3 DEF TakeToken

\* The announcement writes the entry of a token of its own user.
LEMMA AnnounceOwner ==
  ASSUME IInv, TInv, NEW s \in Socket, NEW t \in Token,
         Principal[t] = Principal[s], NEW k, NEW port, Announce(s, t, k, port)
  PROVE  TInv'
<1> DEFINE old   == redirectByToken[t]
           fresh == [tunnelKey |-> k, user |-> Principal[s], subdomain |-> None,
                     publicTcpPort |-> None, connected |-> FALSE]
           entry == IF old = None THEN fresh ELSE old
           new   == [entry EXCEPT !.subdomain = IF Synthetic(k) THEN @ ELSE k[2],
                                  !.publicTcpPort = port,
                                  !.connected = TRUE]
<1>1. /\ redirectByToken \in [Token -> RedirectEntry \cup {None}]
      /\ redirectToken \in [Socket -> Token \cup {None}]
      /\ stage \in [Socket -> Stage]
  BY DEF IInv, TypeOK
<1>2. new.user = Principal[t]
  <2>1. CASE old = None
    BY <2>1
  <2>2. CASE old # None
    <3>1. old \in RedirectEntry /\ entry = old
      BY <1>1, <2>2
    <3>2. old.user = Principal[t]
      BY <2>2 DEF TInv, NoRedirectHijack
    <3> QED
      BY <3>1, <3>2 DEF RedirectEntry
  <2> QED
    BY <2>1, <2>2
<1>3. /\ redirectByToken' = [redirectByToken EXCEPT ![t] = new]
      /\ redirectToken' = [redirectToken EXCEPT ![s] = t]
      /\ stage' = [stage EXCEPT ![s] = Ended(s, "registered")]
  BY DEF Announce, GoTo
<1> HIDE DEF new
<1>4. NoRedirectHijack'
  BY <1>1, <1>2, <1>3 DEF TInv, NoRedirectHijack
<1>5. Ended(s, "registered") \notin BindStage
  BY DEF Ended, BindStage, ListenStage
<1>6. TokensOwned'
  BY <1>1, <1>3, <1>5 DEF TInv, TokensOwned
<1> QED
  BY <1>4, <1>6 DEF TInv

-----------------------------------------------------------------------------
\* The actions that write no entry and take no token.
LEMMA QuietOwners ==
  ASSUME IInv, TInv, NEW s \in Socket,
         \/ Connect(s) \/ Authenticated(s) \/ Unauthorized(s)
         \/ \E r \in Request, t \in KnownTokens \cup {None} : Register(s, r, t)
         \/ \E allowed \in BOOLEAN : EntitlementRead(s, allowed)
         \/ RefusePortOnly(s) \/ NoMapping(s) \/ ClaimFails(s)
         \/ FixedFailed(s) \/ TcpFailed(s) \/ HttpFailed(s) \/ HttpListening(s)
  PROVE  TInv'
<1>1. stage \in [Socket -> Stage] /\ redirectToken \in [Socket -> Token \cup {None}]
  BY DEF IInv, TypeOK
<1>2. UsersStay
  BY SameUsers DEF Connect, Authenticated, Unauthorized, Register, EntitlementRead,
     RefusePortOnly, NoMapping, ClaimFails, FixedFailed, TcpFailed, HttpFailed,
     HttpListening, redirectVars
<1>3. \A z \in Socket : stage'[z] \in BindStage =>
        stage[z] \in BindStage /\ redirectToken'[z] = redirectToken[z]
  BY <1>1 DEF Connect, Authenticated, Unauthorized, Register, EntitlementRead,
     RefusePortOnly, NoMapping, ClaimFails, FixedFailed, TcpFailed, HttpFailed,
     HttpListening, GoTo, Ended, BindStage, ListenStage
<1> QED
  BY <1>2, <1>3, UsersStayStep

\* The registrations of a port take their token and begin their bind.
LEMMA PortOwners ==
  ASSUME IInv, TInv, NEW s \in Socket,
         RegisterPortOnly(s) \/ \E p \in Port : RegisterFixed(s, p)
  PROVE  TInv'
<1>1. CASE RegisterPortOnly(s)
  BY <1>1, TakeTokenUsers, TakesToken DEF RegisterPortOnly, GoTo, Stage, InFlight
<1>2. CASE \E p \in Port : RegisterFixed(s, p)
  <2>1. PICK p \in Port : RegisterFixed(s, p)
    BY <1>2
  <2>2. /\ redirectToken' = [redirectToken EXCEPT ![s] = TokenFor(s)]
        /\ stage' = [stage EXCEPT ![s] = "listen_fixed"]
    BY <2>1 DEF RegisterFixed, GoTo
  <2>3. UsersStay
    <3>1. CASE MayReuse(s)
      <4>1. SocketsOK
        BY TypeParts DEF IInv
      <4>2. redirectToken[s] \in Token /\ redirectByToken[redirectToken[s]] # None
        BY <3>1, <4>1, TokenForType DEF MayReuse
      <4> QED
        BY <2>1, <3>1, <4>2, OfflineKeepsUser DEF RegisterFixed
    <3>2. CASE ~ MayReuse(s)
      BY <2>1, <3>2, PortKeyFacts, PurgeKeepsUsers DEF RegisterFixed
    <3> QED
      BY <3>1, <3>2
  <2> QED
    BY <2>2, <2>3, TakesToken DEF Stage, InFlight
<1> QED
  BY <1>1, <1>2

\* The claims of a subdomain take their token, or announce it at once.
LEMMA ClaimOwners ==
  ASSUME IInv, TInv, NEW s \in Socket, NEW x \in Sub,
         ClaimTcp(s, x) \/ ClaimHttp(s, x) \/ ClaimRequested(s, x)
  PROVE  TInv'
<1>1. CASE TakeToken(s)
  <2>1. PICK n \in Stage : stage' = [stage EXCEPT ![s] = n]
    BY DEF ClaimTcp, ClaimHttp, ClaimRequested, AwaitPooled, Announce, GoTo, Ended,
       Stage, InFlight
  <2> QED
    BY <1>1, <2>1, TakeTokenUsers, TakesToken
<1>2. CASE ~ TakeToken(s)
  <2>1. \E port : Announce(s, TokenFor(s), SubKey(x), port)
    BY <1>2 DEF ClaimTcp, ClaimHttp, ClaimRequested
  <2> QED
    BY <2>1, TokenForOwner, AnnounceOwner
<1> QED
  BY <1>1, <1>2

\* A handler resumed by listen() announces the token it carries.
LEMMA AnsweredOwners ==
  ASSUME IInv, TInv, NEW s \in Socket,
         Listening(s) \/ DedicatedListening(s) \/ HttpContinues(s)
  PROVE  TInv'
<1>1. stage[s] \in BindStage
  BY DEF Listening, DedicatedListening, HttpContinues, BindStage, ListenStage
<1>2. redirectToken[s] \in Token /\ Principal[redirectToken[s]] = Principal[s]
  BY <1>1 DEF TInv, TokensOwned
<1>3. CASE \E k, port : Announce(s, redirectToken[s], k, port)
  BY <1>2, <1>3, AnnounceOwner
<1>4. CASE ~ \E k, port : Announce(s, redirectToken[s], k, port)
  <2>1. /\ stage' = [stage EXCEPT ![s] = "listen_dedicated"]
        /\ UNCHANGED <<redirectToken, redirectByToken>>
    BY <1>4 DEF Listening, DedicatedListening, HttpContinues, AwaitPooled, GoTo,
       redirectVars
  <2>2. stage \in [Socket -> Stage]
    BY DEF IInv, TypeOK
  <2> QED
    BY <1>1, <2>1, <2>2, SameUsers, UsersStayStep
<1> QED
  BY <1>3, <1>4

\* What ends a registration or a socket removes entries, or marks them offline.
LEMMA EndingOwners ==
  ASSUME IInv, TInv, NEW s \in Socket, PortOnlyFailed(s) \/ Closed(s)
  PROVE  TInv'
<1>1. stage \in [Socket -> Stage]
  BY DEF IInv, TypeOK
<1>2. \A z \in Socket : stage'[z] \in BindStage =>
        stage[z] \in BindStage /\ redirectToken'[z] = redirectToken[z]
  BY <1>1 DEF PortOnlyFailed, Closed, GoTo, Ended, BindStage, ListenStage
<1>3. CASE PortOnlyFailed(s)
  <2>1. PICK srv \in ListenOf(s) : purgeRedirectForKey(srv.key)
    BY <1>3 DEF PortOnlyFailed
  <2>2. srv.key \in TunnelKey
    BY <1>3 DEF PortOnlyFailed, ListenOf, IInv, ListensOK
  <2> QED
    BY <1>2, <2>1, <2>2, PurgeKeepsUsers, UsersStayStep
<1>4. CASE Closed(s)
  <2>1. CASE UNCHANGED redirectVars
    BY <1>2, <2>1, SameUsers, UsersStayStep DEF redirectVars
  <2>2. CASE ~ UNCHANGED redirectVars
    <3>1. socketSubdomain[s] # None /\ TearDown(s, socketSubdomain[s])
      BY <1>4, <2>2 DEF Closed
    <3> DEFINE k == socketSubdomain[s]
               t == redirectTokenByTunnelKey[k]
    <3>2. k \in TunnelKey
      BY <3>1 DEF IInv, TypeOK
    <3>3. /\ t # None /\ redirectByToken[t] # None
          /\ \/ purgeRedirectForKey(k)
             \/ redirectByToken' = [redirectByToken EXCEPT ![t].connected = FALSE]
      BY <2>2, <3>1 DEF TearDown
    <3>4. t \in Token
      BY <3>2, <3>3 DEF IInv, TypeOK
    <3>5. UsersStay
      BY <3>2, <3>3, <3>4, PurgeKeepsUsers, OfflineKeepsUser
    <3> QED
      BY <1>2, <3>5, UsersStayStep
  <2> QED
    BY <2>1, <2>2
<1> QED
  BY <1>3, <1>4

\* So does whatever else a gateway does to its entries.
LEMMA UpkeepOwners ==
  ASSUME IInv, TInv,
         \/ \E s \in Socket : GatewayCloses(s)
         \/ \E x \in Sub : Evict(x) \/ RemoveReserved(x)
         \/ \E k \in TunnelKey, reserved \in BOOLEAN : OfflineLookedUp(k, reserved)
         \/ \E t \in Token : SweepRedirect(t)
         \/ \E u \in User, id \in TunnelKey : RemoveSession(u, id)
         \/ \E k \in TunnelKey : SessionRemoved(k)
         \/ UNCHANGED vars
  PROVE  TInv'
<1>1. UNCHANGED <<stage, redirectToken>>
  BY DEF GatewayCloses, Evict, RemoveReserved, OfflineLookedUp, SweepRedirect,
     RemoveSession, SessionRemoved, vars, socketVars
<1>2. CASE UNCHANGED redirectByToken
  BY <1>1, <1>2, SameUsers, UsersStayStep
<1>3. CASE \E t \in Token : SweepRedirect(t)
  <2>1. redirectByToken \in [Token -> RedirectEntry \cup {None}]
    BY DEF IInv, TypeOK
  <2>2. UsersStay
    BY <1>3, <2>1 DEF SweepRedirect, UsersStay
  <2> QED
    BY <1>1, <2>2, UsersStayStep
<1>4. CASE \E k : purgeRedirectForKey(k)
  <2>1. UsersStay
    <3>1. PICK k : purgeRedirectForKey(k)
      BY <1>4
    <3> QED
      BY <3>1 DEF purgeRedirectForKey, PurgedRedirects, UsersStay, IInv, TypeOK
  <2> QED
    BY <1>1, <2>1, UsersStayStep
<1>5. \/ UNCHANGED redirectByToken
      \/ \E t \in Token : SweepRedirect(t)
      \/ \E k : purgeRedirectForKey(k)
  BY DEF GatewayCloses, Evict, RemoveReserved, OfflineLookedUp, RemoveSession,
     SessionRemoved, vars, redirectVars
<1> QED
  BY <1>2, <1>3, <1>4, <1>5

-----------------------------------------------------------------------------
\* Every step of the gateway keeps TInv.
LEMMA NextTokens ==
  ASSUME IInv, TInv, [Next]_vars
  PROVE  TInv'
<1>1. CASE \E s \in Socket : Resumed(s)
  <2>1. PICK s \in Socket : Resumed(s)
    BY <1>1
  <2>2. CASE RegisterPortOnly(s) \/ \E p \in Port : RegisterFixed(s, p)
    BY <2>2, PortOwners
  <2>3. CASE \E x \in Sub : ClaimTcp(s, x) \/ ClaimHttp(s, x) \/ ClaimRequested(s, x)
    BY <2>3, ClaimOwners
  <2>4. CASE \/ Authenticated(s) \/ Unauthorized(s)
             \/ \E allowed \in BOOLEAN : EntitlementRead(s, allowed)
             \/ RefusePortOnly(s) \/ NoMapping(s) \/ ClaimFails(s)
             \/ FixedFailed(s) \/ TcpFailed(s) \/ HttpFailed(s) \/ HttpListening(s)
    BY <2>4, QuietOwners
  <2>5. CASE Listening(s) \/ DedicatedListening(s) \/ HttpContinues(s)
    BY <2>5, AnsweredOwners
  <2>6. CASE PortOnlyFailed(s)
    BY <2>6, EndingOwners
  <2> QED
    BY <2>1, <2>2, <2>3, <2>4, <2>5, <2>6 DEF Resumed
<1>2. CASE \E s \in Socket : \/ Connect(s)
                             \/ \E r \in Request, t \in KnownTokens \cup {None} :
                                  Register(s, r, t)
  BY <1>2, QuietOwners
<1>3. CASE \E s \in Socket : Closed(s)
  BY <1>3, EndingOwners
<1>4. CASE \/ \E s \in Socket : GatewayCloses(s)
           \/ \E x \in Sub : Evict(x) \/ RemoveReserved(x)
           \/ \E k \in TunnelKey, reserved \in BOOLEAN : OfflineLookedUp(k, reserved)
           \/ \E t \in Token : SweepRedirect(t)
           \/ \E u \in User, id \in TunnelKey : RemoveSession(u, id)
           \/ \E k \in TunnelKey : SessionRemoved(k)
           \/ UNCHANGED vars
  BY <1>4, UpkeepOwners
<1> QED
  BY <1>1, <1>2, <1>3, <1>4 DEF Next

\* A redirect entry stays with the user of the registration that drew its
\* token, whoever replays the token: server.ts:2571.
THEOREM SessionsNoRedirectHijack == Spec => []NoRedirectHijack
<1>1. IInv /\ TInv /\ [Next]_vars => TInv'
  BY NextTokens
<1>2. TInv => NoRedirectHijack
  BY DEF TInv
<1> QED
  BY InitTInv, <1>1, <1>2, SessionsInvariant, PTL DEF Spec-----------------------------------------------------------------------------
(***************************************************************************)
(* ServersAreFiled, for a bind host that is an address.  No key is bound   *)
(* while another bind of it awaits listen(): a session keeps its           *)
(* subdomain, and a bind its port, as long as no event comes in between.   *)
(***************************************************************************)

\* The key of a bind in flight is that of its port, or of its socket's session.
KeyHeld(srv) ==
  \/ srv.key = PortKey(srv.port) /\ stage[srv.socket] # "listen_http"
  \/ \E x \in Sub :
       /\ srv.key \in {SubKey(x), Dedicated(SubKey(x))}
       /\ sessions[x] = srv.socket
       /\ socketSubdomain[srv.socket] = SubKey(x)

\* So is that of a socket between its two binds.
NameHeld(s) ==
  \E x \in Sub : socketSubdomain[s] = SubKey(x) /\ sessions[x] = s

FInv ==
  /\ ServersAreFiled
  /\ \A srv \in listens, b \in tcpBindingsBySubdomain : srv.key # b.key
  /\ \A a, b \in listens : a.key = b.key => a = b
  /\ \A srv \in listens : KeyHeld(srv)
  /\ \A s \in Socket : stage[s] = "http_bound" => NameHeld(s)

\* Keys of different kinds differ, and so do those of different ports or names.
LEMMA KeysDiffer ==
  /\ \A p, q : PortKey(p) = PortKey(q) => p = q
  /\ \A x, y : SubKey(x) = SubKey(y) => x = y
  /\ \A k, l : Dedicated(k) = Dedicated(l) => k = l
  /\ \A p, x : PortKey(p) # SubKey(x)
  /\ \A p, k : PortKey(p) # Dedicated(k)
  /\ \A x, k : SubKey(x) # Dedicated(k)
  BY DEF PortKey, SubKey, Dedicated

\* What the other sockets hold stays, as a session is given once.
LEMMA HeldStays ==
  ASSUME IInv, NEW s \in Socket, NEW z \in Socket \ {s},
         stage'[z] = stage[z], socketSubdomain'[z] = socketSubdomain[z],
         \A x \in Sub : sessions[x] \notin {None, s} => sessions'[x] = sessions[x]
  PROVE  /\ \A srv \in listens : srv.socket = z /\ KeyHeld(srv) => KeyHeld(srv)'
         /\ NameHeld(z) => NameHeld(z)'
<1>1. z # None
  BY NoneFacts
<1> QED
  BY <1>1 DEF KeyHeld, NameHeld

\* FInv when a handler that has no bind goes on without one.
LEMMA FiledQuiet ==
  ASSUME IInv, FInv, NEW s \in Socket, NEW n, stage[s] \notin ListenStage,
         stage' = [stage EXCEPT ![s] = n],
         n = "http_bound" => NameHeld(s)',
         \A z \in Socket \ {s} : socketSubdomain'[z] = socketSubdomain[z],
         \A x \in Sub : sessions[x] \notin {None, s} => sessions'[x] = sessions[x],
         UNCHANGED portVars
  PROVE  FInv'
<1>1. \A srv \in listens : srv.socket \in Socket \ {s}
  BY DEF IInv, ListensOK, TypeOK, Ports!TypeOK, Ports!Server
<1>2. \A srv \in listens' : KeyHeld(srv)'
  BY <1>1, HeldStays DEF FInv, portVars, IInv, TypeOK
<1>3. \A z \in Socket : stage'[z] = "http_bound" => NameHeld(z)'
  BY HeldStays DEF FInv, IInv, TypeOK
<1> QED
  BY <1>2, <1>3 DEF FInv, ServersAreFiled, portVars

\* FInv when it begins one, of a key that nobody else binds.
LEMMA FiledBegins ==
  ASSUME IInv, FInv, NEW s \in Socket, NEW n, stage[s] \notin ListenStage,
         stage' = [stage EXCEPT ![s] = n], n # "http_bound",
         NEW k \in Key, NEW p \in Port, Ports!BeginBind(k, p, s),
         \A srv \in listens : srv.key # k,
         KeyHeld([key |-> k, port |-> p, socket |-> s])',
         \A z \in Socket \ {s} : socketSubdomain'[z] = socketSubdomain[z],
         \A x \in Sub : sessions[x] \notin {None, s} => sessions'[x] = sessions[x]
  PROVE  FInv'
<1> DEFINE new == [key |-> k, port |-> p, socket |-> s]
<1>1. \A srv \in listens : srv.socket \in Socket \ {s}
  BY DEF IInv, ListensOK, TypeOK, Ports!TypeOK, Ports!Server
<1>2. /\ listens' = listens \cup {new}
      /\ tcpBindingsBySubdomain' = tcpBindingsBySubdomain
      /\ openServers' = openServers
      /\ \A b \in tcpBindingsBySubdomain : b.key # k
  BY DEF Ports!BeginBind, Ports!Bound, Ports!BindingsAt
<1>3. new.key = k
  OBVIOUS
<1>4. \A srv \in listens' : KeyHeld(srv)'
  <2>1. \A srv \in listens : KeyHeld(srv)'
    BY <1>1, HeldStays DEF FInv, IInv, TypeOK
  <2> QED
    BY <1>2, <2>1
<1>5. \A z \in Socket : stage'[z] = "http_bound" => NameHeld(z)'
  BY HeldStays DEF FInv, IInv, TypeOK
<1> HIDE DEF new
<1> QED
  BY <1>2, <1>3, <1>4, <1>5 DEF FInv, ServersAreFiled

\* FInv when listen() succeeds: the key has no binding, so none is replaced.
LEMMA FiledSucceeds ==
  ASSUME IInv, FInv, NEW s \in Socket, NEW n, NEW srv \in ListenOf(s),
         stage' = [stage EXCEPT ![s] = n],
         n = "http_bound" => NameHeld(s),
         Ports!ListenSucceeds(srv),
         UNCHANGED <<sessions, socketSubdomain>>
  PROVE  FInv'
<1>1. /\ listens' = listens \ {srv}
      /\ openServers' = openServers \cup {srv}
      /\ tcpBindingsBySubdomain' = tcpBindingsBySubdomain \cup {srv}
  BY DEF Ports!ListenSucceeds, Ports!BindingsAt, FInv
<1>2. \A z \in Socket : stage'[z] = "http_bound" => NameHeld(z)'
  BY DEF FInv, IInv, TypeOK, NameHeld
<1>3. \A a \in listens' : KeyHeld(a)'
  <2>1. \A a \in listens' : a.socket \in Socket \ {s}
    BY <1>1 DEF IInv, ListensOK, TypeOK, Ports!TypeOK, Ports!Server, ListenOf
  <2> QED
    BY <1>1, <2>1, HeldStays DEF FInv, IInv, TypeOK
<1> QED
  BY <1>1, <1>2, <1>3 DEF FInv, ServersAreFiled, ListenOf

\* FInv when listen() fails.
LEMMA FiledFails ==
  ASSUME IInv, FInv, NEW s \in Socket, NEW n, n # "http_bound",
         NEW srv \in ListenOf(s),
         stage' = [stage EXCEPT ![s] = n],
         Ports!ListenFails(srv),
         \A z \in Socket \ {s} : socketSubdomain'[z] = socketSubdomain[z],
         \A x \in Sub : sessions[x] \notin {None, s} => sessions'[x] = sessions[x]
  PROVE  FInv'
<1>1. /\ listens' = listens \ {srv}
      /\ UNCHANGED <<openServers, tcpBindingsBySubdomain>>
  BY DEF Ports!ListenFails
<1>2. \A a \in listens' : a.socket \in Socket \ {s}
  BY <1>1 DEF IInv, ListensOK, TypeOK, Ports!TypeOK, Ports!Server, ListenOf
<1>3. \A a \in listens' : KeyHeld(a)'
  BY <1>1, <1>2, HeldStays DEF FInv, IInv, TypeOK
<1>4. \A z \in Socket : stage'[z] = "http_bound" => NameHeld(z)'
  BY HeldStays DEF FInv, IInv, TypeOK
<1> QED
  BY <1>1, <1>3, <1>4 DEF FInv, ServersAreFiled

\* FInv when an event comes: nothing is in flight.
LEMMA FiledEvent ==
  ASSUME FInv, BindHostIsAddress, EventTurn,
         UNCHANGED portVars \/ \E keys : Ports!Release(keys),
         \A s \in Socket : stage'[s] = "http_bound" => stage[s] = "http_bound"
  PROVE  FInv'
<1>1. listens' = {}
  BY DEF EventTurn, portVars, Ports!Release
<1>2. ServersAreFiled'
  BY DEF FInv, ServersAreFiled, portVars, Ports!Release
<1>3. \A s \in Socket : stage'[s] # "http_bound"
  BY DEF EventTurn
<1> QED
  BY <1>1, <1>2, <1>3 DEF FInv

-----------------------------------------------------------------------------
\* A port that is free has no bind of its key in flight.
LEMMA FreshPort ==
  ASSUME FInv, Ports!BooksMatchServers, NEW p, p \notin Ports!Taken
  PROVE  \A srv \in listens : srv.key # PortKey(p)
BY KeysDiffer
   DEF FInv, KeyHeld, Ports!BooksMatchServers, Ports!PortsOf, Ports!Taken

\* Nor has a subdomain whose session is free, or that of a socket that awaits none.
LEMMA FreshName ==
  ASSUME IInv, FInv, NEW s \in Socket, stage[s] \notin ListenStage,
         NEW x \in Sub, sessions[x] \in {None, s},
         NEW k \in {SubKey(x), Dedicated(SubKey(x))}
  PROVE  \A srv \in listens : srv.key # k
<1>1. \A srv \in listens : srv.socket \notin {None, s}
  BY NoneFacts DEF IInv, ListensOK, TypeOK, Ports!TypeOK, Ports!Server
<1> QED
  BY <1>1, KeysDiffer DEF FInv, KeyHeld

\* The handlers that bind the port of a key.
LEMMA FiledByPort ==
  ASSUME IInv, FInv, Ports!BooksMatchServers, NEW s \in Socket,
         RegisterPortOnly(s) \/ \E p \in Port : RegisterFixed(s, p)
  PROVE  FInv'
<1>1. PICK p \in Port, n \in {"listen_port", "listen_fixed"} :
        /\ Ports!BeginBind(PortKey(p), p, s)
        /\ stage[s] \notin ListenStage
        /\ stage' = [stage EXCEPT ![s] = n]
        /\ socketSubdomain' = [socketSubdomain EXCEPT ![s] = PortKey(p)]
        /\ sessions' = sessions
  BY DEF RegisterPortOnly, RegisterFixed, PortOnlyWanted, Track, GoTo,
         Ports!BindFixed, ListenStage
<1>2. PortKey(p) \in Key
  BY PortKeyFacts, TunnelKeyFacts
<1>3. \A srv \in listens : srv.key # PortKey(p)
  BY <1>1, FreshPort DEF Ports!BeginBind
<1>4. KeyHeld([key |-> PortKey(p), port |-> p, socket |-> s])'
  BY <1>1 DEF KeyHeld, IInv, TypeOK
<1>5. \A z \in Socket \ {s} : socketSubdomain'[z] = socketSubdomain[z]
  BY <1>1 DEF IInv, TypeOK
<1> QED
  BY <1>1, <1>2, <1>3, <1>4, <1>5, FiledBegins

\* A handler that binds a key of its session.
LEMMA FiledByName ==
  ASSUME IInv, FInv, NEW s \in Socket, stage[s] \notin ListenStage,
         NEW x \in Sub, sessions[x] \in {None, s},
         NEW k \in {SubKey(x), Dedicated(SubKey(x))},
         NEW n \in ListenStage, AwaitPooled(s, k, n),
         \A z \in Socket \ {s} : socketSubdomain'[z] = socketSubdomain[z],
         \A y \in Sub \ {x} : sessions'[y] = sessions[y],
         sessions'[x] = s, socketSubdomain'[s] = SubKey(x)
  PROVE  FInv'
<1>1. PICK p \in Port : Ports!BeginBind(k, p, s)
  BY DEF AwaitPooled, Ports!BindPooled
<1>2. stage' = [stage EXCEPT ![s] = n] /\ n # "http_bound"
  BY DEF AwaitPooled, GoTo, ListenStage
<1>3. k \in Key
  BY SubKeyFacts, TunnelKeyFacts
<1>4. KeyHeld([key |-> k, port |-> p, socket |-> s])'
  BY DEF KeyHeld
<1>5. \A y \in Sub : sessions[y] \notin {None, s} => sessions'[y] = sessions[y]
  OBVIOUS
<1> QED
  BY <1>1, <1>2, <1>3, <1>4, <1>5, FreshName, FiledBegins

\* The session and the key that a claim gives.
LEMMA ClaimGives ==
  ASSUME IInv, NEW s \in Socket, NEW x \in Sub, Claims(s, x),
         sessions' = sessions \/ Hold(s, x)
  PROVE  /\ stage[s] \notin ListenStage /\ sessions[x] = None
         /\ \A z \in Socket \ {s} : socketSubdomain'[z] = socketSubdomain[z]
         /\ socketSubdomain'[s] = SubKey(x)
         /\ \A y \in Sub \ {x} : sessions'[y] = sessions[y]
         /\ \A y \in Sub : sessions[y] \notin {None, s} => sessions'[y] = sessions[y]
         /\ Hold(s, x) => sessions'[x] = s
  BY DEF Claims, Track, Hold, IInv, TypeOK, ListenStage

\* The claims, each of which binds a port, has one, or goes without.
LEMMA FiledClaimTcp ==
  ASSUME IInv, FInv, NEW s \in Socket, NEW x \in Sub, ClaimTcp(s, x)
  PROVE  FInv'
<1>1. Claims(s, x) /\ (sessions' = sessions \/ Hold(s, x))
  BY DEF ClaimTcp
<1>2. CASE AwaitPooled(s, SubKey(x), "listen_tcp") /\ Hold(s, x)
  BY <1>1, <1>2, ClaimGives, FiledByName DEF ListenStage
<1>3. CASE /\ UNCHANGED portVars
           /\ stage' = [stage EXCEPT ![s] = Ended(s, "registered")]
  BY <1>1, <1>3, ClaimGives, EndedStage, FiledQuiet
<1>4. CASE UNCHANGED portVars /\ stage' = [stage EXCEPT ![s] = Ended(s, "refused")]
  BY <1>1, <1>4, ClaimGives, EndedStage, FiledQuiet
<1> QED
  BY <1>2, <1>3, <1>4 DEF ClaimTcp, Announce, GoTo

\* The HTTP tunnel may go on to its second bind.
LEMMA FiledClaimHttp ==
  ASSUME IInv, FInv, NEW s \in Socket, NEW x \in Sub, ClaimHttp(s, x)
  PROVE  FInv'
<1>1. Claims(s, x) /\ (sessions' = sessions \/ Hold(s, x))
  BY DEF ClaimHttp
<1>2. CASE AwaitPooled(s, SubKey(x), "listen_http") /\ Hold(s, x)
  BY <1>1, <1>2, ClaimGives, FiledByName DEF ListenStage
<1>3. CASE Hold(s, x) /\ GoTo(s, "http_bound") /\ UNCHANGED portVars
  <2>1. NameHeld(s)'
    BY <1>1, <1>3, ClaimGives DEF NameHeld
  <2> QED
    BY <1>1, <1>3, <2>1, ClaimGives, FiledQuiet DEF GoTo
<1>4. CASE GoTo(s, Ended(s, "refused")) /\ UNCHANGED portVars
  BY <1>1, <1>4, ClaimGives, EndedStage, FiledQuiet DEF GoTo
<1> QED
  BY <1>2, <1>3, <1>4 DEF ClaimHttp

\* A subdomain that was asked for has its raw port only.
LEMMA FiledClaimRequested ==
  ASSUME IInv, FInv, NEW s \in Socket, NEW x \in Sub, ClaimRequested(s, x)
  PROVE  FInv'
<1>1. Claims(s, x) /\ Hold(s, x)
  BY DEF ClaimRequested
<1>2. CASE AwaitPooled(s, Dedicated(SubKey(x)), "listen_dedicated")
  BY <1>1, <1>2, ClaimGives, FiledByName DEF ListenStage
<1>3. CASE /\ UNCHANGED portVars
           /\ stage' = [stage EXCEPT ![s] = Ended(s, "registered")]
  BY <1>1, <1>3, ClaimGives, EndedStage, FiledQuiet
<1> QED
  BY <1>2, <1>3 DEF ClaimRequested, Announce, GoTo

\* The second bind is of the key that the session of the first one holds.
LEMMA FiledHttpContinues ==
  ASSUME IInv, FInv, NEW s \in Socket, HttpContinues(s)
  PROVE  FInv'
<1>1. /\ stage[s] \notin ListenStage
      /\ sessions' = sessions /\ socketSubdomain' = socketSubdomain
  BY DEF HttpContinues, routeVars, ListenStage
<1>2. PICK x \in Sub : socketSubdomain[s] = SubKey(x) /\ sessions[x] = s
  BY DEF HttpContinues, FInv, NameHeld
<1>3. CASE AwaitPooled(s, Dedicated(socketSubdomain[s]), "listen_dedicated")
  BY <1>1, <1>2, <1>3, FiledByName DEF ListenStage
<1>4. CASE /\ UNCHANGED portVars
           /\ stage' = [stage EXCEPT ![s] = Ended(s, "registered")]
  BY <1>1, <1>4, EndedStage, FiledQuiet
<1> QED
  BY <1>3, <1>4 DEF HttpContinues, Announce, GoTo

\* The handlers that listen() answers with success.
LEMMA FiledListening ==
  ASSUME IInv, FInv, NEW s \in Socket,
         Listening(s) \/ HttpListening(s)
  PROVE  FInv'
<1>1. UNCHANGED <<sessions, socketSubdomain>>
  BY DEF Listening, HttpListening, routeVars
<1>2. CASE Listening(s)
  <2>1. PICK srv \in ListenOf(s) : /\ Ports!ListenSucceeds(srv)
                                   /\ stage' = [stage EXCEPT ![s] = Ended(s, "registered")]
    BY <1>2 DEF Listening, Announce, GoTo
  <2> QED
    BY <1>1, <2>1, EndedStage, FiledSucceeds
<1>3. CASE HttpListening(s)
  <2>1. PICK srv \in ListenOf(s) : Ports!ListenSucceeds(srv)
    BY <1>3 DEF HttpListening
  <2>2. NameHeld(s)
    <3>1. stage[s] = "listen_http" /\ srv \in listens /\ srv.socket = s
      BY <1>3 DEF HttpListening, ListenOf
    <3> QED
      BY <3>1 DEF FInv, KeyHeld, NameHeld
  <2> QED
    BY <1>1, <1>3, <2>1, <2>2, FiledSucceeds DEF HttpListening, GoTo
<1> QED
  BY <1>2, <1>3

\* The handlers that listen() answers with an error.
LEMMA FiledFailed ==
  ASSUME IInv, FInv, NEW s \in Socket,
         \/ FixedFailed(s) \/ PortOnlyFailed(s) \/ TcpFailed(s) \/ HttpFailed(s)
  PROVE  FInv'
<1>1. PICK srv \in ListenOf(s) : Ports!ListenFails(srv)
  BY DEF FixedFailed, PortOnlyFailed, TcpFailed, HttpFailed
<1>2. stage' = [stage EXCEPT ![s] = Ended(s, "refused")]
  BY DEF FixedFailed, PortOnlyFailed, TcpFailed, HttpFailed, GoTo
<1>3. \A z \in Socket \ {s} : socketSubdomain'[z] = socketSubdomain[z]
  BY DEF FixedFailed, PortOnlyFailed, TcpFailed, HttpFailed, routeVars, IInv, TypeOK
<1>4. \A x \in Sub : sessions[x] \notin {None, s} => sessions'[x] = sessions[x]
  BY DEF FixedFailed, PortOnlyFailed, TcpFailed, HttpFailed, RemoveBySocket
<1> QED
  BY <1>1, <1>2, <1>3, <1>4, EndedStage, FiledFails

\* The raw port, which is optional.
LEMMA FiledDedicated ==
  ASSUME IInv, FInv, NEW s \in Socket, DedicatedListening(s)
  PROVE  FInv'
<1>1. UNCHANGED <<sessions, socketSubdomain>>
  BY DEF DedicatedListening, routeVars
<1>2. stage' = [stage EXCEPT ![s] = Ended(s, "registered")]
  BY DEF DedicatedListening, Announce, GoTo
<1>3. PICK srv \in ListenOf(s) : Ports!ListenSucceeds(srv) \/ Ports!ListenFails(srv)
  BY DEF DedicatedListening
<1>4. CASE Ports!ListenSucceeds(srv)
  BY <1>1, <1>2, <1>4, EndedStage, FiledSucceeds
<1>5. CASE Ports!ListenFails(srv)
  BY <1>1, <1>2, <1>5, EndedStage, FiledFails
<1> QED
  BY <1>3, <1>4, <1>5

\* The handlers before a key is chosen, and the refusals.
LEMMA FiledEarly ==
  ASSUME IInv, FInv, NEW s \in Socket,
         \/ Authenticated(s) \/ Unauthorized(s)
         \/ \E allowed \in BOOLEAN : EntitlementRead(s, allowed)
         \/ RefusePortOnly(s) \/ NoMapping(s) \/ ClaimFails(s)
  PROVE  FInv'
<1>1. /\ stage[s] \notin ListenStage
      /\ UNCHANGED <<sessions, socketSubdomain, portVars>>
  BY DEF Authenticated, Unauthorized, EntitlementRead, RefusePortOnly, PortOnlyWanted,
         NoMapping, ClaimFails, routeVars, ListenStage
<1>2. PICK n \in {"ready", "gone", "mapping", "claim", "refused", "orphan"} :
        stage' = [stage EXCEPT ![s] = n]
  BY EndedStage DEF Authenticated, Unauthorized, EntitlementRead, RefusePortOnly,
         NoMapping, ClaimFails, GoTo
<1> QED
  BY <1>1, <1>2, FiledQuiet

\* What is not the answer to a handler comes in a turn of its own.
LEMMA FiledEvents ==
  ASSUME IInv, FInv, BindHostIsAddress, EventTurn,
         \/ \E s \in Socket : Connect(s)
         \/ \E s \in Socket, r \in Request, t \in KnownTokens \cup {None} : Register(s, r, t)
         \/ \E s \in Socket : GatewayCloses(s)
         \/ \E s \in Socket : Closed(s)
         \/ \E x \in Sub : Evict(x)
         \/ \E k \in TunnelKey, reserved \in BOOLEAN : OfflineLookedUp(k, reserved)
         \/ \E t \in Token : SweepRedirect(t)
         \/ \E u \in User, id \in TunnelKey : RemoveSession(u, id)
         \/ \E k \in TunnelKey : SessionRemoved(k)
         \/ \E x \in Sub : RemoveReserved(x)
  PROVE  FInv'
<1>1. UNCHANGED portVars \/ \E keys : Ports!Release(keys)
  BY DEF Connect, Register, GatewayCloses, Closed, TearDown, Evict, OfflineLookedUp,
         SweepRedirect, RemoveSession, SessionRemoved, RemoveReserved
<1>2. \/ UNCHANGED stage
      \/ \E s \in Socket, n \in {"auth", "entitlement", "gone"} :
           stage' = [stage EXCEPT ![s] = n]
      \/ \E s \in Socket : stage' = [stage EXCEPT ![s] = IF @ \in InFlight THEN @ ELSE "gone"]
  BY DEF Connect, Register, GatewayCloses, Closed, Evict, OfflineLookedUp, GoTo,
         SweepRedirect, RemoveSession, SessionRemoved, RemoveReserved, socketVars
<1>3. \A s \in Socket : stage'[s] = "http_bound" => stage[s] = "http_bound"
  BY <1>2 DEF IInv, TypeOK
<1> QED
  BY <1>1, <1>3, FiledEvent

\* FInv is kept.
LEMMA NextFiled ==
  ASSUME BindHostIsAddress, IInv, FInv, Ports!BooksMatchServers, [Next]_vars
  PROVE  FInv'
<1>1. CASE UNCHANGED vars
  BY <1>1 DEF vars, portVars, socketVars, routeVars, FInv, ServersAreFiled, KeyHeld, NameHeld
<1>2. CASE \E s \in Socket : Resumed(s)
  <2>1. PICK s \in Socket : Resumed(s)
    BY <1>2
  <2>2. CASE RegisterPortOnly(s) \/ \E p \in Port : RegisterFixed(s, p)
    BY <2>2, FiledByPort
  <2>3. CASE \E x \in Sub : ClaimTcp(s, x) \/ ClaimHttp(s, x) \/ ClaimRequested(s, x)
    BY <2>3, FiledClaimTcp, FiledClaimHttp, FiledClaimRequested
  <2>4. CASE \/ Authenticated(s) \/ Unauthorized(s)
             \/ \E allowed \in BOOLEAN : EntitlementRead(s, allowed)
             \/ RefusePortOnly(s) \/ NoMapping(s) \/ ClaimFails(s)
    BY <2>4, FiledEarly
  <2>5. CASE Listening(s) \/ HttpListening(s) \/ DedicatedListening(s)
    BY <2>5, FiledListening, FiledDedicated
  <2>6. CASE HttpContinues(s)
    BY <2>6, FiledHttpContinues
  <2>7. CASE FixedFailed(s) \/ TcpFailed(s) \/ HttpFailed(s) \/ PortOnlyFailed(s)
    BY <2>7, FiledFailed
  <2> QED
    BY <2>1, <2>2, <2>3, <2>4, <2>5, <2>6, <2>7 DEF Resumed
<1>3. CASE Next /\ ~ \E s \in Socket : Resumed(s)
  BY <1>3, FiledEvents DEF Next
<1> QED
  BY <1>1, <1>2, <1>3

\* If the bind host is an address, every server that is open is filed under its
\* key, in every reachable state.
THEOREM SessionsServersAreFiled == BindHostIsAddress => (Spec => []ServersAreFiled)
<1>1. Init => FInv
  BY DEF Init, Ports!Init, FInv, ServersAreFiled
<1>2. BindHostIsAddress /\ IInv /\ FInv /\ Ports!BooksMatchServers /\ [Next]_vars => FInv'
  BY NextFiled
<1>3. FInv => ServersAreFiled
  BY DEF FInv
<1>4. SUFFICES ASSUME BindHostIsAddress PROVE Spec => []ServersAreFiled
  OBVIOUS
<1>5. IInv /\ FInv /\ Ports!BooksMatchServers /\ [Next]_vars => FInv'
  BY <1>2, <1>4
<1> QED
  BY <1>1, <1>3, <1>5, SessionsInvariant, SessionsBooks, PTL DEF Spec
=============================================================================
