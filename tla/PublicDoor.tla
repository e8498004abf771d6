----------------------------- MODULE PublicDoor -----------------------------
(***************************************************************************)
(* Who gets through to a public TCP port: the access link /l/:token that   *)
(* lets an address in for a day, the stable redirect /r/:token that tells  *)
(* the link, and the rate limiter (rate-limit.ts) in front of the port,    *)
(* over the time in which one tunnel connects, is lost and comes back.     *)
(* Sessions that overlap are in TunnelSessions; here the tunnel has one    *)
(* at a time.                                                              *)
(***************************************************************************)
EXTENDS Naturals, Sequences

CONSTANTS
  Ips,          \* addresses that visit links and connect
  Window,       \* windowMs of the limiters, in ticks
  Day,          \* how long a visit of the link lets its address in, in ticks
  ConnLimit,    \* tcpConnectionRateLimit
  MaxTokens,    \* bound: registrations, each with an access token of its own
  MaxTime,      \* bound: ticks of the clock
  None

VARIABLES
  now,          \* Date.now()
  tunnel,       \* [at, token]: "off", "binding" or "on", and what guards the port
  minted,       \* access tokens so far
  ipAccess,     \* ipAccessByToken: token -> address -> expiresAt, 0 if not there
  redirect,     \* the entry of redirectByToken, or None: [connected, link, since], since
                \* when it is disconnected, 0 if it does not say
  conns,        \* tcpConnLimiter: buckets by address, lastSweep
  recent,       \* history: address -> when the limiter allowed its last connections
  visit,        \* history: token -> address -> its last visit of the link, or 0
  pass          \* history: the connection let in last: when, and when its address
                \* had opened the link; or None

tunnelVars == <<tunnel, minted, ipAccess, redirect>>
limitVars  == <<conns, recent>>
vars == <<now, tunnelVars, limitVars, visit, pass>>

Tokens == 1..MaxTokens

DoorAssumption ==
  /\ Window \in Nat \ {0} /\ Day \in Nat /\ ConnLimit \in Nat \ {0}
  /\ MaxTokens \in Nat /\ None \notin Tokens

-----------------------------------------------------------------------------
(***************************************************************************)
(* RateLimiter.  A bucket that is not there is one whose time is over.     *)
(***************************************************************************)

NoBucket == [count |-> 0, resetAt |-> 0]

NewLimiter == [buckets |-> [k \in Ips |-> NoBucket], lastSweep |-> 0]

Due == conns.lastSweep = 0 \/ now - conns.lastSweep >= Window

Swept ==
  IF Due THEN [buckets |-> [k \in Ips |-> IF conns.buckets[k].resetAt <= now THEN NoBucket
                                          ELSE conns.buckets[k]],
               lastSweep |-> now]
  ELSE conns

Allowed(key) ==
  LET bucket == Swept.buckets[key]
  IN bucket.resetAt <= now \/ bucket.count < ConnLimit

Take(key) ==
  [Swept EXCEPT !.buckets[key] =
     IF @.resetAt <= now  THEN [count |-> 1, resetAt |-> now + Window]
     ELSE IF @.count < ConnLimit THEN [count |-> @.count + 1, resetAt |-> @.resetAt]
     ELSE @]

-----------------------------------------------------------------------------
Init ==
  /\ now = 1
  /\ tunnel = [at |-> "off", token |-> None]
  /\ minted = 0
  /\ ipAccess = [t \in {} |-> 0]
  /\ redirect = None
  /\ conns = NewLimiter
  /\ recent = [ip \in Ips |-> <<>>]
  /\ visit = [t \in Tokens |-> [ip \in Ips |-> 0]]
  /\ pass = None

Tick ==
  /\ now < MaxTime /\ now' = now + 1
  /\ UNCHANGED <<tunnelVars, limitVars, visit, pass>>

\* register_tunnel of a raw TCP tunnel: with IP protection there is a fresh token.
\* A client that sends its redirect token keeps the entry; on a fixed port that gets
\* the new link at once, on a random port only when the port is bound.
Register ==
  /\ tunnel.at = "off"
  /\ \/ /\ minted < MaxTokens /\ minted' = minted + 1
        /\ tunnel' = [at |-> "binding", token |-> minted + 1]
        /\ ipAccess' = [t \in DOMAIN ipAccess \cup {minted + 1} |->
             IF t = minted + 1 THEN [ip \in Ips |-> 0] ELSE ipAccess[t]]
     \/ tunnel' = [at |-> "binding", token |-> None] /\ UNCHANGED <<minted, ipAccess>>
  /\ redirect' \in {None} \cup
       (IF redirect = None THEN {}
        ELSE {[redirect EXCEPT !.connected = FALSE, !.since = 0, !.link = link] :
                link \in {redirect.link, tunnel'.token}})
  /\ UNCHANGED <<now, limitVars, visit, pass>>

Without(t) == [u \in DOMAIN ipAccess \ {t} |-> ipAccess[u]]

\* The port is bound: the redirect tells so.
Bound ==
  /\ tunnel.at = "binding"
  /\ tunnel' = [tunnel EXCEPT !.at = "on"]
  /\ redirect' = [connected |-> TRUE, link |-> tunnel.token, since |-> now]
  /\ UNCHANGED <<now, minted, ipAccess, limitVars, visit, pass>>

\* The port is taken: the token is undone, the redirect entry stays as it is.
BindFails ==
  /\ tunnel.at = "binding"
  /\ tunnel' = [at |-> "off", token |-> None]
  /\ ipAccess' = Without(tunnel.token)
  /\ UNCHANGED <<now, minted, redirect, limitVars, visit, pass>>

\* The close handler: the port, the token and with it the addresses let in are
\* gone.  The redirect of a reservation says since when it is offline; that of a
\* fixed port, or of no reservation, is purged (the lookup is in TunnelSessions).
Disconnects ==
  /\ tunnel.at = "on"
  /\ tunnel' = [at |-> "off", token |-> None]
  /\ ipAccess' = Without(tunnel.token)
  /\ redirect' \in {None} \cup
       (IF redirect = None THEN {} ELSE {[redirect EXCEPT !.connected = FALSE, !.since = now]})
  /\ UNCHANGED <<now, minted, limitVars, visit, pass>>

\* redirectSweep: an entry that has no disconnectedAt yet counts as old.
RedirectSweep ==
  /\ redirect # None /\ ~ redirect.connected
  /\ redirect.since = 0 \/ redirect.since + Day < now
  /\ redirect' = None
  /\ UNCHANGED <<now, tunnel, minted, ipAccess, limitVars, visit, pass>>

\* GET /l/:token, when the ingress limiter lets it through and the token is alive;
\* otherwise nothing changes.
AccessLink(ip, t) ==
  /\ t \in DOMAIN ipAccess
  /\ ipAccess' = [ipAccess EXCEPT ![t] =
       [i \in Ips |-> IF i = ip THEN now + Day ELSE IF now > @[i] THEN 0 ELSE @[i]]]
  /\ visit' = [visit EXCEPT ![t][ip] = now]
  /\ UNCHANGED <<now, tunnel, minted, redirect, limitVars, pass>>

\* GET /r/:token: what it tells.
RedirectPage ==
  IF redirect = None THEN [connected |-> FALSE, link |-> None]
  ELSE [connected |-> redirect.connected, link |-> redirect.link]

\* No entry, no token in it: allowedUntil is 0.
AllowedUntil(ip) ==
  IF tunnel.token \in DOMAIN ipAccess THEN ipAccess[tunnel.token][ip] ELSE 0

\* mutant of Whitelisted: until when the address is let in is not looked at
WhitelistedMutant(ip) == tunnel.token = None \/ AllowedUntil(ip) > 0

Whitelisted(ip) == tunnel.token = None \/ now <= AllowedUntil(ip)

\* As many connections as two windows have room for, the latest of them now.
Span == 2 * ConnLimit
Latest(times) == Append(IF Len(times) < Span THEN times ELSE Tail(times), now)

\* The connection handler of bindTcpTunnel: the limiter first, then the list.
Connection(ip) ==
  /\ tunnel.at = "on"
  /\ conns' = Take(ip)
  /\ recent' = IF Allowed(ip) THEN [recent EXCEPT ![ip] = Latest(@)] ELSE recent
  /\ pass' = IF Allowed(ip) /\ Whitelisted(ip)
               THEN [at |-> now, visited |-> IF tunnel.token = None THEN now
                                             ELSE visit[tunnel.token][ip]]
               ELSE pass
  /\ UNCHANGED <<now, tunnelVars, visit>>

-----------------------------------------------------------------------------
Next ==
  \/ Tick \/ Register \/ Bound \/ BindFails \/ Disconnects \/ RedirectSweep
  \/ \E ip \in Ips :
       \/ Connection(ip)
       \/ \E t \in Tokens : AccessLink(ip, t)

Spec == Init /\ [][Next]_vars

-----------------------------------------------------------------------------
(***************************************************************************)
(* Properties.                                                             *)
(***************************************************************************)

\* A connection that was let in to a guarded port came from an address that had
\* opened the link of this registration, not of an earlier one, within a day.
OnlyInvited ==
  pass # None => pass.visited > 0 /\ pass.at <= pass.visited + Day

\* A window starts with a connection and has ConnLimit of them, so that of Span in a row
\* the last comes a window's length after the first, or later.
WithinRate ==
  \A ip \in Ips : Len(recent[ip]) = Span => recent[ip][1] + Window <= recent[ip][Span]

\* A redirect that says "connected" tells the link of the port as it is now.
RedirectLeads ==
  RedirectPage.connected =>
    /\ tunnel.at = "on" /\ RedirectPage.link = tunnel.token
    /\ tunnel.token # None => tunnel.token \in DOMAIN ipAccess

(***************************************************************************)
(* The door of a public port: only invited addresses pass, as often as the *)
(* limiter means to let them in whatever the eviction of buckets does, and *)
(* the stable redirect leads to a link that works.                         *)
(***************************************************************************)
DoorHolds == OnlyInvited /\ WithinRate /\ RedirectLeads

(***************************************************************************)
(* "IP ... has been whitelisted for 24 hours" (server.ts:4958): an address *)
(* that opened a link can connect for a day.                               *)
(***************************************************************************)
WhitelistedForADay ==
  \A t \in Tokens, ip \in Ips :
    tunnel.at = "on" /\ visit[t][ip] > 0 /\ now <= visit[t][ip] + Day => Whitelisted(ip)
=============================================================================
