---------------------------- MODULE LeaseRegistry ----------------------------
(***************************************************************************)
(* Who may serve a subdomain when several gateway nodes share a Redis:     *)
(* TunnelRegistry and RedisRegistryBackend of                              *)
(* apps/gateway-server/src/registry.ts.  A node keeps local entries; Redis *)
(* keeps one lease per name, which expires unless a heartbeat renews it.   *)
(*                                                                         *)
(* A node's commands travel on one connection: Redis executes them in the  *)
(* order they were sent, and answers in that order.  When the connection   *)
(* drops, ioredis sends the unanswered ones again, executed or not, or     *)
(* rejects them all.                                                       *)
(*                                                                         *)
(* Time passes in ticks; leaseTtlMs is TTL of them.  An age is counted up  *)
(* to Stale, where it stays: nothing tells older ages apart.               *)
(***************************************************************************)
EXTENDS Naturals, Sequences, SequencesExt

CONSTANTS
  Node, Socket,
  Home,           \* [Socket -> Node]: the node a client connects to
  Sub,            \* subdomains
  TTL,            \* leaseTtlMs
  MaxAttempts,    \* of assign() without a requested name (50 in the code)
  MaxCalls,       \* bound: heartbeats are sent while fewer calls are unanswered
  None

(***************************************************************************)
(* tryClaim draws a fresh UUID each time it is called.                     *)
(***************************************************************************)
Token == Socket \X (1..MaxAttempts)

Stale  == 2 * TTL + 1
Age    == 0..Stale
Lease  == [token : Token, left : 1..TTL]
Phase  == {"idle", "assign", "claiming", "binding", "refused", "registered"}
Entry  == [socket : Socket, token : Token, idle : Age]
Call   == [op : {"claim", "heartbeat", "release"}, sub : Sub, token : Token,
           reply : {"none", "yes", "no"}]

ASSUME LeaseAssumption ==
  /\ Home \in [Socket -> Node]
  /\ TTL \in Nat \ {0} /\ MaxAttempts \in Nat \ {0} /\ MaxCalls \in Nat \ {0}
  /\ None \notin Sub
  /\ \A t \in Token : None # t
  /\ \A l \in Lease : None # l
  /\ \A e \in Entry : None # e

VARIABLES
  healthy,        \* so far Redis answered every call within a tick, and no
                  \* connection dropped and no node crashed
  lease,          \* Redis: for each name None, or the lease's token and time left
  bySubdomain,    \* for each node and name None, or the local entry
  calls,          \* for each node, its unanswered commands in order
  link,           \* of each socket: "none", "open", "silent" (half-open), "closed"
  phase,          \* of its registration
  wanted,         \* the name it asked for, or None
  attemptsLeft,   \* of tryClaim
  startedAgo,     \* the time since its assign() began, until that ends
  name            \* socketSubdomain

vars == <<healthy, lease, bySubdomain, calls, link, phase, wanted, attemptsLeft,
          startedAgo, name>>

registration == <<link, phase, wanted, attemptsLeft, startedAgo, name>>

Init ==
  /\ healthy = TRUE
  /\ lease = [x \in Sub |-> None]
  /\ bySubdomain = [n \in Node |-> [x \in Sub |-> None]]
  /\ calls = [n \in Node |-> <<>>]
  /\ link = [s \in Socket |-> "none"]
  /\ phase = [s \in Socket |-> "idle"]
  /\ wanted = [s \in Socket |-> None]
  /\ attemptsLeft = [s \in Socket |-> 0]
  /\ startedAgo = [s \in Socket |-> 0]
  /\ name = [s \in Socket |-> None]

Holder(x) == IF lease[x] = None THEN None ELSE lease[x].token

NewCall(op, x, t) == [op |-> op, sub |-> x, token |-> t, reply |-> "none"]

Send(n, op, x, t) == calls' = [calls EXCEPT ![n] = Append(@, NewCall(op, x, t))]

-----------------------------------------------------------------------------
(***************************************************************************)
(* Claiming a name.                                                        *)
(***************************************************************************)

(***************************************************************************)
(* register_tunnel: assignExact makes one attempt at the requested name;   *)
(* assign makes several, each at a random one.  Both note the time now.    *)
(***************************************************************************)
Assign(s, x) ==
  /\ link[s] = "none"
  /\ link' = [link EXCEPT ![s] = "open"]
  /\ phase' = [phase EXCEPT ![s] = "assign"]
  /\ wanted' = [wanted EXCEPT ![s] = x]
  /\ attemptsLeft' =
       [attemptsLeft EXCEPT ![s] = IF x = None THEN MaxAttempts ELSE 1]
  /\ UNCHANGED <<healthy, lease, bySubdomain, calls, startedAgo, name>>

\* mutant of tryClaim: the loop has no limit
tryClaimMutant(s, x) ==
  /\ phase[s] = "assign"
  /\ wanted[s] \in {None, x}
  /\ IF bySubdomain[Home[s]][x] = None
     THEN /\ Send(Home[s], "claim", x, <<s, attemptsLeft[s]>>)
          /\ phase' = [phase EXCEPT ![s] = "claiming"]
     ELSE UNCHANGED <<calls, phase>>
  /\ attemptsLeft' = [attemptsLeft EXCEPT ![s] = @ - 1]
  /\ UNCHANGED <<healthy, lease, bySubdomain, link, wanted, startedAgo, name>>

(***************************************************************************)
(* tryClaim up to its await.  A name served by this node is not tried.     *)
(***************************************************************************)
tryClaim(s, x) ==
  /\ phase[s] = "assign" /\ attemptsLeft[s] > 0
  /\ wanted[s] \in {None, x}
  /\ IF bySubdomain[Home[s]][x] = None
     THEN /\ Send(Home[s], "claim", x, <<s, attemptsLeft[s]>>)
          /\ phase' = [phase EXCEPT ![s] = "claiming"]
     ELSE UNCHANGED <<calls, phase>>
  /\ attemptsLeft' = [attemptsLeft EXCEPT ![s] = @ - 1]
  /\ UNCHANGED <<healthy, lease, bySubdomain, link, wanted, startedAgo, name>>

\* SUBDOMAIN_TAKEN, or "Could not allocate unique tunnel subdomain".
Refuse(s) ==
  /\ phase[s] = "assign" /\ attemptsLeft[s] = 0
  /\ phase' = [phase EXCEPT ![s] = "refused"]
  /\ startedAgo' = [startedAgo EXCEPT ![s] = 0]
  /\ UNCHANGED <<healthy, lease, bySubdomain, calls, link, wanted, attemptsLeft, name>>

(***************************************************************************)
(* Redis answers a claim.  The entry is set whatever happened during the   *)
(* await, and carries the time at which assign() began.                    *)
(***************************************************************************)
ClaimAnswered(c) ==
  LET s == c.token[1]
      n == Home[s]
  IN  /\ IF c.reply = "yes"
         THEN /\ bySubdomain' = [bySubdomain EXCEPT ![n][c.sub] =
                   [socket |-> s, token |-> c.token, idle |-> startedAgo[s]]]
              /\ phase' = [phase EXCEPT ![s] = "binding"]
              /\ name' = [name EXCEPT ![s] = c.sub]
              /\ startedAgo' = [startedAgo EXCEPT ![s] = 0]
         ELSE /\ phase' = [phase EXCEPT ![s] = "assign"]
              /\ UNCHANGED <<bySubdomain, name, startedAgo>>
      /\ calls' = [calls EXCEPT ![n] = Tail(@)]
      /\ UNCHANGED <<healthy, lease, link, wanted, attemptsLeft>>

-----------------------------------------------------------------------------
(***************************************************************************)
(* Giving names up.                                                        *)
(***************************************************************************)

Releases(n, xs) ==
  SetToSeq({NewCall("release", x, bySubdomain[n][x].token) : x \in xs})

\* The entries of node n for the names xs are deleted, their leases released.
Drop(n, xs) ==
  /\ bySubdomain' =
       [bySubdomain EXCEPT ![n] = [x \in Sub |-> IF x \in xs THEN None ELSE @[x]]]
  /\ calls' = [calls EXCEPT ![n] = @ \o Releases(n, xs)]

\* forceCloseLocalEntry: their sockets are terminated as well.
ForceClose(n, xs) ==
  /\ Drop(n, xs)
  /\ link' = [s \in Socket |->
                IF \E x \in xs : bySubdomain[n][x].socket = s THEN "closed"
                                                              ELSE link[s]]
  /\ UNCHANGED <<healthy, lease, phase, wanted, attemptsLeft, startedAgo, name>>

NamesOf(s) == {x \in Sub : /\ bySubdomain[Home[s]][x] # None
                           /\ bySubdomain[Home[s]][x].socket = s}

removeBySocket(s) == Drop(Home[s], NamesOf(s))

\* The close handler; a claim the socket waits for is not called off.
Disconnect(s) ==
  /\ link[s] \in {"open", "silent"}
  /\ link' = [link EXCEPT ![s] = "closed"]
  /\ removeBySocket(s)
  /\ UNCHANGED <<healthy, lease, phase, wanted, attemptsLeft, startedAgo, name>>

\* The client is gone without a word: no frame, and no close event either.
GoSilent(s) ==
  /\ link[s] = "open"
  /\ link' = [link EXCEPT ![s] = "silent"]
  /\ UNCHANGED <<healthy, lease, bySubdomain, calls, phase, wanted, attemptsLeft,
                 startedAgo, name>>

\* The public port of the tunnel is bound, or the tunnel has none.
Registered(s) ==
  /\ phase[s] = "binding"
  /\ phase' = [phase EXCEPT ![s] = "registered"]
  /\ UNCHANGED <<healthy, lease, bySubdomain, calls, link, wanted, attemptsLeft,
                 startedAgo, name>>

\* It could not be bound.
UndoRegistration(s) ==
  /\ phase[s] = "binding"
  /\ phase' = [phase EXCEPT ![s] = "refused"]
  /\ removeBySocket(s)
  /\ UNCHANGED <<healthy, lease, link, wanted, attemptsLeft, startedAgo, name>>

\* mutant of StaleAt: a session whose socket has closed is passed over
StaleAtMutant(n) ==
  {x \in Sub : /\ bySubdomain[n][x] # None
               /\ bySubdomain[n][x].idle > 2 * TTL
               /\ link[bySubdomain[n][x].socket] # "closed"}

StaleAt(n) == {x \in Sub : /\ bySubdomain[n][x] # None
                           /\ bySubdomain[n][x].idle > 2 * TTL}

sweepStaleSockets(n) == StaleAt(n) # {} /\ ForceClose(n, StaleAt(n))

\* A request for x arrives, or the tunnels are listed.
findBySubdomain(n, x) == x \in StaleAt(n) /\ ForceClose(n, {x})

-----------------------------------------------------------------------------
(***************************************************************************)
(* Keeping a name.                                                         *)
(***************************************************************************)

(***************************************************************************)
(* A heartbeat frame renews the entry under the name of its socket, whose  *)
(* lease it then asks Redis to renew.                                      *)
(***************************************************************************)
heartbeat(s) ==
  LET n == Home[s]
      x == name[s]
  IN  /\ link[s] = "open" /\ x # None
      /\ bySubdomain[n][x] # None
      /\ Len(calls[n]) < MaxCalls
      /\ bySubdomain' = [bySubdomain EXCEPT ![n][x].idle = 0]
      /\ Send(n, "heartbeat", x, bySubdomain[n][x].token)
      /\ UNCHANGED <<healthy, lease, registration>>

(***************************************************************************)
(* The answer: a lease that is lost takes its entry and its socket along,  *)
(* unless the entry is not that lease's any more.                          *)
(***************************************************************************)
HeartbeatAnswered(n, c) ==
  LET xs == {x \in {c.sub} : /\ bySubdomain[n][x] # None
                             /\ bySubdomain[n][x].token = c.token}
  IN  IF c.reply = "yes" \/ xs = {}
      THEN /\ calls' = [calls EXCEPT ![n] = Tail(@)]
           /\ UNCHANGED <<healthy, lease, bySubdomain, registration>>
      ELSE /\ bySubdomain' = [bySubdomain EXCEPT ![n][c.sub] = None]
           /\ calls' = [calls EXCEPT ![n] =
                          Append(Tail(@), NewCall("release", c.sub, c.token))]
           /\ link' = [link EXCEPT ![bySubdomain[n][c.sub].socket] = "closed"]
           /\ UNCHANGED <<healthy, lease, phase, wanted, attemptsLeft, startedAgo, name>>

ReleaseAnswered(n) ==
  /\ calls' = [calls EXCEPT ![n] = Tail(@)]
  /\ UNCHANGED <<healthy, lease, bySubdomain, registration>>

\* The reply to the oldest call reaches the node.
Answer(n) ==
  /\ calls[n] # <<>> /\ Head(calls[n]).reply # "none"
  /\ LET c == Head(calls[n])
     IN  \/ c.op = "claim" /\ ClaimAnswered(c)
         \/ c.op = "heartbeat" /\ HeartbeatAnswered(n, c)
         \/ c.op = "release" /\ ReleaseAnswered(n)

-----------------------------------------------------------------------------
(***************************************************************************)
(* Redis, and the way to it.                                               *)
(***************************************************************************)

\* mutant of Matches: the scripts only look whether the name is leased
MatchesMutant(c) == Holder(c.sub) # None

\* The scripts that renew and delete a lease compare its token first.
Matches(c) == Holder(c.sub) = c.token

Granted(c) == IF c.op = "claim" THEN lease[c.sub] = None ELSE Matches(c)

\* mutant of LeaseAfter: the script's SET keeps the time that is left
LeaseAfterMutant(c) ==
  CASE c.op = "claim"     -> [token |-> c.token, left |-> TTL]
    [] c.op = "heartbeat" -> lease[c.sub]
    [] c.op = "release"   -> None

LeaseAfter(c) ==
  CASE c.op = "claim"     -> [token |-> c.token, left |-> TTL]
    [] c.op = "heartbeat" -> [token |-> c.token, left |-> TTL]
    [] c.op = "release"   -> None

\* Redis executes the oldest command of n that it has not.
Execute(n) ==
  \E i \in DOMAIN calls[n] :
    LET c == calls[n][i]
    IN  /\ c.reply = "none"
        /\ \A j \in 1..(i - 1) : calls[n][j].reply # "none"
        /\ calls' = [calls EXCEPT ![n][i].reply = IF Granted(c) THEN "yes" ELSE "no"]
        /\ lease' = IF Granted(c) THEN [lease EXCEPT ![c.sub] = LeaseAfter(c)]
                                  ELSE lease
        /\ UNCHANGED <<healthy, bySubdomain, registration>>

\* From here on calls may be late or lost, and nodes may crash.
Outage ==
  /\ healthy
  /\ healthy' = FALSE
  /\ UNCHANGED <<lease, bySubdomain, calls, registration>>

\* The connection drops with replies on their way: the commands are resent.
Resend(n) ==
  /\ ~ healthy
  /\ \E i \in DOMAIN calls[n] : calls[n][i].reply # "none"
  /\ calls' = [calls EXCEPT ![n] =
                 [i \in DOMAIN @ |-> [@[i] EXCEPT !.reply = "none"]]]
  /\ UNCHANGED <<healthy, lease, bySubdomain, registration>>

Waiting(n) == {s \in Socket : Home[s] = n /\ phase[s] = "claiming"}

\* mutant of Reject: the rejection of a claim is swallowed like the others
RejectMutant(n) ==
  /\ ~ healthy
  /\ calls[n] # <<>>
  /\ calls' = [calls EXCEPT ![n] = <<>>]
  /\ UNCHANGED <<healthy, lease, bySubdomain, registration>>

(***************************************************************************)
(* maxRetriesPerRequest is exceeded: all commands are rejected.  A claim   *)
(* ends its registration; a failed heartbeat or release is only logged.    *)
(***************************************************************************)
Reject(n) ==
  /\ ~ healthy
  /\ calls[n] # <<>>
  /\ calls' = [calls EXCEPT ![n] = <<>>]
  /\ phase' = [s \in Socket |-> IF s \in Waiting(n) THEN "refused" ELSE phase[s]]
  /\ startedAgo' = [s \in Socket |-> IF s \in Waiting(n) THEN 0 ELSE startedAgo[s]]
  /\ UNCHANGED <<healthy, lease, bySubdomain, link, wanted, attemptsLeft, name>>

\* The process of node n dies, and is started again.
Crash(n) ==
  /\ ~ healthy
  /\ bySubdomain' = [bySubdomain EXCEPT ![n] = [x \in Sub |-> None]]
  /\ calls' = [calls EXCEPT ![n] = <<>>]
  /\ LET lost == {s \in Socket : Home[s] = n /\ link[s] # "none"}
     IN  /\ lost # {}
         /\ link' = [s \in Socket |-> IF s \in lost THEN "closed" ELSE link[s]]
         /\ phase' = [s \in Socket |-> IF s \in lost THEN "refused" ELSE phase[s]]
         /\ startedAgo' = [s \in Socket |-> IF s \in lost THEN 0 ELSE startedAgo[s]]
  /\ UNCHANGED <<healthy, lease, wanted, attemptsLeft, name>>

Older(age) == IF age = Stale THEN age ELSE age + 1

\* A lease with no time left is gone.  While Redis is healthy no call is late.
Tick ==
  /\ healthy => \A n \in Node : calls[n] = <<>>
  /\ lease' = [x \in Sub |->
                 IF lease[x] = None \/ lease[x].left = 1 THEN None
                 ELSE [lease[x] EXCEPT !.left = @ - 1]]
  /\ bySubdomain' = [n \in Node |-> [x \in Sub |->
                       IF bySubdomain[n][x] = None THEN None
                       ELSE [bySubdomain[n][x] EXCEPT !.idle = Older(@)]]]
  /\ startedAgo' = [s \in Socket |-> IF phase[s] \in {"assign", "claiming"}
                                     THEN Older(startedAgo[s]) ELSE startedAgo[s]]
  /\ UNCHANGED <<healthy, calls, link, phase, wanted, attemptsLeft, name>>

-----------------------------------------------------------------------------
Next ==
  \/ \E s \in Socket :
       \/ \E x \in Sub \cup {None} : Assign(s, x)
       \/ \E x \in Sub : tryClaim(s, x)
       \/ Refuse(s)
       \/ Disconnect(s)
       \/ GoSilent(s)
       \/ Registered(s)
       \/ UndoRegistration(s)
       \/ heartbeat(s)
  \/ \E n \in Node :
       \/ sweepStaleSockets(n)
       \/ \E x \in Sub : findBySubdomain(n, x)
       \/ Execute(n)
       \/ Answer(n)
       \/ Resend(n)
       \/ Reject(n)
       \/ Crash(n)
  \/ Outage
  \/ Tick

Spec == Init /\ [][Next]_vars

(***************************************************************************)
(* Time passes, the sweep runs on its timer, Redis executes what it is     *)
(* sent, and the connection does not drop before the reply every time: it  *)
(* is up again and again, and so is the clock.  No client has to do        *)
(* anything, and no connection has to drop.                                *)
(***************************************************************************)
FairSpec ==
  /\ Spec
  /\ SF_vars(Tick)
  /\ \A n \in Node : /\ WF_vars(Execute(n)) /\ SF_vars(Answer(n))
                     /\ WF_vars(sweepStaleSockets(n))
  /\ \A s \in Socket : WF_vars(Refuse(s) \/ \E x \in Sub : tryClaim(s, x))

-----------------------------------------------------------------------------
TypeOK ==
  /\ healthy \in BOOLEAN
  /\ lease \in [Sub -> Lease \cup {None}]
  /\ bySubdomain \in [Node -> [Sub -> Entry \cup {None}]]
  /\ \A n \in Node : \A i \in DOMAIN calls[n] : calls[n][i] \in Call
  /\ link \in [Socket -> {"none", "open", "silent", "closed"}]
  /\ phase \in [Socket -> Phase]
  /\ wanted \in [Socket -> Sub \cup {None}]
  /\ attemptsLeft \in [Socket -> 0..MaxAttempts]
  /\ startedAgo \in [Socket -> Age]
  /\ name \in [Socket -> Sub \cup {None}]

(***************************************************************************)
(* A lease ends by expiry, or because the node that holds it has dropped   *)
(* its entry: a release sent by a past holder, executed late or twice,     *)
(* never frees the name of the present one, and no command hands a lease   *)
(* over.                                                                   *)
(***************************************************************************)
LeaseEndsByItsHolder ==
  [][\A x \in Sub :
       lease[x] # None /\ (lease'[x] = None \/ lease'[x].token # lease[x].token) =>
         /\ lease'[x] = None
         /\ \/ lease[x].left = 1
            \/ \A n \in Node : bySubdomain[n][x] # None =>
                 bySubdomain[n][x].token # lease[x].token]_vars

(***************************************************************************)
(* Every claim that waits has exactly one command on its way, so its reply *)
(* is never another attempt's, and no registration waits for nothing.      *)
(***************************************************************************)
ClaimInFlight ==
  \A s \in Socket :
    phase[s] = "claiming" <=>
      \E i \in DOMAIN calls[Home[s]] :
        LET c == calls[Home[s]][i]
        IN  c.op = "claim" /\ c.token = <<s, attemptsLeft[s] + 1>>

(***************************************************************************)
(* While Redis is healthy, a client that was heard of within the TTL holds *)
(* its lease, so no other node serves its name: the clock that ages the    *)
(* entry and the one that ages the lease agree, through claims whose first *)
(* attempts failed, releases and evictions.                                *)
(***************************************************************************)
BeatingHoldsLease ==
  \A n \in Node, x \in Sub :
    /\ healthy /\ calls[n] = <<>>
    /\ bySubdomain[n][x] # None /\ bySubdomain[n][x].idle < TTL
    => Holder(x) = bySubdomain[n][x].token

(***************************************************************************)
(* A client that goes silent, or has disconnected, does not keep its name: *)
(* its entry and its lease go away without its help, whatever commands are *)
(* lost, resent or rejected -- unless another connected socket that once   *)
(* claimed the name beats in its place: heartbeat() renews whatever entry  *)
(* is filed under the name.                                                *)
(***************************************************************************)
Occupies(s) == NamesOf(s) # {} \/ \E x \in Sub : Holder(x) \in {s} \X (1..MaxAttempts)

BeatenForByOther(s) ==
  \E z \in Socket \ {s} : link[z] = "open" /\ name[z] \in NamesOf(s)

SilentFreesName ==
  \A s \in Socket :
    (link[s] \in {"silent", "closed"} /\ Occupies(s))
      ~> (~ Occupies(s) \/ BeatenForByOther(s))

-----------------------------------------------------------------------------
(***************************************************************************)
(* What the repository's test of two gateways on one Redis says, and the   *)
(* code does not do.                                                       *)
(***************************************************************************)

Serving(n, s, x) ==
  /\ Home[s] = n /\ link[s] = "open"
  /\ bySubdomain[n][x] # None /\ bySubdomain[n][x].socket = s

(***************************************************************************)
(* "Expected second claimant to be assigned a fallback subdomain"          *)
(* (test-registry-redis.cjs:129): two connected clients whose heartbeats   *)
(* have just been dealt with never serve one name from two nodes.          *)
(***************************************************************************)
OneServerPerName ==
  \A x \in Sub, s, z \in Socket :
    /\ Home[s] # Home[z]
    /\ Serving(Home[s], s, x) /\ Serving(Home[z], z, x)
    /\ calls[Home[s]] = <<>> /\ calls[Home[z]] = <<>>
    => bySubdomain[Home[s]][x].idle > 0 \/ bySubdomain[Home[z]][x].idle > 0
=============================================================================
