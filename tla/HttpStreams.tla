----------------------------- MODULE HttpStreams -----------------------------
(***************************************************************************)
(* The requests of one subdomain, from the gateway's catch-all route to    *)
(* the tunnel client and back: ingress, admission, reassembly of chunked   *)
(* responses, the idle timeout, and what the close of a control socket     *)
(* does to them (apps/gateway-server/src/server.ts).                       *)
(*                                                                         *)
(* A request awaits its body before it is admitted, and the response       *)
(* after: the control socket it found may close, and another tunnel may    *)
(* take the subdomain, during both.  What follows the second await runs in *)
(* the turn that settles the promise, so it is part of that action.        *)
(*                                                                         *)
(* A response is a number of parts of equal size, its order kept by the    *)
(* WebSocket; maxRequestBodyBytes is measured in parts too.                *)
(***************************************************************************)
EXTENDS Naturals, FiniteSets

CONSTANTS
  Request,        \* requests that reach the catch-all route
  Socket,         \* control sockets that register the subdomain
  User, Owner,    \* [Socket -> User]: principal.userId; a user has one client here, and
                  \* its sockets follow one another
  MaxConcurrent,  \* maxConcurrentStreamsPerTunnel
  MaxBody,        \* maxRequestBodyBytes
  MaxChunks,      \* MAX_CHUNKS
  Parts,          \* bound: parts of a response (the client's own limit)
  None

ASSUME StreamAssumption ==
  /\ Owner \in [Socket -> User]
  /\ MaxConcurrent \in Nat \ {0} /\ MaxBody \in Nat /\ MaxChunks \in Nat
  /\ Parts \in Nat \ {0}
  /\ None \notin Socket \cup User /\ None \notin Nat /\ None # "response"
  /\ \A got \in SUBSET (0..(Parts - 1)) : None # got

VARIABLES
  link,           \* of each socket: "none", "open", "terminated", "closed"
  route,          \* the registry's socket for the subdomain
  owner,          \* ownershipBySubdomain
  phase,          \* of each request: "new", "reading", "waiting", "done"
  via,            \* the socket it was routed to
  answer, parts,  \* what the caller gets, and of how many parts its body is
  responseWaiters, streamRejecters, streamTimeouts,
  activeStreams,  \* activeStreamsBySocket
  chunks,         \* responseChunksByStream: None, or the parts received
  capturedRequests, \* the inspector's ring
  asked,          \* requests a client has got and not answered
  carrier,        \* the socket it sends its response on
  plan, sent      \* parts of its response, and parts that have arrived

linkVars   == <<link, route, owner>>
waitVars   == <<responseWaiters, streamRejecters, streamTimeouts,
                activeStreams, chunks>>
answerVars == <<phase, answer, parts>>
clientVars == <<asked, carrier, plan, sent>>
vars == <<linkVars, answerVars, via, waitVars, capturedRequests, clientVars>>

Status == {"response", "404", "413", "429", "502", "504"}
Index  == 0..(Parts - 1)

Init ==
  /\ link = [s \in Socket |-> "none"]
  /\ route = None
  /\ owner = None
  /\ phase = [r \in Request |-> "new"]
  /\ via = [r \in Request |-> None]
  /\ answer = [r \in Request |-> None]
  /\ parts = [r \in Request |-> 0]
  /\ responseWaiters = {} /\ streamRejecters = {} /\ streamTimeouts = {}
  /\ activeStreams = [s \in Socket |-> {}]
  /\ chunks = [r \in Request |-> None]
  /\ capturedRequests = {}
  /\ asked = {} /\ carrier = [r \in Request |-> None]
  /\ plan = [r \in Request |-> 0]
  /\ sent = [r \in Request |-> 0]

-----------------------------------------------------------------------------
(***************************************************************************)
(* The tunnel.                                                             *)
(***************************************************************************)

\* A client registers the subdomain, which the registry gives to one at a time.
Connect(s) ==
  /\ link[s] = "none" /\ route = None
  /\ link' = [link EXCEPT ![s] = "open"]
  /\ route' = s
  /\ owner' = Owner[s]
  /\ UNCHANGED <<answerVars, via, waitVars, capturedRequests, clientVars>>

\* forceCloseLocalEntry; the close event follows.
Evict ==
  /\ route # None
  /\ route' = None
  /\ link' = [link EXCEPT ![route] = "terminated"]
  /\ UNCHANGED <<owner, answerVars, via, waitVars, capturedRequests, clientVars>>

-----------------------------------------------------------------------------
(***************************************************************************)
(* Settling a stream.                                                      *)
(***************************************************************************)

Reply(rs, status) ==
  /\ answer' = [r \in Request |-> IF r \in rs THEN status ELSE answer[r]]
  /\ phase' = [r \in Request |-> IF r \in rs THEN "done" ELSE phase[r]]

\* mutant of Forget: the stream still counts against the tunnel's limit
ForgetMutant(r, s) ==
  /\ responseWaiters' = responseWaiters \ {r}
  /\ streamRejecters' = streamRejecters \ {r}
  /\ streamTimeouts' = streamTimeouts \ {r}
  /\ chunks' = [chunks EXCEPT ![r] = None]
  /\ UNCHANGED activeStreams

\* The stream leaves every map, whoever answers its caller; of the streams that are
\* counted, those of socket s.
Forget(r, s) ==
  /\ responseWaiters' = responseWaiters \ {r}
  /\ streamRejecters' = streamRejecters \ {r}
  /\ streamTimeouts' = streamTimeouts \ {r}
  /\ activeStreams' = [activeStreams EXCEPT ![s] = @ \ {r}]
  /\ chunks' = [chunks EXCEPT ![r] = None]

\* The idle timer of r fires; a chunk has armed it with the socket it came on.
IdleTimeout(r) ==
  /\ r \in streamTimeouts
  /\ r \in responseWaiters
  /\ Forget(r, IF chunks[r] = None THEN via[r] ELSE carrier[r])
  /\ Reply({r}, "504")
  /\ UNCHANGED <<linkVars, via, parts, capturedRequests, clientVars>>

\* mutant of Closed: the timers are cleared, the callers are not answered
ClosedMutant(s) ==
  /\ link[s] \in {"open", "terminated"}
  /\ link' = [link EXCEPT ![s] = "closed"]
  /\ owner' = None
  /\ capturedRequests' = {}
  /\ streamTimeouts' = streamTimeouts \ activeStreams[s]
  /\ route' = IF route = s THEN None ELSE route
  /\ UNCHANGED <<answerVars, via, responseWaiters, streamRejecters,
                 activeStreams, chunks, clientVars>>

(***************************************************************************)
(* The close handler: the subdomain loses its owner and its ring, the      *)
(* socket's streams are answered 502, the registry forgets the socket.     *)
(***************************************************************************)
Closed(s) ==
  /\ link[s] \in {"open", "terminated"}
  /\ link' = [link EXCEPT ![s] = "closed"]
  /\ owner' = None
  /\ capturedRequests' = {}
  /\ LET rs == activeStreams[s] \cap responseWaiters
     IN  /\ Reply(rs, "502")
         /\ responseWaiters' = responseWaiters \ rs
         /\ streamRejecters' = streamRejecters \ rs
         /\ chunks' = [r \in Request |-> IF r \in rs THEN None ELSE chunks[r]]
  /\ streamTimeouts' = streamTimeouts \ activeStreams[s]
  /\ route' = IF route = s THEN None ELSE route
  /\ UNCHANGED <<via, parts, activeStreams, clientVars>>

-----------------------------------------------------------------------------
(***************************************************************************)
(* A request arrives.                                                      *)
(***************************************************************************)

\* findBySubdomain answers "no active tunnel".
NotFound(r) ==
  /\ phase[r] = "new" /\ route = None
  /\ Reply({r}, "404")
  /\ UNCHANGED <<linkVars, via, parts, waitVars, capturedRequests, clientVars>>

\* mutant of Routed: a missing tunnel is not answered 404
RoutedMutant(r) ==
  /\ phase[r] = "new"
  /\ via' = [via EXCEPT ![r] = route]
  /\ phase' = [phase EXCEPT ![r] = "reading"]
  /\ UNCHANGED <<linkVars, answer, parts, waitVars, capturedRequests, clientVars>>

Routed(r) ==
  /\ phase[r] = "new" /\ route # None
  /\ via' = [via EXCEPT ![r] = route]
  /\ phase' = [phase EXCEPT ![r] = "reading"]
  /\ UNCHANGED <<linkVars, answer, parts, waitVars, capturedRequests, clientVars>>

BodyTooLarge(r) ==
  /\ phase[r] = "reading"
  /\ Reply({r}, "413")
  /\ UNCHANGED <<linkVars, via, parts, waitVars, capturedRequests, clientVars>>

\* mutant of Saturated: one stream more than the limit
SaturatedMutant(s) == Cardinality(activeStreams[s]) > MaxConcurrent

Saturated(s) == Cardinality(activeStreams[s]) >= MaxConcurrent

\* The body is read and the request captured; the tunnel is at its limit.
Rejected(r) ==
  /\ phase[r] = "reading" /\ Saturated(via[r])
  /\ capturedRequests' = capturedRequests \cup {r}
  /\ Reply({r}, "429")
  /\ UNCHANGED <<linkVars, via, parts, waitVars, clientVars>>

\* Or it is admitted, and sent.  A send on a socket that is not open any more is lost.
Admitted(r) ==
  LET s == via[r]
  IN  /\ phase[r] = "reading" /\ ~ Saturated(s)
      /\ capturedRequests' = capturedRequests \cup {r}
      /\ phase' = [phase EXCEPT ![r] = "waiting"]
      /\ responseWaiters' = responseWaiters \cup {r}
      /\ streamRejecters' = streamRejecters \cup {r}
      /\ streamTimeouts' = streamTimeouts \cup {r}
      /\ activeStreams' = [activeStreams EXCEPT ![s] = @ \cup {r}]
      /\ asked' = IF link[s] = "open" THEN asked \cup {r} ELSE asked
      /\ UNCHANGED <<linkVars, via, answer, parts, chunks, carrier, plan, sent>>

\* GET /api/inspect/:subdomain: what a user who is no admin is shown.
Inspected(u) == IF owner = u THEN capturedRequests ELSE {}

\* DELETE /api/inspect/:subdomain, by the owner of the tunnel
ClearRing(u) ==
  /\ owner = u
  /\ capturedRequests' = {}
  /\ UNCHANGED <<linkVars, answerVars, via, waitVars, clientVars>>

-----------------------------------------------------------------------------
(***************************************************************************)
(* The client proxies a request: the local service answers, fails or times *)
(* out, in n frames at most Parts.  They go out in one turn, on the socket *)
(* that the client has by then: the one the request came on, a later one   *)
(* if it has reconnected, or none.                                         *)
(***************************************************************************)
proxyLocalRequest(r) ==
  LET now == {s \in Socket : link[s] = "open" /\ Owner[s] = Owner[via[r]]}
  IN  /\ r \in asked
      /\ asked' = asked \ {r}
      /\ \/ now = {} /\ UNCHANGED <<carrier, plan>>
         \/ \E s \in now, n \in 1..Parts :
              carrier' = [carrier EXCEPT ![r] = s] /\ plan' = [plan EXCEPT ![r] = n]
      /\ UNCHANGED <<linkVars, answerVars, via, waitVars, capturedRequests, sent>>

-----------------------------------------------------------------------------
(***************************************************************************)
(* The client's http_response frames.                                      *)
(***************************************************************************)

Arrives(r) ==
  /\ carrier[r] # None /\ link[carrier[r]] = "open"
  /\ sent[r] < plan[r]
  /\ sent' = [sent EXCEPT ![r] = @ + 1]

\* The stream has been settled otherwise.
LateFrame(r) ==
  /\ Arrives(r)
  /\ r \notin responseWaiters
  /\ UNCHANGED <<linkVars, answerVars, via, waitVars, capturedRequests, asked, carrier, plan>>

Deliver(r, n) ==
  /\ Forget(r, carrier[r])
  /\ Reply({r}, "response")
  /\ parts' = [parts EXCEPT ![r] = n]

\* A response in one part has no chunk field.
WholeResponse(r) ==
  /\ Arrives(r)
  /\ r \in responseWaiters /\ plan[r] = 1
  /\ Deliver(r, 1)
  /\ UNCHANGED <<linkVars, via, capturedRequests, asked, carrier, plan>>

Received(r) == IF chunks[r] = None THEN {} ELSE chunks[r]

\* mutant of Expected: the last index is taken for the number of chunks
ExpectedMutant(i, n, announced) ==
  IF announced THEN n ELSE IF i = n - 1 THEN i ELSE None

\* chunk.total if the client sends it, else known from the final chunk.
Expected(i, n, announced) ==
  IF announced THEN n ELSE IF i = n - 1 THEN i + 1 ELSE None

Complete(n, got) == n # None /\ 0..(n - 1) \subseteq got

TooMuch(i, received) == i >= MaxChunks \/ Cardinality(received) + 1 > MaxBody

(***************************************************************************)
(* A chunk: it may be dropped with its stream, complete the response, or   *)
(* wait for others with the timer armed again.                             *)
(***************************************************************************)
Chunk(r, announced) ==
  LET i   == sent[r]
      got == Received(r) \cup {i}
      n   == Expected(i, plan[r], announced)
  IN  /\ Arrives(r)
      /\ r \in responseWaiters /\ plan[r] > 1
      /\ \/ /\ TooMuch(i, Received(r))
            /\ Forget(r, carrier[r])
            /\ UNCHANGED answerVars
         \/ /\ ~ TooMuch(i, Received(r))
            /\ Complete(n, got)
            /\ Deliver(r, n)
         \/ /\ ~ TooMuch(i, Received(r))
            /\ ~ Complete(n, got)
            /\ chunks' = [chunks EXCEPT ![r] = got]
            /\ UNCHANGED <<answerVars, responseWaiters, streamRejecters,
                           streamTimeouts, activeStreams>>
      /\ UNCHANGED <<linkVars, via, capturedRequests, asked, carrier, plan>>

-----------------------------------------------------------------------------
Next ==
  \/ \E s \in Socket : Connect(s) \/ Closed(s)
  \/ Evict
  \/ \E u \in User : ClearRing(u)
  \/ \E r \in Request :
       \/ NotFound(r)
       \/ Routed(r)
       \/ BodyTooLarge(r)
       \/ Rejected(r)
       \/ Admitted(r)
       \/ proxyLocalRequest(r)
       \/ IdleTimeout(r)
       \/ LateFrame(r)
       \/ WholeResponse(r)
       \/ \E announced \in BOOLEAN : Chunk(r, announced)

Spec == Init /\ [][Next]_vars

\* Timers fire; no client has to answer.
FairSpec == Spec /\ \A r \in Request : WF_vars(IdleTimeout(r))

-----------------------------------------------------------------------------
TypeOK ==
  /\ link \in [Socket -> {"none", "open", "terminated", "closed"}]
  /\ route \in Socket \cup {None}
  /\ owner \in User \cup {None}
  /\ phase \in [Request -> {"new", "reading", "waiting", "done"}]
  /\ via \in [Request -> Socket \cup {None}]
  /\ \A r \in Request : phase[r] \in {"reading", "waiting"} => via[r] # None
  /\ answer \in [Request -> Status \cup {None}]
  /\ parts \in [Request -> 0..Parts]
  /\ responseWaiters \subseteq Request
  /\ streamRejecters \subseteq Request
  /\ streamTimeouts \subseteq Request
  /\ activeStreams \in [Socket -> SUBSET Request]
  /\ chunks \in [Request -> (SUBSET Index) \cup {None}]
  /\ capturedRequests \subseteq Request
  /\ asked \subseteq Request /\ carrier \in [Request -> Socket \cup {None}]
  /\ plan \in [Request -> 0..Parts]
  /\ sent \in [Request -> 0..Parts]

(***************************************************************************)
(* The five maps speak of the same streams: a stream with a waiter has a   *)
(* rejecter and a running timer and counts against the limit of its own    *)
(* socket, and one without a waiter pins neither chunks nor, on a socket   *)
(* that is still open, a slot -- whether it was answered, timed out, was   *)
(* dropped or lost its tunnel.                                             *)
(***************************************************************************)
BooksAgree ==
  /\ streamRejecters = responseWaiters
  /\ streamTimeouts = responseWaiters
  /\ \A r \in responseWaiters : r \in activeStreams[via[r]]
  /\ \A r \in Request : chunks[r] # None => r \in responseWaiters
  /\ \A s \in Socket : link[s] = "open" => activeStreams[s] \subseteq responseWaiters

(***************************************************************************)
(* A client never works on more streams than the limit, counting every     *)
(* request that was forwarded to it and is not settled.                    *)
(***************************************************************************)
LimitHolds ==
  \A s \in Socket :
    Cardinality({r \in Request : via[r] = s /\ r \in responseWaiters}) <= MaxConcurrent

(***************************************************************************)
(* A response reaches its caller whole: reassembly never ends before the   *)
(* last part the client had to send, whether or not the client announces   *)
(* the number of them, and never delivers what was received for a stream   *)
(* that had been given up.                                                 *)
(***************************************************************************)
AnswerIsWhole ==
  \A r \in Request : answer[r] = "response" => parts[r] = plan[r]

(***************************************************************************)
(* "Graceful error conversion for disconnected tunnel sessions": once a    *)
(* control socket has closed, no request that its client was sent is still *)
(* waiting for it; only one admitted after the close waits (for its        *)
(* timeout).                                                               *)
(***************************************************************************)
DisconnectSettles ==
  \A r \in responseWaiters : link[via[r]] = "closed" => plan[r] = 0 /\ r \notin asked

(***************************************************************************)
(* No stream is kept for ever: it leaves the maps, with or without an      *)
(* answer of the client.                                                   *)
(***************************************************************************)
StreamEnds ==
  \A r \in Request : r \in responseWaiters ~> r \notin responseWaiters

-----------------------------------------------------------------------------
(***************************************************************************)
(* What the code's comments and documents say, and the code does not do.   *)
(***************************************************************************)

(***************************************************************************)
(* "Stream idle timeout enforcement", "Chunked response reassembly with    *)
(* timeout cleanup" (FEATURES_SECURITY.md:99): every request that was      *)
(* admitted gets an answer.                                                *)
(***************************************************************************)
EveryRequestAnswered ==
  \A r \in Request : phase[r] = "waiting" ~> phase[r] = "done"

(***************************************************************************)
(* "a disconnected tunnel's captured traffic can never leak cross-tenant"  *)
(* (server.ts:4804): the ring that the owner of a subdomain may read holds *)
(* only requests that were routed to a tunnel of his.                      *)
(***************************************************************************)
RingIsTheOwners ==
  \A u \in User : \A r \in Inspected(u) : Owner[via[r]] = u
=============================================================================
