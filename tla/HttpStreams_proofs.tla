-------------------------- MODULE HttpStreams_proofs --------------------------
(***************************************************************************)
(* The five maps that hold a stream agree, the limit holds, an answer is   *)
(* whole and a disconnect settles what the client was sent, for any number *)
(* of requests, sockets, users, parts and any limits.                      *)
(*                                                                         *)
(* None of the invariants that TLC checks is inductive.  They hold because *)
(* at most one socket is open, the one the subdomain is routed to          *)
(* (OneLink); because a stream counts only against the socket it came by   *)
(* (StreamsOfSockets); because a client answers by the socket it was asked *)
(* on as long as that is open, and once (ClientSide); and because what has *)
(* been received of a response is a prefix of it (PrefixReceived).         *)
(***************************************************************************)
EXTENDS HttpStreams, FiniteSetTheorems, TLAPS

\* The registry routes the subdomain to the socket that is open.
OneLink == \A s \in Socket : link[s] = "open" <=> route = s

\* A stream is counted on the socket its request was routed to, and the
\* number of those is what admission compares with the limit.
StreamsOfSockets ==
  /\ \A s \in Socket : /\ \A r \in activeStreams[s] :
                           via[r] = s /\ link[s] # "none" /\ phase[r] \in {"waiting", "done"}
                       /\ IsFiniteSet(activeStreams[s])
                       /\ Cardinality(activeStreams[s]) <= MaxConcurrent
  /\ \A r \in responseWaiters : phase[r] = "waiting"
  /\ \A r \in Request : via[r] # None => link[via[r]] # "none"

\* A client answers a request once, by its present socket: the one that the
\* request came by, unless that is not open any more.
ClientSide ==
  /\ \A r \in asked : plan[r] = 0 /\ phase[r] \in {"waiting", "done"} /\ via[r] # None
  /\ \A r \in Request :
       /\ carrier[r] = None <=> plan[r] = 0
       /\ carrier[r] # None =>
            /\ link[carrier[r]] # "none" /\ phase[r] \in {"waiting", "done"} /\ via[r] # None
            /\ carrier[r] = via[r] \/ link[via[r]] # "open"
       /\ sent[r] <= plan[r]

\* The parts that have arrived for a stream that waits are the first ones.
PrefixReceived ==
  \A r \in Request :
    /\ r \in responseWaiters => /\ plan[r] = 0 \/ sent[r] < plan[r]
                                /\ Received(r) = 0..(sent[r] - 1)
    /\ answer[r] = "response" => plan[r] # 0
    /\ chunks[r] # None => sent[r] # 0

Inv ==
  /\ TypeOK /\ OneLink /\ StreamsOfSockets /\ ClientSide /\ PrefixReceived
  /\ BooksAgree /\ AnswerIsWhole /\ DisconnectSettles

-----------------------------------------------------------------------------
\* No socket, no stream, no request.
LEMMA InitInv == Init => Inv
<1> SUFFICES ASSUME Init PROVE Inv
  OBVIOUS
<1>1. TypeOK
  BY StreamAssumption DEF Init, TypeOK
<1>2. OneLink
  BY StreamAssumption DEF Init, OneLink
<1>3. StreamsOfSockets
  BY StreamAssumption, FS_EmptySet DEF Init, StreamsOfSockets
<1>4. ClientSide
  BY StreamAssumption DEF Init, ClientSide
<1>5. PrefixReceived /\ AnswerIsWhole
  BY StreamAssumption DEF Init, PrefixReceived, AnswerIsWhole
<1>6. BooksAgree /\ DisconnectSettles
  BY DEF Init, BooksAgree, DisconnectSettles
<1> QED
  BY <1>1, <1>2, <1>3, <1>4, <1>5, <1>6 DEF Inv

-----------------------------------------------------------------------------
(***************************************************************************)
(* The tunnel.                                                             *)
(***************************************************************************)

\* A socket that takes the subdomain is the only open one, and has no streams.
LEMMA ConnectInv ==
  ASSUME Inv, NEW s \in Socket, Connect(s)
  PROVE  Inv'
<1>1. /\ link[s] = "none" /\ route = None /\ link' = [link EXCEPT ![s] = "open"]
      /\ route' = s /\ owner' = Owner[s]
      /\ UNCHANGED <<phase, answer, parts, via, responseWaiters, streamRejecters, streamTimeouts,
                     activeStreams, chunks, capturedRequests, asked, carrier, plan, sent>>
  BY DEF Connect, answerVars, waitVars, clientVars
<1>2. TypeOK'
  BY <1>1, StreamAssumption DEF Inv, TypeOK
<1>3. OneLink'
  BY <1>1, StreamAssumption DEF Inv, TypeOK, OneLink
<1>4. StreamsOfSockets'
  BY <1>1 DEF Inv, TypeOK, StreamsOfSockets
<1>5. ClientSide'
  <2>1. \A r \in Request : via[r] # None => link'[via[r]] = link[via[r]]
    BY <1>1 DEF Inv, TypeOK, StreamsOfSockets
  <2>2. \A r \in Request : carrier[r] # None => link'[carrier[r]] = link[carrier[r]]
    BY <1>1 DEF Inv, TypeOK, ClientSide
  <2> QED
    BY <1>1, <2>1, <2>2 DEF Inv, ClientSide
<1>6. PrefixReceived' /\ AnswerIsWhole'
  BY <1>1 DEF Inv, PrefixReceived, Received, AnswerIsWhole
<1>7. BooksAgree'
  BY <1>1 DEF Inv, TypeOK, StreamsOfSockets, BooksAgree
<1>8. DisconnectSettles'
  BY <1>1 DEF Inv, TypeOK, BooksAgree, StreamsOfSockets, DisconnectSettles
<1> QED
  BY <1>2, <1>3, <1>4, <1>5, <1>6, <1>7, <1>8 DEF Inv

\* The registry's socket is terminated; its streams wait for the close event.
LEMMA EvictInv ==
  ASSUME Inv, Evict
  PROVE  Inv'
<1>1. /\ route \in Socket /\ route' = None /\ link' = [link EXCEPT ![route] = "terminated"]
      /\ UNCHANGED <<owner, phase, answer, parts, via, responseWaiters, streamRejecters,
                     streamTimeouts, activeStreams, chunks, capturedRequests, asked, carrier,
                     plan, sent>>
  BY DEF Evict, answerVars, waitVars, clientVars, Inv, TypeOK
<1>2. /\ link' \in [Socket -> {"none", "open", "terminated", "closed"}]
      /\ \A s \in Socket : /\ link'[s] # "open"
                           /\ link'[s] = "none" <=> link[s] = "none"
                           /\ link'[s] = "closed" <=> link[s] = "closed"
  BY <1>1 DEF Inv, TypeOK, OneLink
<1>3. TypeOK'
  BY <1>1, <1>2 DEF Inv, TypeOK
<1>4. OneLink'
  BY <1>1, <1>2, StreamAssumption DEF OneLink
<1>5. StreamsOfSockets'
  BY <1>1, <1>2 DEF Inv, TypeOK, StreamsOfSockets
<1>6. ClientSide'
  BY <1>1, <1>2 DEF Inv, TypeOK, ClientSide
<1>7. PrefixReceived' /\ AnswerIsWhole'
  BY <1>1 DEF Inv, PrefixReceived, Received, AnswerIsWhole
<1>8. BooksAgree'
  BY <1>1, <1>2 DEF Inv, BooksAgree
<1>9. DisconnectSettles'
  BY <1>1, <1>2 DEF Inv, TypeOK, BooksAgree, StreamsOfSockets, DisconnectSettles
<1> QED
  BY <1>3, <1>4, <1>5, <1>6, <1>7, <1>8, <1>9 DEF Inv

\* The close handler answers the streams of its own socket and of no other.
LEMMA ClosedInv ==
  ASSUME Inv, NEW s \in Socket, Closed(s)
  PROVE  Inv'
<1> DEFINE rs == activeStreams[s] \cap responseWaiters
<1>1. /\ link[s] \in {"open", "terminated"} /\ link' = [link EXCEPT ![s] = "closed"]
      /\ owner' = None /\ capturedRequests' = {}
      /\ answer' = [r \in Request |-> IF r \in rs THEN "502" ELSE answer[r]]
      /\ phase' = [r \in Request |-> IF r \in rs THEN "done" ELSE phase[r]]
      /\ responseWaiters' = responseWaiters \ rs
      /\ streamRejecters' = streamRejecters \ rs
      /\ chunks' = [r \in Request |-> IF r \in rs THEN None ELSE chunks[r]]
      /\ streamTimeouts' = streamTimeouts \ activeStreams[s]
      /\ route' = IF route = s THEN None ELSE route
      /\ UNCHANGED <<via, parts, activeStreams, asked, carrier, plan, sent>>
  BY DEF Closed, Reply, clientVars
<1>2. \A r \in rs : via[r] = s
  BY DEF Inv, StreamsOfSockets
<1>3. \A r \in responseWaiters : via[r] = s => r \in rs
  BY DEF Inv, BooksAgree
<1>4. streamTimeouts' = responseWaiters' /\ responseWaiters \subseteq Request
  BY <1>1 DEF Inv, TypeOK, BooksAgree
<1>5. /\ link' \in [Socket -> {"none", "open", "terminated", "closed"}]
      /\ \A z \in Socket : /\ link'[z] = "none" <=> link[z] = "none"
                           /\ link'[z] = "open" <=> link[z] = "open" /\ z # s
                           /\ z # s => link'[z] = link[z]
  BY <1>1 DEF Inv, TypeOK
<1> HIDE DEF rs
<1>6. TypeOK'
  BY <1>1, <1>4, <1>5 DEF Inv, TypeOK, Status
<1>7. OneLink'
  BY <1>1, <1>5, StreamAssumption DEF Inv, OneLink
<1>8. StreamsOfSockets'
  <2>1. \A r \in Request : phase[r] \in {"waiting", "done"} => phase'[r] \in {"waiting", "done"}
    BY <1>1
  <2>2. \A r \in responseWaiters' : phase'[r] = "waiting"
    BY <1>1, <1>4 DEF Inv, StreamsOfSockets
  <2> QED
    BY <1>1, <1>5, <2>1, <2>2 DEF Inv, TypeOK, StreamsOfSockets
<1>9. ClientSide'
  BY <1>1, <1>5 DEF Inv, TypeOK, ClientSide
<1>10. PrefixReceived' /\ AnswerIsWhole'
  BY <1>1, <1>4 DEF Inv, PrefixReceived, Received, AnswerIsWhole
<1>11. BooksAgree'
  <2>1. streamRejecters' = responseWaiters'
    BY <1>1 DEF Inv, BooksAgree
  <2>2. \A r \in responseWaiters' : r \in activeStreams'[via'[r]]
    BY <1>1 DEF Inv, BooksAgree
  <2>3. \A r \in Request : chunks'[r] # None => r \in responseWaiters'
    BY <1>1, StreamAssumption DEF Inv, BooksAgree
  <2>4. ASSUME NEW z \in Socket, link'[z] = "open", NEW r \in activeStreams'[z]
        PROVE  r \in responseWaiters'
    BY <1>1, <1>2, <1>5, <2>4 DEF Inv, BooksAgree, StreamsOfSockets
  <2> QED
    BY <1>4, <2>1, <2>2, <2>3, <2>4 DEF BooksAgree
<1>12. DisconnectSettles'
  <2>1. \A r \in responseWaiters' : via[r] # s /\ via[r] \in Socket /\ r \in responseWaiters
    BY <1>1, <1>3, <1>4 DEF Inv, TypeOK, StreamsOfSockets
  <2> QED
    BY <1>1, <1>5, <2>1 DEF Inv, DisconnectSettles
<1> QED
  BY <1>6, <1>7, <1>8, <1>9, <1>10, <1>11, <1>12 DEF Inv

-----------------------------------------------------------------------------
(***************************************************************************)
(* A request arrives.                                                      *)
(***************************************************************************)

\* A request that has not been admitted is in no map, and no client knows it.
LEMMA NotAdmitted ==
  ASSUME Inv, NEW r \in Request, phase[r] \in {"new", "reading"}
  PROVE  /\ r \notin responseWaiters /\ chunks[r] = None
         /\ \A s \in Socket : r \notin activeStreams[s]
         /\ r \notin asked /\ carrier[r] = None /\ plan[r] = 0 /\ sent[r] = 0
<1>1. sent[r] <= plan[r] /\ sent[r] \in Nat
  BY StreamAssumption DEF Inv, TypeOK, ClientSide
<1> QED
  BY <1>1 DEF Inv, StreamsOfSockets, ClientSide, BooksAgree

\* 404, 413 and 429: the request is answered before it is admitted.
LEMMA EarlyReplyInv ==
  ASSUME Inv, NEW r \in Request, phase[r] \in {"new", "reading"},
         NEW status \in Status \ {"response"}, Reply({r}, status),
         capturedRequests' \subseteq Request,
         UNCHANGED <<linkVars, via, parts, waitVars, clientVars>>
  PROVE  Inv'
<1>1. /\ answer' = [q \in Request |-> IF q = r THEN status ELSE answer[q]]
      /\ phase' = [q \in Request |-> IF q = r THEN "done" ELSE phase[q]]
      /\ UNCHANGED <<link, route, owner, via, parts, responseWaiters, streamRejecters,
                     streamTimeouts, activeStreams, chunks, asked, carrier, plan, sent>>
  BY DEF Reply, linkVars, waitVars, clientVars
<1>2. r \notin responseWaiters
  BY NotAdmitted
<1>3. TypeOK'
  BY <1>1 DEF Inv, TypeOK
<1>4. OneLink'
  BY <1>1 DEF Inv, OneLink
<1>5. StreamsOfSockets'
  <2>1. \A q \in Request : phase[q] \in {"waiting", "done"} => phase'[q] \in {"waiting", "done"}
    BY <1>1
  <2>2. \A q \in responseWaiters : phase'[q] = "waiting"
    BY <1>1, <1>2 DEF Inv, TypeOK, StreamsOfSockets
  <2> QED
    BY <1>1, <2>1, <2>2 DEF Inv, TypeOK, StreamsOfSockets
<1>6. ClientSide'
  BY <1>1 DEF Inv, TypeOK, ClientSide
<1>7. PrefixReceived' /\ AnswerIsWhole'
  BY <1>1 DEF Inv, TypeOK, PrefixReceived, Received, AnswerIsWhole
<1>8. BooksAgree' /\ DisconnectSettles'
  BY <1>1 DEF Inv, BooksAgree, DisconnectSettles
<1> QED
  BY <1>3, <1>4, <1>5, <1>6, <1>7, <1>8 DEF Inv

\* A request is routed to the socket that the registry has.
LEMMA RoutedInv ==
  ASSUME Inv, NEW r \in Request, Routed(r)
  PROVE  Inv'
<1>1. /\ phase[r] = "new" /\ route \in Socket
      /\ via' = [via EXCEPT ![r] = route] /\ phase' = [phase EXCEPT ![r] = "reading"]
      /\ UNCHANGED <<link, route, owner, answer, parts, responseWaiters, streamRejecters,
                     streamTimeouts, activeStreams, chunks, capturedRequests, asked, carrier,
                     plan, sent>>
  BY DEF Routed, linkVars, waitVars, clientVars, Inv, TypeOK
<1>2. /\ r \notin responseWaiters /\ chunks[r] = None /\ r \notin asked /\ carrier[r] = None
      /\ \A s \in Socket : r \notin activeStreams[s]
  BY <1>1, NotAdmitted
<1>3. link[route] = "open"
  BY <1>1 DEF Inv, OneLink
<1>4. TypeOK'
  BY <1>1, StreamAssumption DEF Inv, TypeOK
<1>5. OneLink'
  BY <1>1 DEF Inv, OneLink
<1>6. StreamsOfSockets'
  BY <1>1, <1>2, <1>3 DEF Inv, TypeOK, StreamsOfSockets
<1>7. ClientSide'
  BY <1>1, <1>2 DEF Inv, TypeOK, ClientSide
<1>8. PrefixReceived' /\ AnswerIsWhole'
  BY <1>1 DEF Inv, PrefixReceived, Received, AnswerIsWhole
<1>9. BooksAgree' /\ DisconnectSettles'
  BY <1>1, <1>2 DEF Inv, TypeOK, BooksAgree, DisconnectSettles
<1> QED
  BY <1>4, <1>5, <1>6, <1>7, <1>8, <1>9 DEF Inv

\* An admitted stream enters every map, and stays within the limit.
LEMMA AdmittedInv ==
  ASSUME Inv, NEW r \in Request, Admitted(r)
  PROVE  Inv'
<1> DEFINE s == via[r]
<1>1. /\ phase[r] = "reading" /\ ~ Saturated(s) /\ s \in Socket
      /\ capturedRequests' = capturedRequests \cup {r}
      /\ phase' = [phase EXCEPT ![r] = "waiting"]
      /\ responseWaiters' = responseWaiters \cup {r}
      /\ streamRejecters' = streamRejecters \cup {r}
      /\ streamTimeouts' = streamTimeouts \cup {r}
      /\ activeStreams' = [activeStreams EXCEPT ![s] = @ \cup {r}]
      /\ asked' = IF link[s] = "open" THEN asked \cup {r} ELSE asked
      /\ UNCHANGED <<link, route, owner, via, answer, parts, chunks, carrier, plan, sent>>
  BY DEF Admitted, linkVars, Inv, TypeOK
<1>2. /\ r \notin responseWaiters /\ chunks[r] = None
      /\ \A z \in Socket : r \notin activeStreams[z]
      /\ r \notin asked /\ carrier[r] = None /\ plan[r] = 0 /\ sent[r] = 0
  BY <1>1, NotAdmitted
<1>3. s # None /\ link[s] # "none"
  BY <1>1, StreamAssumption DEF Inv, StreamsOfSockets
<1>4. /\ s \in Socket /\ s = via[r]
      /\ \A z \in Socket : activeStreams'[z] = IF z = s THEN activeStreams[z] \cup {r} ELSE activeStreams[z]
  BY <1>1 DEF Inv, TypeOK
<1> HIDE DEF s
<1>5. TypeOK'
  BY <1>1, <1>3, <1>4 DEF Inv, TypeOK
<1>6. OneLink'
  BY <1>1 DEF Inv, OneLink
<1>7. StreamsOfSockets'
  <2>1. ASSUME NEW z \in Socket
        PROVE  /\ IsFiniteSet(activeStreams'[z])
               /\ Cardinality(activeStreams'[z]) <= MaxConcurrent
    <3>1. /\ IsFiniteSet(activeStreams[z]) /\ Cardinality(activeStreams[z]) <= MaxConcurrent
          /\ Cardinality(activeStreams[z]) \in Nat
      BY FS_CardinalityType DEF Inv, StreamsOfSockets
    <3>2. CASE z # s
      BY <1>4, <3>1, <3>2
    <3>3. CASE z = s
      <4>1. Cardinality(activeStreams[z]) < MaxConcurrent
        BY <1>1, <3>1, <3>3, StreamAssumption DEF Saturated
      <4>2. /\ IsFiniteSet(activeStreams[z] \cup {r})
            /\ Cardinality(activeStreams[z] \cup {r}) = Cardinality(activeStreams[z]) + 1
        BY <1>2, <3>1, FS_AddElement
      <4> QED
        BY <1>4, <3>1, <3>3, <4>1, <4>2, StreamAssumption
    <3> QED
      BY <3>2, <3>3
  <2>2. \A z \in Socket : \A q \in activeStreams'[z] :
          via'[q] = z /\ link'[z] # "none" /\ phase'[q] \in {"waiting", "done"}
    BY <1>1, <1>3, <1>4 DEF Inv, TypeOK, StreamsOfSockets
  <2>3. /\ \A q \in responseWaiters' : phase'[q] = "waiting"
        /\ \A q \in Request : via'[q] # None => link'[via'[q]] # "none"
    BY <1>1 DEF Inv, TypeOK, StreamsOfSockets
  <2> QED
    BY <2>1, <2>2, <2>3 DEF StreamsOfSockets
<1>8. ClientSide'
  <2>1. \A q \in asked' : plan'[q] = 0 /\ phase'[q] \in {"waiting", "done"} /\ via'[q] # None
    BY <1>1, <1>2, <1>3, <1>4 DEF Inv, TypeOK, ClientSide
  <2> QED
    BY <1>1, <1>2, <2>1 DEF Inv, TypeOK, ClientSide
<1>9. PrefixReceived' /\ AnswerIsWhole'
  <2>1. Received(r)' = 0..(sent[r] - 1)
    BY <1>1, <1>2 DEF Received
  <2> QED
    BY <1>1, <1>2, <2>1 DEF Inv, PrefixReceived, Received, AnswerIsWhole
<1>10. BooksAgree'
  <2>1. /\ streamRejecters' = responseWaiters' /\ streamTimeouts' = responseWaiters'
        /\ \A q \in Request : chunks'[q] # None => q \in responseWaiters'
    BY <1>1 DEF Inv, BooksAgree
  <2>2. \A q \in responseWaiters' : q \in activeStreams'[via'[q]]
    <3>1. \A q \in responseWaiters : q \in activeStreams[via[q]] /\ via[q] \in Socket
      BY DEF Inv, TypeOK, BooksAgree, StreamsOfSockets
    <3> QED
      BY <1>1, <1>4, <3>1
  <2>3. \A z \in Socket : link'[z] = "open" => activeStreams'[z] \subseteq responseWaiters'
    BY <1>1, <1>4 DEF Inv, BooksAgree
  <2> QED
    BY <2>1, <2>2, <2>3 DEF BooksAgree
<1>11. DisconnectSettles'
  BY <1>1, <1>2, <1>4 DEF Inv, DisconnectSettles
<1> QED
  BY <1>5, <1>6, <1>7, <1>8, <1>9, <1>10, <1>11 DEF Inv

\* DELETE of the ring touches no stream.
LEMMA ClearRingInv ==
  ASSUME Inv, NEW u \in User, ClearRing(u)
  PROVE  Inv'
<1>1. /\ capturedRequests' = {}
      /\ UNCHANGED <<link, route, owner, phase, answer, parts, via, responseWaiters,
                     streamRejecters, streamTimeouts, activeStreams, chunks, asked, carrier,
                     plan, sent>>
  BY DEF ClearRing, linkVars, answerVars, waitVars, clientVars
<1> QED
  BY <1>1 DEF Inv, TypeOK, OneLink, StreamsOfSockets, ClientSide, PrefixReceived, Received,
              BooksAgree, AnswerIsWhole, DisconnectSettles

-----------------------------------------------------------------------------
(***************************************************************************)
(* The client answers.                                                     *)
(***************************************************************************)

\* A client sends its response on its open socket, the only open one there is.
LEMMA ProxyInv ==
  ASSUME Inv, NEW r \in Request, proxyLocalRequest(r)
  PROVE  Inv'
<1>1. /\ r \in asked /\ asked' = asked \ {r}
      /\ UNCHANGED <<link, route, owner, phase, answer, parts, via, responseWaiters,
                     streamRejecters, streamTimeouts, activeStreams, chunks, capturedRequests,
                     sent>>
  BY DEF proxyLocalRequest, linkVars, answerVars, waitVars
<1>2. /\ plan[r] = 0 /\ carrier[r] = None /\ sent[r] = 0 /\ answer[r] # "response"
      /\ phase[r] \in {"waiting", "done"} /\ via[r] # None
  <2>1. sent[r] <= plan[r] /\ sent[r] \in Nat
    BY <1>1, StreamAssumption DEF Inv, TypeOK, ClientSide
  <2> QED
    BY <1>1, <2>1 DEF Inv, ClientSide, PrefixReceived
<1>3. OneLink' /\ StreamsOfSockets' /\ BooksAgree'
  BY <1>1 DEF Inv, OneLink, StreamsOfSockets, BooksAgree
<1>4. CASE UNCHANGED <<carrier, plan>>
  BY <1>1, <1>3, <1>4 DEF Inv, TypeOK, ClientSide, PrefixReceived, Received, AnswerIsWhole,
                          DisconnectSettles
<1>5. ASSUME NEW s \in Socket, link[s] = "open", NEW n \in 1..Parts,
             carrier' = [carrier EXCEPT ![r] = s], plan' = [plan EXCEPT ![r] = n]
      PROVE  Inv'
  <2>1. s # None /\ n # 0 /\ 0 < n
    BY StreamAssumption
  <2>2. s = via[r] \/ link[via[r]] # "open"
    BY <1>2, <1>5 DEF Inv, TypeOK, OneLink
  <2>3. TypeOK'
    BY <1>1, <1>5, StreamAssumption DEF Inv, TypeOK
  <2>4. ClientSide'
    BY <1>1, <1>2, <1>5, <2>1, <2>2, StreamAssumption DEF Inv, TypeOK, ClientSide
  <2>5. PrefixReceived'
    BY <1>1, <1>2, <1>5, <2>1 DEF Inv, TypeOK, PrefixReceived, Received
  <2>6. AnswerIsWhole'
    BY <1>1, <1>2, <1>5 DEF Inv, TypeOK, AnswerIsWhole
  <2>7. DisconnectSettles'
    BY <1>1, <1>5 DEF Inv, TypeOK, DisconnectSettles
  <2> QED
    BY <1>3, <2>3, <2>4, <2>5, <2>6, <2>7 DEF Inv
<1> QED
  BY <1>4, <1>5 DEF proxyLocalRequest

\* What the arrival of a frame says of its request.
LEMMA ArrivesFacts ==
  ASSUME Inv, NEW r \in Request, Arrives(r)
  PROVE  /\ carrier[r] \in Socket /\ link[carrier[r]] = "open"
         /\ sent[r] \in 0..(Parts - 1) /\ plan[r] \in 1..Parts /\ sent[r] < plan[r]
         /\ sent' = [sent EXCEPT ![r] = @ + 1] /\ sent' \in [Request -> 0..Parts]
         /\ carrier[r] = via[r] \/ link[via[r]] # "open"
         /\ via[r] # None
  BY StreamAssumption DEF Inv, TypeOK, ClientSide, Arrives

\* A frame of a stream that has been settled changes no map.
LEMMA LateFrameInv ==
  ASSUME Inv, NEW r \in Request, LateFrame(r)
  PROVE  Inv'
<1>1. /\ r \notin responseWaiters
      /\ UNCHANGED <<link, route, owner, phase, answer, parts, via, responseWaiters,
                     streamRejecters, streamTimeouts, activeStreams, chunks, capturedRequests,
                     asked, carrier, plan>>
  BY DEF LateFrame, linkVars, answerVars, waitVars
<1>2. /\ sent[r] \in Nat /\ plan[r] \in Nat /\ sent[r] < plan[r]
      /\ sent' = [sent EXCEPT ![r] = @ + 1] /\ sent' \in [Request -> 0..Parts]
  BY ArrivesFacts, StreamAssumption DEF LateFrame
<1>3. TypeOK'
  BY <1>1, <1>2 DEF Inv, TypeOK
<1>4. ClientSide'
  BY <1>1, <1>2 DEF Inv, TypeOK, ClientSide
<1>5. PrefixReceived'
  BY <1>1, <1>2 DEF Inv, TypeOK, PrefixReceived, Received
<1> QED
  BY <1>1, <1>3, <1>4, <1>5 DEF Inv, OneLink, StreamsOfSockets, BooksAgree, AnswerIsWhole,
                                DisconnectSettles

-----------------------------------------------------------------------------
(***************************************************************************)
(* A stream is settled: answered, timed out or dropped.                    *)
(***************************************************************************)

\* It is enough that the socket it is forgotten on is the one it is counted on,
\* or that this one is not open, and that a response is as long as was planned.
LEMMA SettleInv ==
  ASSUME Inv, NEW r \in responseWaiters, NEW s \in Socket,
         s = via[r] \/ link[via[r]] # "open",
         Forget(r, s),
         \/ UNCHANGED answerVars
         \/ Reply({r}, "504") /\ UNCHANGED parts
         \/ /\ Reply({r}, "response")
            /\ parts' = [parts EXCEPT ![r] = plan[r]] /\ plan[r] # 0,
         sent' \in [Request -> 0..Parts],
         \A q \in Request : sent'[q] <= plan[q] /\ (q # r => sent'[q] = sent[q]),
         UNCHANGED <<linkVars, via, capturedRequests, asked, carrier, plan>>
  PROVE  Inv'
<1>1. /\ responseWaiters' = responseWaiters \ {r}
      /\ streamRejecters' = streamRejecters \ {r}
      /\ streamTimeouts' = streamTimeouts \ {r}
      /\ activeStreams' = [activeStreams EXCEPT ![s] = @ \ {r}]
      /\ chunks' = [chunks EXCEPT ![r] = None]
      /\ UNCHANGED <<link, route, owner, via, capturedRequests, asked, carrier, plan>>
  BY DEF Forget, linkVars
<1>2. r \in Request /\ phase[r] = "waiting"
  BY DEF Inv, TypeOK, StreamsOfSockets
<1>3. /\ answer' \in [Request -> Status \cup {None}] /\ parts' \in [Request -> 0..Parts]
      /\ phase' \in [Request -> {"new", "reading", "waiting", "done"}]
      /\ \A q \in Request : q # r => /\ answer'[q] = answer[q] /\ parts'[q] = parts[q]
                                     /\ phase'[q] = phase[q]
      /\ phase'[r] \in {"waiting", "done"}
      /\ answer'[r] = "response" => plan[r] # 0 /\ parts'[r] = plan[r]
  <2>1. CASE UNCHANGED answerVars
    BY <1>2, <2>1 DEF answerVars, Inv, TypeOK, PrefixReceived, AnswerIsWhole
  <2>2. CASE Reply({r}, "504") /\ UNCHANGED parts
    BY <1>2, <2>2 DEF Reply, Inv, TypeOK, Status
  <2>3. CASE /\ Reply({r}, "response")
             /\ parts' = [parts EXCEPT ![r] = plan[r]] /\ plan[r] # 0
    BY <1>2, <2>3 DEF Reply, Inv, TypeOK, Status
  <2> QED
    BY <2>1, <2>2, <2>3
<1>4. TypeOK'
  BY <1>1, <1>2, <1>3 DEF Inv, TypeOK
<1>5. OneLink'
  BY <1>1 DEF Inv, OneLink
<1>6. StreamsOfSockets'
  <2>1. ASSUME NEW z \in Socket
        PROVE  /\ activeStreams'[z] \subseteq activeStreams[z]
               /\ IsFiniteSet(activeStreams'[z])
               /\ Cardinality(activeStreams'[z]) <= MaxConcurrent
    <3>1. activeStreams'[z] \subseteq activeStreams[z]
      BY <1>1 DEF Inv, TypeOK
    <3>2. /\ IsFiniteSet(activeStreams[z]) /\ Cardinality(activeStreams[z]) <= MaxConcurrent
      BY DEF Inv, StreamsOfSockets
    <3>3. /\ IsFiniteSet(activeStreams'[z])
          /\ Cardinality(activeStreams'[z]) <= Cardinality(activeStreams[z])
          /\ Cardinality(activeStreams'[z]) \in Nat /\ Cardinality(activeStreams[z]) \in Nat
      BY <3>1, <3>2, FS_Subset, FS_CardinalityType
    <3> QED
      BY <3>1, <3>2, <3>3, StreamAssumption
  <2>2. \A q \in Request : phase[q] \in {"waiting", "done"} => phase'[q] \in {"waiting", "done"}
    BY <1>2, <1>3
  <2>3. /\ \A q \in responseWaiters' : phase'[q] = "waiting"
        /\ \A q \in Request : via'[q] # None => link'[via'[q]] # "none"
    BY <1>1, <1>3 DEF Inv, TypeOK, StreamsOfSockets
  <2>4. \A z \in Socket : \A q \in activeStreams'[z] :
          via'[q] = z /\ link'[z] # "none" /\ phase'[q] \in {"waiting", "done"}
    BY <1>1, <2>1, <2>2 DEF Inv, TypeOK, StreamsOfSockets
  <2> QED
    BY <2>1, <2>3, <2>4 DEF StreamsOfSockets
<1>7. ClientSide'
  <2>1. \A q \in Request : phase[q] \in {"waiting", "done"} => phase'[q] \in {"waiting", "done"}
    BY <1>2, <1>3
  <2> QED
    BY <1>1, <2>1 DEF Inv, TypeOK, ClientSide
<1>8. PrefixReceived' /\ AnswerIsWhole'
  <2>1. ASSUME NEW q \in Request, q # r
        PROVE  /\ q \in responseWaiters' => /\ plan'[q] = 0 \/ sent'[q] < plan'[q]
                                           /\ Received(q)' = 0..(sent'[q] - 1)
               /\ answer'[q] = "response" => plan'[q] # 0 /\ parts'[q] = plan'[q]
               /\ chunks'[q] # None => sent'[q] # 0
    <3>1. /\ answer'[q] = answer[q] /\ parts'[q] = parts[q] /\ sent'[q] = sent[q]
          /\ plan'[q] = plan[q] /\ chunks'[q] = chunks[q]
          /\ q \in responseWaiters' <=> q \in responseWaiters
      BY <1>1, <1>3, <2>1 DEF Inv, TypeOK
    <3> QED
      BY <3>1 DEF Inv, PrefixReceived, Received, AnswerIsWhole
  <2>2. r \notin responseWaiters' /\ plan'[r] = plan[r] /\ chunks'[r] = None
    BY <1>1, <1>2 DEF Inv, TypeOK
  <2> QED
    BY <1>3, <2>1, <2>2 DEF PrefixReceived, AnswerIsWhole
<1>9. BooksAgree'
  <2>1. streamRejecters' = responseWaiters' /\ streamTimeouts' = responseWaiters'
    BY <1>1 DEF Inv, BooksAgree
  <2>2. \A q \in responseWaiters' : q \in activeStreams'[via'[q]]
    BY <1>1 DEF Inv, TypeOK, BooksAgree
  <2>3. \A q \in Request : chunks'[q] # None => q \in responseWaiters'
    BY <1>1 DEF Inv, TypeOK, BooksAgree
  <2>4. ASSUME NEW z \in Socket, link'[z] = "open", NEW q \in activeStreams'[z]
        PROVE  q \in responseWaiters'
    <3>1. q \in activeStreams[z] /\ q \in responseWaiters /\ via[q] = z
      BY <1>1, <2>4 DEF Inv, TypeOK, BooksAgree, StreamsOfSockets
    <3>2. q # r
      BY <1>1, <2>4, <3>1 DEF Inv, TypeOK
    <3> QED
      BY <1>1, <3>1, <3>2
  <2> QED
    BY <2>1, <2>2, <2>3, <2>4 DEF BooksAgree
<1>10. DisconnectSettles'
  BY <1>1 DEF Inv, DisconnectSettles
<1> QED
  BY <1>4, <1>5, <1>6, <1>7, <1>8, <1>9, <1>10 DEF Inv

\* The idle timer: the socket it was armed with is the stream's own, or a chunk
\* came by another one because that is not open.
LEMMA IdleTimeoutInv ==
  ASSUME Inv, NEW r \in Request, IdleTimeout(r)
  PROVE  Inv'
<1> DEFINE s == IF chunks[r] = None THEN via[r] ELSE carrier[r]
<1>1. /\ r \in responseWaiters /\ Forget(r, s) /\ Reply({r}, "504")
      /\ UNCHANGED <<linkVars, via, parts, capturedRequests, asked, carrier, plan, sent>>
  BY DEF IdleTimeout, clientVars
<1>2. via[r] \in Socket
  BY <1>1 DEF Inv, TypeOK, StreamsOfSockets
<1>3. /\ sent \in [Request -> 0..Parts]
      /\ \A q \in Request : sent[q] <= plan[q]
  BY DEF Inv, TypeOK, ClientSide
<1>4. CASE carrier[r] # None
  <2>1. s \in Socket /\ (s = via[r] \/ link[via[r]] # "open")
    BY <1>2, <1>4 DEF Inv, TypeOK, ClientSide
  <2> HIDE DEF s
  <2> QED
    BY <1>1, <1>3, <2>1, SettleInv
<1>5. CASE carrier[r] = None /\ chunks[r] # None
  <2>1. plan[r] = 0 /\ sent[r] = 0
    BY <1>3, <1>5, StreamAssumption DEF Inv, ClientSide
  <2> QED
    BY <1>5, <2>1 DEF Inv, PrefixReceived
<1>6. CASE chunks[r] = None
  <2>1. s = via[r]
    BY <1>6
  <2> HIDE DEF s
  <2> QED
    BY <1>1, <1>2, <1>3, <2>1, SettleInv
<1> QED
  BY <1>4, <1>5, <1>6

\* What the settling of a stream by a frame has in common.
LEMMA ArrivesSettles ==
  ASSUME Inv, NEW r \in responseWaiters, Arrives(r),
         Forget(r, carrier[r]),
         \/ UNCHANGED answerVars
         \/ Reply({r}, "response") /\ parts' = [parts EXCEPT ![r] = plan[r]],
         UNCHANGED <<linkVars, via, capturedRequests, asked, carrier, plan>>
  PROVE  Inv'
<1>1. r \in Request
  BY DEF Inv, TypeOK
<1>2. /\ carrier[r] \in Socket /\ (carrier[r] = via[r] \/ link[via[r]] # "open")
      /\ sent[r] \in 0..(Parts - 1) /\ plan[r] \in 1..Parts /\ sent[r] < plan[r]
      /\ sent' = [sent EXCEPT ![r] = @ + 1] /\ sent' \in [Request -> 0..Parts]
  BY <1>1, ArrivesFacts
<1>3. \A q \in Request : sent'[q] <= plan[q] /\ (q # r => sent'[q] = sent[q])
  BY <1>1, <1>2 DEF Inv, TypeOK, ClientSide
<1>4. plan[r] # 0
  BY <1>2
<1> QED
  BY <1>2, <1>3, <1>4, SettleInv

\* A response in one frame.
LEMMA WholeResponseInv ==
  ASSUME Inv, NEW r \in Request, WholeResponse(r)
  PROVE  Inv'
  BY ArrivesSettles DEF WholeResponse, Deliver

\* A chunk that is stored is not the last one, and one that completes the
\* response is, whether or not the client announces the number of parts.
LEMMA ChunkInv ==
  ASSUME Inv, NEW r \in Request, NEW announced \in BOOLEAN, Chunk(r, announced)
  PROVE  Inv'
<1> DEFINE i   == sent[r]
           got == Received(r) \cup {i}
           n   == Expected(i, plan[r], announced)
<1>1. /\ Arrives(r) /\ r \in responseWaiters /\ plan[r] > 1
      /\ UNCHANGED <<linkVars, via, capturedRequests, asked, carrier, plan>>
  BY DEF Chunk
<1>2. /\ i \in 0..(Parts - 1) /\ plan[r] \in 1..Parts /\ i < plan[r]
      /\ sent' = [sent EXCEPT ![r] = @ + 1] /\ sent' \in [Request -> 0..Parts]
  BY <1>1, ArrivesFacts
<1>3. i \in Nat /\ plan[r] \in Nat /\ plan[r] # None /\ Parts \in Nat
  BY <1>2, StreamAssumption
<1>4. Received(r) = 0..(i - 1)
  BY <1>1 DEF Inv, PrefixReceived
<1>5. got = 0..i
  BY <1>3, <1>4
<1>6. Complete(n, got) <=> i = plan[r] - 1
  <2>1. CASE i = plan[r] - 1
    BY <1>3, <1>5, <2>1 DEF Complete, Expected
  <2>2. CASE i # plan[r] - 1
    <3>1. i < plan[r] - 1
      BY <1>2, <1>3, <2>2
    <3>2. n = plan[r] \/ n = None
      BY <2>2 DEF Expected
    <3>3. plan[r] - 1 \in 0..(plan[r] - 1) /\ plan[r] - 1 \notin 0..i
      BY <1>2, <1>3, <3>1
    <3> HIDE DEF n, got, i
    <3> QED
      BY <1>5, <2>2, <3>2, <3>3 DEF Complete
  <2> QED
    BY <2>1, <2>2
<1>7. Complete(n, got) => n = plan[r]
  BY <1>3, <1>6 DEF Expected
<1>8. CASE Forget(r, carrier[r]) /\ UNCHANGED answerVars
  BY <1>1, <1>8, ArrivesSettles
<1>9. CASE Complete(n, got) /\ Deliver(r, n)
  BY <1>1, <1>7, <1>9, ArrivesSettles DEF Deliver
<1>10. CASE /\ ~ Complete(n, got)
            /\ chunks' = [chunks EXCEPT ![r] = got]
            /\ UNCHANGED <<answerVars, responseWaiters, streamRejecters, streamTimeouts,
                           activeStreams>>
  <2>1. /\ i + 1 < plan[r] /\ i + 1 \in Nat
    BY <1>2, <1>3, <1>6, <1>10
  <2>2. /\ got = 0..((i + 1) - 1) /\ got \in SUBSET Index /\ got # None
    BY <1>2, <1>3, <1>5, StreamAssumption DEF Index
  <2>3. /\ sent'[r] = i + 1 /\ chunks' = [chunks EXCEPT ![r] = got]
        /\ \A q \in Request : q # r => sent'[q] = sent[q]
    BY <1>2, <1>10 DEF Inv, TypeOK
  <2>4. UNCHANGED <<link, route, owner, phase, answer, parts, via, responseWaiters,
                    streamRejecters, streamTimeouts, activeStreams, capturedRequests, asked,
                    carrier, plan>>
    BY <1>1, <1>10 DEF linkVars, answerVars
  <2> HIDE DEF i, got, n
  <2>5. TypeOK'
    BY <1>2, <2>2, <2>3, <2>4 DEF Inv, TypeOK
  <2>6. OneLink' /\ StreamsOfSockets' /\ AnswerIsWhole' /\ DisconnectSettles'
    BY <2>4 DEF Inv, OneLink, StreamsOfSockets, AnswerIsWhole, DisconnectSettles
  <2>7. ClientSide'
    BY <2>1, <2>3, <2>4 DEF Inv, TypeOK, ClientSide
  <2>8. PrefixReceived'
    <3>1. ASSUME NEW q \in Request
          PROVE  /\ q \in responseWaiters' => /\ plan'[q] = 0 \/ sent'[q] < plan'[q]
                                              /\ Received(q)' = 0..(sent'[q] - 1)
                 /\ answer'[q] = "response" => plan'[q] # 0
                 /\ chunks'[q] # None => sent'[q] # 0
      <4>1. CASE q = r
        <5>1. chunks'[r] = got /\ sent'[r] = i + 1 /\ plan'[r] = plan[r] /\ answer'[r] = answer[r]
          BY <2>3, <2>4 DEF Inv, TypeOK
        <5>2. Received(q)' = 0..((i + 1) - 1)
          BY <2>2, <4>1, <5>1 DEF Received
        <5>3. answer[r] = "response" => plan[r] # 0
          BY DEF Inv, PrefixReceived
        <5> QED
          BY <1>3, <2>1, <4>1, <5>1, <5>2, <5>3
      <4>2. CASE q # r
        <5>1. /\ answer'[q] = answer[q] /\ sent'[q] = sent[q] /\ plan'[q] = plan[q]
              /\ chunks'[q] = chunks[q] /\ responseWaiters' = responseWaiters
          BY <2>3, <2>4, <4>2 DEF Inv, TypeOK
        <5>2. Received(q)' = Received(q)
          BY <5>1 DEF Received
        <5> QED
          BY <5>1, <5>2 DEF Inv, PrefixReceived
      <4> QED
        BY <4>1, <4>2
    <3> QED
      BY <3>1 DEF PrefixReceived
  <2>9. BooksAgree'
    BY <1>1, <2>3, <2>4 DEF Inv, TypeOK, BooksAgree
  <2> QED
    BY <2>5, <2>6, <2>7, <2>8, <2>9 DEF Inv
<1> QED
  <2> HIDE DEF n, got
  <2>1. \/ Forget(r, carrier[r]) /\ UNCHANGED answerVars
        \/ Complete(n, got) /\ Deliver(r, n)
        \/ /\ ~ Complete(n, got)
           /\ chunks' = [chunks EXCEPT ![r] = got]
           /\ UNCHANGED <<answerVars, responseWaiters, streamRejecters, streamTimeouts,
                          activeStreams>>
    BY DEF Chunk, n, got
  <2> QED
    BY <1>8, <1>9, <1>10, <2>1

-----------------------------------------------------------------------------
\* Every action, and the step in which nothing happens, preserve the invariant.
LEMMA NextInv == Inv /\ [Next]_vars => Inv'
<1> SUFFICES ASSUME Inv, [Next]_vars PROVE Inv'
  OBVIOUS
<1>1. ASSUME NEW s \in Socket, Connect(s) PROVE Inv'
  BY <1>1, ConnectInv
<1>2. ASSUME NEW s \in Socket, Closed(s) PROVE Inv'
  BY <1>2, ClosedInv
<1>3. CASE Evict
  BY <1>3, EvictInv
<1>4. ASSUME NEW u \in User, ClearRing(u) PROVE Inv'
  BY <1>4, ClearRingInv
<1>5. capturedRequests \subseteq Request
  BY DEF Inv, TypeOK
<1>6. ASSUME NEW r \in Request, NotFound(r) PROVE Inv'
  BY <1>5, <1>6, EarlyReplyInv DEF NotFound, Status
<1>7. ASSUME NEW r \in Request, Routed(r) PROVE Inv'
  BY <1>7, RoutedInv
<1>8. ASSUME NEW r \in Request, BodyTooLarge(r) PROVE Inv'
  BY <1>5, <1>8, EarlyReplyInv DEF BodyTooLarge, Status
<1>9. ASSUME NEW r \in Request, Rejected(r) PROVE Inv'
  BY <1>5, <1>9, EarlyReplyInv DEF Rejected, Status
<1>10. ASSUME NEW r \in Request, Admitted(r) PROVE Inv'
  BY <1>10, AdmittedInv
<1>11. ASSUME NEW r \in Request, proxyLocalRequest(r) PROVE Inv'
  BY <1>11, ProxyInv
<1>12. ASSUME NEW r \in Request, IdleTimeout(r) PROVE Inv'
  BY <1>12, IdleTimeoutInv
<1>13. ASSUME NEW r \in Request, LateFrame(r) PROVE Inv'
  BY <1>13, LateFrameInv
<1>14. ASSUME NEW r \in Request, WholeResponse(r) PROVE Inv'
  BY <1>14, WholeResponseInv
<1>15. ASSUME NEW r \in Request, NEW announced \in BOOLEAN, Chunk(r, announced) PROVE Inv'
  BY <1>15, ChunkInv
<1>16. CASE UNCHANGED vars
  BY <1>16 DEF vars, linkVars, answerVars, waitVars, clientVars, Inv, TypeOK, OneLink,
               StreamsOfSockets, ClientSide, PrefixReceived, Received, BooksAgree,
               AnswerIsWhole, DisconnectSettles
<1> QED
  BY <1>1, <1>2, <1>3, <1>4, <1>6, <1>7, <1>8, <1>9, <1>10, <1>11, <1>12, <1>13, <1>14,
     <1>15, <1>16 DEF Next

\* The inductive invariant holds in every behaviour of the gateway and its clients.
THEOREM StreamsInvariant == Spec => []Inv
  BY InitInv, NextInv, PTL DEF Spec

\* Type correctness.
THEOREM StreamsTypeOK == Spec => []TypeOK
<1>1. Inv => TypeOK
  BY DEF Inv
<1> QED
  BY <1>1, StreamsInvariant, PTL

\* A stream is in all of the gateway's maps or in none: one that was answered,
\* dropped, timed out or lost its tunnel keeps no timer, no chunks and no slot.
THEOREM StreamsBooksAgree == Spec => []BooksAgree
<1>1. Inv => BooksAgree
  BY DEF Inv
<1> QED
  BY <1>1, StreamsInvariant, PTL

\* A client never has more unsettled requests than maxConcurrentStreamsPerTunnel:
\* those that were routed to its socket and wait are among the streams counted.
THEOREM StreamsLimitHolds == Spec => []LimitHolds
<1>1. ASSUME Inv, NEW s \in Socket
      PROVE  Cardinality({r \in Request : via[r] = s /\ r \in responseWaiters}) <= MaxConcurrent
  <2> DEFINE W == {r \in Request : via[r] = s /\ r \in responseWaiters}
  <2>1. W \subseteq activeStreams[s]
    BY <1>1 DEF Inv, BooksAgree
  <2>2. IsFiniteSet(activeStreams[s]) /\ Cardinality(activeStreams[s]) <= MaxConcurrent
    BY <1>1 DEF Inv, StreamsOfSockets
  <2> HIDE DEF W
  <2>3. /\ Cardinality(W) <= Cardinality(activeStreams[s])
        /\ Cardinality(W) \in Nat /\ Cardinality(activeStreams[s]) \in Nat
    BY <2>1, <2>2, FS_Subset, FS_CardinalityType
  <2>4. Cardinality(W) <= MaxConcurrent
    BY <2>2, <2>3, StreamAssumption
  <2> QED
    BY <2>4 DEF W
<1>2. Inv => LimitHolds
  BY <1>1 DEF LimitHolds
<1> QED
  BY <1>2, StreamsInvariant, PTL

\* Reassembly ends with the last part that the client sends and not before,
\* with the number of parts announced or not.
THEOREM StreamsAnswerIsWhole == Spec => []AnswerIsWhole
<1>1. Inv => AnswerIsWhole
  BY DEF Inv
<1> QED
  BY <1>1, StreamsInvariant, PTL

\* After the close of a socket no request waits that its client was sent.
THEOREM StreamsDisconnectSettles == Spec => []DisconnectSettles
<1>1. Inv => DisconnectSettles
  BY DEF Inv
<1> QED
  BY <1>1, StreamsInvariant, PTL

=============================================================================
