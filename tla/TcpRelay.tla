------------------------------ MODULE TcpRelay ------------------------------
(***************************************************************************)
(* Raw TCP through a tunnel, on both of its sides: the public listener of  *)
(* the gateway (bindTcpTunnel in apps/gateway-server/src/server.ts), the   *)
(* tcp_open, tcp_data and tcp_close frames of both directions, and the     *)
(* connections a client opens to the local service                         *)
(* (apps/tunnel-client/src/client.ts).                                     *)
(*                                                                         *)
(* Either side of the control link can go down first, and the other learns *)
(* of it later; a socket that is not open any more drops what it is given  *)
(* to send.  Frames keep their order; bufferedAmount is the number of      *)
(* frames on their way, and the data of a direction is a number of chunks. *)
(***************************************************************************)
EXTENDS Naturals, Sequences, FiniteSets

CONSTANTS
  Socket,       \* control sockets: the client's successive connections
  Conn,         \* public TCP connections
  Limit,        \* MAX_TCP_CONNECTIONS of the client
  High, Low,    \* WS_BACKPRESSURE_HIGH / LOW_WATER_BYTES, in frames
  Chunks,       \* bound, [Conn -> Nat]: chunks each end of a connection sends
  None

ASSUME RelayAssumption ==
  /\ Limit \in Nat /\ High \in Nat /\ Low \in Nat /\ Low <= High
  /\ Chunks \in [Conn -> Nat]
  /\ None \notin Socket

VARIABLES
  gw, cl,         \* a control socket as the gateway and as the client see it
  down, up,       \* frames on their way to the client, and to the gateway
  server,         \* the listener of a socket: "none", "binding", "listening", "closed"
  pub, via,       \* the public connections, and the socket each belongs to
  connections,    \* tcpConnectionsById
  owned,          \* tcpConnectionsBySocket
  record,         \* of a connection: "none", "open", or "closed" (closedAt, and
                  \* it has left tcpConnRecordById)
  watched,        \* connections that got their data, error and close handlers
  paused, resumeTimer,
  buffered,       \* chunks written to a public connection and not yet flushed
  fed,            \* chunks its peer sent
  local,          \* the client's connections to the local service
  tcpConnections, \* the client's map of them
  answered        \* chunks the local service sent

linkVars   == <<gw, cl, server>>
frameVars  == <<down, up>>
bookVars   == <<connections, owned, record>>
flowVars   == <<paused, resumeTimer>>
publicVars == <<pub, via, watched, buffered, fed>>
localVars  == <<local, tcpConnections, answered>>
vars == <<linkVars, frameVars, bookVars, flowVars, publicVars, localVars>>

Side  == {"none", "open", "closing", "closed"}
Frame == [type : {"tcp_open", "tcp_data", "tcp_close"}, conn : Conn]
Msg(type, c) == [type |-> type, conn |-> c]

Init ==
  /\ gw = [s \in Socket |-> "none"] /\ cl = [s \in Socket |-> "none"]
  /\ down = [s \in Socket |-> <<>>] /\ up = [s \in Socket |-> <<>>]
  /\ server = [s \in Socket |-> "none"]
  /\ pub = [c \in Conn |-> "none"] /\ via = [c \in Conn |-> None]
  /\ connections = {} /\ watched = {}
  /\ owned = [s \in Socket |-> {}]
  /\ record = [c \in Conn |-> "none"]
  /\ paused = {} /\ resumeTimer = {}
  /\ buffered = [c \in Conn |-> 0] /\ fed = [c \in Conn |-> 0]
  /\ local = [c \in Conn |-> "none"] /\ tcpConnections = {}
  /\ answered = [c \in Conn |-> 0]

-----------------------------------------------------------------------------
(***************************************************************************)
(* The control link.                                                       *)
(***************************************************************************)

\* The client's socket: it has one at a time, and the last one has closed.
Current == {s \in Socket : cl[s] \in {"open", "closing"}}

\* A control socket is up, and its registration awaits listen().
Register(s) ==
  /\ Current = {} /\ cl[s] = "none"
  /\ gw' = [gw EXCEPT ![s] = "open"] /\ cl' = [cl EXCEPT ![s] = "open"]
  /\ server' = [server EXCEPT ![s] = "binding"]
  /\ UNCHANGED <<frameVars, bookVars, flowVars, publicVars, localVars>>

\* listen() answers, be the socket still there or not.
Listening(s) ==
  /\ server[s] = "binding"
  /\ server' = [server EXCEPT ![s] = "listening"]
  /\ UNCHANGED <<gw, cl, frameVars, bookVars, flowVars, publicVars, localVars>>

\* One side closes, terminates or loses the link; its close event follows.
GatewayDown(s) ==
  /\ gw[s] = "open"
  /\ gw' = [gw EXCEPT ![s] = "closing"]
  /\ UNCHANGED <<cl, server, frameVars, bookVars, flowVars, publicVars, localVars>>

ClientDown(s) ==
  /\ cl[s] = "open"
  /\ cl' = [cl EXCEPT ![s] = "closing"]
  /\ UNCHANGED <<gw, server, frameVars, bookVars, flowVars, publicVars, localVars>>

\* A send on a socket that is not open is lost.
Sent(queue, side, s, frames) ==
  IF side[s] = "open" THEN [queue EXCEPT ![s] = @ \o frames] ELSE queue

\* The client sends on the socket it has, whichever a connection came by.
ClientSends(queue, frames) ==
  [s \in Socket |-> IF s \in Current THEN Sent(queue, cl, s, frames)[s] ELSE queue[s]]

Destroyed(cs) == [c \in Conn |-> IF c \in cs /\ pub[c] = "open" THEN "dead" ELSE pub[c]]

\* mutant of GatewayClosed: the public connections are forgotten, not destroyed
GatewayClosedMutant(s) ==
  /\ gw[s] = "closing"
  /\ gw' = [gw EXCEPT ![s] = "closed"]
  /\ up' = [up EXCEPT ![s] = <<>>]
  /\ connections' = connections \ owned[s]
  /\ server' = [server EXCEPT ![s] = IF @ = "listening" THEN "closed" ELSE @]
  /\ UNCHANGED <<cl, down, owned, record, flowVars, pub, via, watched,
                 buffered, fed, localVars>>

(***************************************************************************)
(* The close handler of the gateway: the connections of the socket are     *)
(* destroyed and forgotten, its listener is closed if it listens already.  *)
(***************************************************************************)
GatewayClosed(s) ==
  /\ gw[s] = "closing"
  /\ gw' = [gw EXCEPT ![s] = "closed"]
  /\ up' = [up EXCEPT ![s] = <<>>]
  /\ pub' = Destroyed(owned[s] \cap connections)
  /\ connections' = connections \ owned[s]
  /\ server' = [server EXCEPT ![s] = IF @ = "listening" THEN "closed" ELSE @]
  /\ UNCHANGED <<cl, down, owned, record, flowVars, via, watched,
                 buffered, fed, localVars>>

LocalDestroyed(cs) == [c \in Conn |-> IF c \in cs /\ local[c] = "open" THEN "dead" ELSE local[c]]

\* The close handler of the client: every local connection is closed.
ClientClosed(s) ==
  /\ cl[s] = "closing"
  /\ cl' = [cl EXCEPT ![s] = "closed"]
  /\ down' = [down EXCEPT ![s] = <<>>]
  /\ local' = LocalDestroyed(tcpConnections)
  /\ tcpConnections' = {}
  /\ UNCHANGED <<gw, up, server, bookVars, flowVars, publicVars, answered>>

-----------------------------------------------------------------------------
(***************************************************************************)
(* The public side.                                                        *)
(***************************************************************************)

\* Too many connections from the address, or an address that is not allowed.
Refuse(s, c) ==
  /\ pub[c] = "none" /\ server[s] = "listening"
  /\ pub' = [pub EXCEPT ![c] = "closed"]
  /\ UNCHANGED <<linkVars, frameVars, bookVars, flowVars, via, watched, buffered, fed, localVars>>

(***************************************************************************)
(* A connection is filed in every book, then announced to the client; if   *)
(* the control socket is not open it is destroyed before it has handlers.  *)
(***************************************************************************)
Accept(s, c) ==
  /\ pub[c] = "none" /\ server[s] = "listening"
  /\ via' = [via EXCEPT ![c] = s]
  /\ connections' = connections \cup {c}
  /\ owned' = [owned EXCEPT ![s] = @ \cup {c}]
  /\ record' = [record EXCEPT ![c] = "open"]
  /\ pub' = [pub EXCEPT ![c] = IF gw[s] = "open" THEN "open" ELSE "dead"]
  /\ watched' = IF gw[s] = "open" THEN watched \cup {c} ELSE watched
  /\ down' = Sent(down, gw, s, <<Msg("tcp_open", c)>>)
  /\ UNCHANGED <<linkVars, up, flowVars, buffered, fed, localVars>>

Backlogged(s) == Len(down'[s]) > High

\* mutant of Pauses: paused with no timer that would resume it
PausesMutant(c) ==
  /\ paused' = IF Backlogged(via[c]) THEN paused \cup {c} ELSE paused
  /\ UNCHANGED resumeTimer

\* A client that drains too slowly: the source waits, a timer looks again.
Pauses(c) ==
  /\ paused' = IF Backlogged(via[c]) /\ c \notin resumeTimer
                 THEN paused \cup {c} ELSE paused
  /\ resumeTimer' = IF Backlogged(via[c]) THEN resumeTimer \cup {c} ELSE resumeTimer

\* The data handler of a public connection.
PublicData(c) ==
  LET s == via[c]
  IN  /\ pub[c] = "open" /\ c \notin paused /\ fed[c] < Chunks[c]
      /\ fed' = [fed EXCEPT ![c] = @ + 1]
      /\ down' = Sent(down, gw, s, <<Msg("tcp_data", c)>>)
      /\ IF gw[s] = "open"
           THEN Pauses(c) /\ UNCHANGED pub
           ELSE pub' = Destroyed({c}) /\ UNCHANGED flowVars
      /\ UNCHANGED <<linkVars, up, bookVars, via, watched, buffered, localVars>>

\* The timer of a paused connection, every 25 ms.
ResumeTick(c) ==
  /\ c \in resumeTimer
  /\ \/ /\ gw[via[c]] # "open" \/ pub[c] # "open"
        /\ pub' = Destroyed({c})
        /\ UNCHANGED paused
     \/ /\ gw[via[c]] = "open" /\ pub[c] = "open"
        /\ Len(down[via[c]]) <= Low
        /\ paused' = paused \ {c}
        /\ UNCHANGED pub
  /\ resumeTimer' = resumeTimer \ {c}
  /\ UNCHANGED <<linkVars, frameVars, bookVars, via, watched, buffered, fed, localVars>>

\* What was written reaches the peer.
Flush(c) ==
  /\ pub[c] = "open" /\ buffered[c] > 0
  /\ buffered' = [buffered EXCEPT ![c] = @ - 1]
  /\ UNCHANGED <<linkVars, frameVars, bookVars, flowVars, pub, via, watched, fed, localVars>>

\* The peer ends the connection, or it fails.
PublicEnds(c) ==
  /\ pub[c] = "open"
  /\ pub' = Destroyed({c})
  /\ UNCHANGED <<linkVars, frameVars, bookVars, flowVars, via, watched, buffered, fed, localVars>>

\* mutant of CloseConnection: the client is not told
CloseConnectionMutant(c) ==
  /\ connections' = connections \ {c}
  /\ owned' = [owned EXCEPT ![via[c]] = @ \ {c}]
  /\ record' = [record EXCEPT ![c] = "closed"]
  /\ UNCHANGED down

\* closeConnection of a connection that is still on file.
CloseConnection(c) ==
  /\ connections' = connections \ {c}
  /\ owned' = [owned EXCEPT ![via[c]] = @ \ {c}]
  /\ record' = [record EXCEPT ![c] = "closed"]
  /\ down' = Sent(down, gw, via[c], <<Msg("tcp_close", c)>>)

\* The error or close event, which only a watched connection hears.
PublicClosed(c) ==
  /\ pub[c] = "dead"
  /\ pub' = [pub EXCEPT ![c] = "closed"]
  /\ resumeTimer' = resumeTimer \ {c} /\ paused' = paused \ {c}
  /\ buffered' = [buffered EXCEPT ![c] = 0]
  /\ IF c \in watched \cap connections
       THEN CloseConnection(c)
       ELSE UNCHANGED <<bookVars, down>>
  /\ UNCHANGED <<linkVars, up, via, watched, fed, localVars>>

-----------------------------------------------------------------------------
(***************************************************************************)
(* Frames of the client at the gateway.                                    *)
(***************************************************************************)

OnFile(s, c) == c \in owned[s] \cap connections

\* mutant of GatewayFrame: the connection is destroyed and stays on file
GatewayFrameMutant(s) ==
  LET m == Head(up[s])
      c == m.conn
  IN  /\ gw[s] \in {"open", "closing"} /\ up[s] # <<>>
      /\ up' = [up EXCEPT ![s] = Tail(@)]
      /\ IF m.type = "tcp_close" /\ OnFile(s, c)
           THEN /\ pub' = Destroyed({c})
                /\ owned' = [owned EXCEPT ![s] = @ \ {c}]
                /\ UNCHANGED <<connections, buffered>>
           ELSE /\ buffered' = [buffered EXCEPT ![c] =
                                  IF m.type = "tcp_data" /\ OnFile(s, c) THEN @ + 1 ELSE @]
                /\ UNCHANGED <<pub, connections, owned>>
      /\ UNCHANGED <<linkVars, down, record, flowVars, via, watched, fed,
                     localVars>>

GatewayFrame(s) ==
  LET m == Head(up[s])
      c == m.conn
  IN  /\ gw[s] \in {"open", "closing"} /\ up[s] # <<>>
      /\ up' = [up EXCEPT ![s] = Tail(@)]
      /\ IF m.type = "tcp_close" /\ OnFile(s, c)
           THEN /\ pub' = Destroyed({c})
                /\ connections' = connections \ {c}
                /\ owned' = [owned EXCEPT ![s] = @ \ {c}]
                /\ UNCHANGED buffered
           ELSE /\ buffered' = [buffered EXCEPT ![c] =
                                  IF m.type = "tcp_data" /\ OnFile(s, c) THEN @ + 1 ELSE @]
                /\ UNCHANGED <<pub, connections, owned>>
      /\ UNCHANGED <<linkVars, down, record, flowVars, via, watched, fed,
                     localVars>>

-----------------------------------------------------------------------------
(***************************************************************************)
(* The client.                                                             *)
(***************************************************************************)

\* mutant of Full: one connection more than the limit
FullMutant == Cardinality(tcpConnections) > Limit

Full == Cardinality(tcpConnections) >= Limit

\* openTcpConnection, which a full client answers with tcp_close.
OpenLocal(c) ==
  IF Full
    THEN /\ up' = ClientSends(up, <<Msg("tcp_close", c)>>)
         /\ UNCHANGED <<local, tcpConnections>>
    ELSE /\ local' = [local EXCEPT ![c] = "open"]
         /\ tcpConnections' = tcpConnections \cup {c}
         /\ UNCHANGED up

\* A frame of the gateway; tcp_data is written to the local service.
ClientFrame(s) ==
  LET m == Head(down[s])
  IN  /\ s \in Current /\ down[s] # <<>>
      /\ down' = [down EXCEPT ![s] = Tail(@)]
      /\ \/ m.type = "tcp_open" /\ OpenLocal(m.conn)
         \/ m.type = "tcp_data" /\ UNCHANGED <<up, local, tcpConnections>>
         \/ /\ m.type = "tcp_close"
            /\ local' = LocalDestroyed({m.conn} \cap tcpConnections)
            /\ tcpConnections' = tcpConnections \ {m.conn}
            /\ UNCHANGED up
      /\ UNCHANGED <<linkVars, bookVars, flowVars, publicVars, answered>>

LocalData(c) ==
  /\ local[c] = "open" /\ answered[c] < Chunks[c]
  /\ answered' = [answered EXCEPT ![c] = @ + 1]
  /\ up' = ClientSends(up, <<Msg("tcp_data", c)>>)
  /\ UNCHANGED <<linkVars, down, bookVars, flowVars, publicVars, local, tcpConnections>>

\* The local service ends the connection.
LocalEnds(c) ==
  /\ local[c] = "open"
  /\ local' = LocalDestroyed({c})
  /\ UNCHANGED <<linkVars, frameVars, bookVars, flowVars, publicVars, tcpConnections, answered>>

\* It fails, or is refused: the error handler tells the gateway.
LocalFails(c) ==
  /\ local[c] = "open"
  /\ local' = LocalDestroyed({c})
  /\ tcpConnections' = tcpConnections \ {c}
  /\ up' = ClientSends(up, <<Msg("tcp_close", c)>>)
  /\ UNCHANGED <<linkVars, down, bookVars, flowVars, publicVars, answered>>

\* The close handler tells the gateway, unless the connection is forgotten.
LocalClosed(c) ==
  /\ local[c] = "dead"
  /\ local' = [local EXCEPT ![c] = "closed"]
  /\ tcpConnections' = tcpConnections \ {c}
  /\ up' = IF c \in tcpConnections THEN ClientSends(up, <<Msg("tcp_close", c)>>) ELSE up
  /\ UNCHANGED <<linkVars, down, bookVars, flowVars, publicVars, answered>>

-----------------------------------------------------------------------------
\* What the event loop of the gateway does of itself.  A heartbeat that
\* stays out shows it, in time, that the client has gone.
GatewayStep ==
  \/ \E s \in Socket : \/ GatewayClosed(s) \/ GatewayFrame(s)
                       \/ GatewayDown(s) /\ cl[s] # "open"
  \/ \E c \in Conn : ResumeTick(c) \/ PublicClosed(c)

ClientStep ==
  \/ \E s \in Socket : \/ ClientClosed(s) \/ ClientFrame(s)
                       \/ ClientDown(s) /\ gw[s] # "open"
  \/ \E c \in Conn : LocalClosed(c)

Next ==
  \/ GatewayStep
  \/ ClientStep
  \/ \E s \in Socket : \/ Register(s) \/ Listening(s)
                       \/ GatewayDown(s) \/ ClientDown(s)
                       \/ \E c \in Conn : Accept(s, c) \/ Refuse(s, c)
  \/ \E c \in Conn : \/ PublicData(c) \/ Flush(c) \/ PublicEnds(c)
                     \/ LocalData(c) \/ LocalEnds(c) \/ LocalFails(c)

Spec == Init /\ [][Next]_vars

\* Both event loops run; no peer, link or service has to do anything.
FairSpec == Spec /\ WF_vars(GatewayStep) /\ WF_vars(ClientStep)

-----------------------------------------------------------------------------
TypeOK ==
  /\ gw \in [Socket -> Side] /\ cl \in [Socket -> Side]
  /\ down \in [Socket -> Seq(Frame)] /\ up \in [Socket -> Seq(Frame)]
  /\ server \in [Socket -> {"none", "binding", "listening", "closed"}]
  /\ pub \in [Conn -> {"none", "open", "dead", "closed"}]
  /\ via \in [Conn -> Socket \cup {None}]
  /\ connections \subseteq Conn /\ watched \subseteq Conn
  /\ owned \in [Socket -> SUBSET Conn]
  /\ record \in [Conn -> {"none", "open", "closed"}]
  /\ paused \subseteq Conn /\ resumeTimer \subseteq Conn
  /\ \A c \in Conn : /\ fed[c] \in 0..Chunks[c] /\ answered[c] \in 0..Chunks[c]
                     /\ buffered[c] \in 0..answered[c]
  /\ local \in [Conn -> {"none", "open", "dead", "closed"}]
  /\ tcpConnections \subseteq Conn

(***************************************************************************)
(* The two maps of connections agree about every connection of a socket    *)
(* whose close handler has not run, and hold none that has ended -- but    *)
(* for those a listener took for a socket that was not open any more,      *)
(* which get no handler that could forget them.                            *)
(***************************************************************************)
ConnectionBooks ==
  /\ \A s \in Socket : gw[s] # "closed" => owned[s] \subseteq connections
  /\ \A c \in connections : c \in owned[via[c]]
  /\ \A c \in connections \cap watched : pub[c] # "closed" /\ gw[via[c]] # "closed"

(***************************************************************************)
(* A client never has more connections to its local service than its       *)
(* limit, counting those the local service is still closing, and it knows  *)
(* every open one, so that a close of its link reaches all of them.        *)
(***************************************************************************)
ClientWithinLimit ==
  /\ Cardinality(tcpConnections) <= Limit
  /\ \A c \in Conn : local[c] = "open" => c \in tcpConnections
  /\ tcpConnections # {} => Current # {}

(***************************************************************************)
(* Back-pressure never stalls a connection: one that was paused for a slow *)
(* client flows again, or ends.                                            *)
(***************************************************************************)
PauseEnds ==
  \A c \in Conn : c \in paused ~> c \notin paused

\* A frame that opens c at the client is on its way to it.
Announced(c) ==
  \E s \in Current : \E i \in DOMAIN down[s] : down[s][i] = Msg("tcp_open", c)

(***************************************************************************)
(* The two halves of a connection end together: when the public half has   *)
(* ended no local half is left open or about to be opened, and when the    *)
(* local half has ended so does the public half, whichever side or link    *)
(* failed first.                                                           *)
(***************************************************************************)
HalvesEndTogether ==
  \A c \in Conn :
    /\ pub[c] = "closed" ~> local[c] # "open" /\ ~ Announced(c)
    /\ local[c] = "closed" ~> pub[c] = "closed"

-----------------------------------------------------------------------------
(***************************************************************************)
(* What the documents say, and the code does not do.                       *)
(***************************************************************************)

(***************************************************************************)
(* "TCP mode forwards raw bytes end-to-end" (FEATURES_SECURITY.md:124): a  *)
(* connection whose local service answered and then closed it is not       *)
(* destroyed by the gateway with a part of the answer still unwritten.     *)
(***************************************************************************)
BytesEndToEnd ==
  [][\A c \in Conn :
       pub[c] = "open" /\ pub'[c] = "dead" /\ local[c] = "closed"
       /\ gw[via[c]] = "open" /\ c \notin connections'
       => buffered[c] = 0]_vars

(***************************************************************************)
(* The inspector reports "remote IP, bytes in/out, duration, status" of    *)
(* each connection (server.ts:4867-4869): the record of a connection that  *)
(* has ended says so, as long as the tunnel lives.                         *)
(***************************************************************************)
RecordSaysClosed ==
  \A c \in Conn :
    via[c] # None /\ gw[via[c]] = "open" /\ pub[c] = "closed" => record[c] = "closed"
=============================================================================
