---------------------------- MODULE TcpRelay_proofs ----------------------------
(***************************************************************************)
(* The gateway's two maps of public connections agree, and the client      *)
(* keeps within its limit and knows every local connection it has open,    *)
(* for any number of sockets and connections, any limit and any marks.     *)
(*                                                                         *)
(* What TLC checks of the maps is not inductive: that a socket's close     *)
(* forgets the connections of no other socket rests on each connection     *)
(* being owned by the one it came by (OwnedByItsSocket), and that a        *)
(* registration finds no old connections on each socket being used once    *)
(* (UsedOnce).                                                             *)
(***************************************************************************)
EXTENDS TcpRelay, SequenceTheorems, FiniteSetTheorems, TLAPS

\* The types of the state.  TypeOK also bounds what is buffered by what was
\* answered, which counts the frames of a queue and is left to TLC.
Typing ==
  /\ gw \in [Socket -> Side] /\ cl \in [Socket -> Side]
  /\ down \in [Socket -> Seq(Frame)] /\ up \in [Socket -> Seq(Frame)]
  /\ server \in [Socket -> {"none", "binding", "listening", "closed"}]
  /\ pub \in [Conn -> {"none", "open", "dead", "closed"}]
  /\ via \in [Conn -> Socket \cup {None}]
  /\ connections \subseteq Conn /\ watched \subseteq Conn
  /\ owned \in [Socket -> SUBSET Conn]
  /\ local \in [Conn -> {"none", "open", "dead", "closed"}]
  /\ tcpConnections \subseteq Conn

\* A control socket that the client has not used the gateway has not either.
UsedOnce == \A s \in Socket : cl[s] = "none" <=> gw[s] = "none"

\* A connection is owned by the socket it came by, once it has come.
OwnedByItsSocket ==
  /\ \A s \in Socket : \A c \in owned[s] : via[c] = s
  /\ \A c \in Conn : pub[c] = "none" =>
       /\ c \notin connections /\ c \notin watched
       /\ \A s \in Socket : c \notin owned[s]
  /\ \A c \in connections : via[c] # None

\* The books of the gateway, and those of the client.
GatewayInv == OwnedByItsSocket /\ ConnectionBooks
ClientInv  == IsFiniteSet(tcpConnections) /\ ClientWithinLimit

Inv == Typing /\ UsedOnce /\ GatewayInv /\ ClientInv

-----------------------------------------------------------------------------
(***************************************************************************)
(* Frames.                                                                 *)
(***************************************************************************)

\* A frame is put at the end of a queue, or is lost.
LEMMA SentType ==
  ASSUME NEW queue \in [Socket -> Seq(Frame)], NEW side, NEW s \in Socket,
         NEW type \in {"tcp_open", "tcp_data", "tcp_close"}, NEW c \in Conn
  PROVE  Sent(queue, side, s, <<Msg(type, c)>>) \in [Socket -> Seq(Frame)]
<1>1. Msg(type, c) \in Frame
  BY DEF Msg, Frame
<1>2. <<Msg(type, c)>> \in Seq(Frame)
  BY <1>1
<1> DEFINE longer == queue[s] \o <<Msg(type, c)>>
<1>3. longer \in Seq(Frame)
  BY <1>2, ConcatProperties
<1>4. \/ Sent(queue, side, s, <<Msg(type, c)>>) = queue
      \/ Sent(queue, side, s, <<Msg(type, c)>>) = [queue EXCEPT ![s] = longer]
  BY DEF Sent
<1> HIDE DEF longer
<1>5. [queue EXCEPT ![s] = longer] \in [Socket -> Seq(Frame)]
  BY <1>3
<1> QED
  BY <1>4, <1>5

\* So it is with what the client sends on the socket it has.
LEMMA ClientSendsType ==
  ASSUME NEW queue \in [Socket -> Seq(Frame)],
         NEW type \in {"tcp_open", "tcp_data", "tcp_close"}, NEW c \in Conn
  PROVE  ClientSends(queue, <<Msg(type, c)>>) \in [Socket -> Seq(Frame)]
<1> DEFINE frames == <<Msg(type, c)>>
<1>1. ASSUME NEW s \in Socket PROVE Sent(queue, cl, s, frames) \in [Socket -> Seq(Frame)]
  BY SentType
<1> HIDE DEF frames
<1>2. \A s \in Socket : Sent(queue, cl, s, frames)[s] \in Seq(Frame)
  BY <1>1
<1>3. ClientSends(queue, frames) \in [Socket -> Seq(Frame)]
  BY <1>2 DEF ClientSends
<1> QED
  BY <1>3 DEF frames

\* The frame that is taken from a queue, and what is left of it.
LEMMA HeadType ==
  ASSUME NEW queue \in [Socket -> Seq(Frame)], NEW s \in Socket, queue[s] # <<>>
  PROVE  /\ Head(queue[s]).conn \in Conn
         /\ [queue EXCEPT ![s] = Tail(@)] \in [Socket -> Seq(Frame)]
<1>1. Head(queue[s]) \in Frame /\ Tail(queue[s]) \in Seq(Frame)
  BY HeadTailProperties
<1> QED
  BY <1>1 DEF Frame

-----------------------------------------------------------------------------
(***************************************************************************)
(* Steps that leave one of the sides alone.                                *)
(***************************************************************************)

gatewayBooks == <<gw, pub, via, connections, watched, owned>>
clientBooks  == <<cl, local, tcpConnections>>

\* A step that changes nothing of the gateway's books keeps them right.
LEMMA GatewayStutter ==
  ASSUME GatewayInv, UNCHANGED gatewayBooks
  PROVE  GatewayInv'
  BY DEF GatewayInv, gatewayBooks, OwnedByItsSocket, ConnectionBooks

\* A step that changes nothing of the client's books keeps them right.
LEMMA ClientStutter ==
  ASSUME ClientInv, UNCHANGED clientBooks
  PROVE  ClientInv'
  BY DEF ClientInv, clientBooks, ClientWithinLimit, Current

\* A peer's end, or the gateway's own, makes an open connection a dead one.
LEMMA DestroyedInv ==
  ASSUME Typing, GatewayInv, NEW cs, pub' = Destroyed(cs),
         UNCHANGED <<gw, via, connections, watched, owned>>
  PROVE  /\ pub' \in [Conn -> {"none", "open", "dead", "closed"}]
         /\ GatewayInv'
<1>1. /\ pub' \in [Conn -> {"none", "open", "dead", "closed"}]
      /\ \A c \in Conn : /\ pub'[c] = "none" <=> pub[c] = "none"
                         /\ pub'[c] = "closed" <=> pub[c] = "closed"
  BY DEF Destroyed, Typing
<1>2. OwnedByItsSocket'
  BY <1>1 DEF Typing, GatewayInv, OwnedByItsSocket
<1>3. ConnectionBooks'
  BY <1>1 DEF Typing, GatewayInv, ConnectionBooks
<1> QED
  BY <1>1, <1>2, <1>3 DEF GatewayInv

\* A local connection that ends leaves the books of the client right, whether
\* it is still in the map or not.
LEMMA LocalDestroyedInv ==
  ASSUME Typing, ClientInv, NEW cs, local' = LocalDestroyed(cs), UNCHANGED cl,
         \/ UNCHANGED tcpConnections
         \/ \E c \in Conn : /\ tcpConnections' = tcpConnections \ {c}
                            /\ local[c] = "open" => c \in cs
  PROVE  /\ local' \in [Conn -> {"none", "open", "dead", "closed"}]
         /\ tcpConnections' \subseteq Conn
         /\ ClientInv'
<1>1. /\ local' \in [Conn -> {"none", "open", "dead", "closed"}]
      /\ \A c \in Conn : local'[c] = "open" <=> local[c] = "open" /\ c \notin cs
  BY DEF LocalDestroyed, Typing
<1>2. tcpConnections' \subseteq tcpConnections /\ UNCHANGED Current
  BY DEF Current
<1>3. /\ IsFiniteSet(tcpConnections')
      /\ Cardinality(tcpConnections') <= Cardinality(tcpConnections)
      /\ Cardinality(tcpConnections') \in Nat /\ Cardinality(tcpConnections) \in Nat
  BY <1>2, FS_Subset, FS_CardinalityType DEF ClientInv
<1>4. Cardinality(tcpConnections') <= Limit
  BY <1>3, RelayAssumption DEF ClientInv, ClientWithinLimit
<1>5. \A c \in Conn : local'[c] = "open" => c \in tcpConnections'
  BY <1>1 DEF ClientInv, ClientWithinLimit
<1>6. tcpConnections' # {} => Current' # {}
  BY <1>2 DEF ClientInv, ClientWithinLimit
<1> QED
  BY <1>1, <1>2, <1>3, <1>4, <1>5, <1>6 DEF ClientInv, ClientWithinLimit, Typing

-----------------------------------------------------------------------------
\* No socket and no connection.
LEMMA InitInv == Init => Inv
<1> SUFFICES ASSUME Init PROVE Inv
  OBVIOUS
<1>1. Typing
  <2>1. <<>> \in Seq(Frame)
    BY EmptySeq
  <2> QED
    BY <2>1 DEF Init, Typing, Side
<1>2. UsedOnce /\ GatewayInv
  BY DEF Init, UsedOnce, GatewayInv, OwnedByItsSocket, ConnectionBooks
<1>3. ClientInv
  BY FS_EmptySet, RelayAssumption DEF Init, ClientInv, ClientWithinLimit
<1> QED
  BY <1>1, <1>2, <1>3 DEF Inv

-----------------------------------------------------------------------------
(***************************************************************************)
(* The control link.                                                       *)
(***************************************************************************)

\* A new socket owns nothing, and its client has no connections left.
LEMMA RegisterInv ==
  ASSUME Inv, NEW s \in Socket, Register(s)
  PROVE  Inv'
<1>1. /\ Current = {} /\ cl[s] = "none" /\ gw[s] = "none"
      /\ gw' = [gw EXCEPT ![s] = "open"] /\ cl' = [cl EXCEPT ![s] = "open"]
      /\ server' = [server EXCEPT ![s] = "binding"]
      /\ UNCHANGED <<down, up, connections, owned, pub, via, watched, local, tcpConnections>>
  BY DEF Register, frameVars, bookVars, publicVars, localVars, Inv, UsedOnce
<1>2. Typing'
  BY <1>1 DEF Inv, Typing, Side
<1>3. UsedOnce'
  BY <1>1 DEF Inv, Typing, UsedOnce
<1>4. OwnedByItsSocket'
  BY <1>1 DEF Inv, GatewayInv, OwnedByItsSocket
<1>5. ConnectionBooks'
  BY <1>1 DEF Inv, GatewayInv, ConnectionBooks, Typing, OwnedByItsSocket
<1>6. ClientInv'
  BY <1>1 DEF Inv, ClientInv, ClientWithinLimit
<1> QED
  BY <1>2, <1>3, <1>4, <1>5, <1>6 DEF Inv, GatewayInv

\* listen() answers: no book changes.
LEMMA ListeningInv ==
  ASSUME Inv, NEW s \in Socket, Listening(s)
  PROVE  Inv'
<1>1. /\ server' = [server EXCEPT ![s] = "listening"]
      /\ UNCHANGED <<gw, cl, down, up, connections, owned, pub, via, watched, local,
                     tcpConnections>>
  BY DEF Listening, frameVars, bookVars, publicVars, localVars
<1>2. Typing' /\ UsedOnce'
  BY <1>1 DEF Inv, Typing, UsedOnce
<1> QED
  BY <1>1, <1>2, GatewayStutter, ClientStutter DEF Inv, gatewayBooks, clientBooks

\* The gateway's end goes down: its close handler has still to run.
LEMMA GatewayDownInv ==
  ASSUME Inv, NEW s \in Socket, GatewayDown(s)
  PROVE  Inv'
<1>1. /\ gw[s] = "open" /\ gw' = [gw EXCEPT ![s] = "closing"]
      /\ UNCHANGED <<cl, server, down, up, connections, owned, pub, via, watched, local,
                     tcpConnections>>
  BY DEF GatewayDown, frameVars, bookVars, publicVars, localVars
<1>2. Typing' /\ UsedOnce'
  BY <1>1 DEF Inv, Typing, UsedOnce, Side
<1>3. GatewayInv'
  BY <1>1 DEF Inv, GatewayInv, Typing, OwnedByItsSocket, ConnectionBooks
<1> QED
  BY <1>1, <1>2, <1>3, ClientStutter DEF Inv, clientBooks

\* The client's end goes down: it is the client's socket until its close handler runs.
LEMMA ClientDownInv ==
  ASSUME Inv, NEW s \in Socket, ClientDown(s)
  PROVE  Inv'
<1>1. /\ cl[s] = "open" /\ cl' = [cl EXCEPT ![s] = "closing"]
      /\ UNCHANGED <<gw, server, down, up, connections, owned, pub, via, watched, local,
                     tcpConnections>>
  BY DEF ClientDown, frameVars, bookVars, publicVars, localVars
<1>2. Typing' /\ UsedOnce'
  BY <1>1 DEF Inv, Typing, UsedOnce, Side
<1>3. ClientInv'
  <2>1. Current \subseteq Current'
    BY <1>1 DEF Inv, Typing, Current
  <2> QED
    BY <1>1, <2>1 DEF Inv, ClientInv, ClientWithinLimit
<1> QED
  BY <1>1, <1>2, <1>3, GatewayStutter DEF Inv, gatewayBooks

\* The close handler of the gateway forgets the connections of its own socket.
LEMMA GatewayClosedInv ==
  ASSUME Inv, NEW s \in Socket, GatewayClosed(s)
  PROVE  Inv'
<1>1. /\ gw[s] = "closing" /\ gw' = [gw EXCEPT ![s] = "closed"]
      /\ up' = [up EXCEPT ![s] = <<>>]
      /\ pub' = Destroyed(owned[s] \cap connections)
      /\ connections' = connections \ owned[s]
      /\ server' = [server EXCEPT ![s] = IF @ = "listening" THEN "closed" ELSE @]
      /\ UNCHANGED <<cl, down, owned, via, watched, local, tcpConnections>>
  BY DEF GatewayClosed, localVars
<1>2. /\ pub' \in [Conn -> {"none", "open", "dead", "closed"}]
      /\ \A c \in Conn : /\ pub'[c] = "none" <=> pub[c] = "none"
                         /\ pub'[c] = "closed" <=> pub[c] = "closed"
  BY <1>1 DEF Destroyed, Inv, Typing
<1>3. <<>> \in Seq(Frame)
  BY EmptySeq
<1>4. Typing'
  BY <1>1, <1>2, <1>3 DEF Inv, Typing, Side
<1>5. UsedOnce'
  BY <1>1 DEF Inv, Typing, UsedOnce
<1>6. OwnedByItsSocket'
  BY <1>1, <1>2 DEF Inv, Typing, GatewayInv, OwnedByItsSocket
<1>7. ConnectionBooks'
  <2>1. ASSUME NEW z \in Socket, gw'[z] # "closed" PROVE owned'[z] \subseteq connections'
    BY <1>1, <2>1 DEF Inv, Typing, GatewayInv, OwnedByItsSocket, ConnectionBooks
  <2>2. ASSUME NEW c \in connections'
        PROVE  c \in owned'[via'[c]] /\ via[c] # s /\ via[c] \in Socket /\ c \in Conn
    BY <1>1 DEF Inv, Typing, GatewayInv, OwnedByItsSocket, ConnectionBooks
  <2>3. ASSUME NEW c \in connections' \cap watched'
        PROVE  pub'[c] # "closed" /\ gw'[via'[c]] # "closed"
    BY <1>1, <1>2, <2>2 DEF Inv, Typing, GatewayInv, ConnectionBooks
  <2> QED
    BY <2>1, <2>2, <2>3 DEF ConnectionBooks
<1> QED
  BY <1>1, <1>4, <1>5, <1>6, <1>7, ClientStutter DEF Inv, GatewayInv, clientBooks

\* The close handler of the client closes every connection the client has open.
LEMMA ClientClosedInv ==
  ASSUME Inv, NEW s \in Socket, ClientClosed(s)
  PROVE  Inv'
<1>1. /\ cl[s] = "closing" /\ cl' = [cl EXCEPT ![s] = "closed"]
      /\ down' = [down EXCEPT ![s] = <<>>]
      /\ local' = LocalDestroyed(tcpConnections) /\ tcpConnections' = {}
      /\ UNCHANGED <<gw, up, server, connections, owned, pub, via, watched>>
  BY DEF ClientClosed, bookVars, publicVars
<1>2. /\ local' \in [Conn -> {"none", "open", "dead", "closed"}]
      /\ \A c \in Conn : local'[c] # "open"
  BY <1>1 DEF LocalDestroyed, Inv, Typing, ClientInv, ClientWithinLimit
<1>3. <<>> \in Seq(Frame)
  BY EmptySeq
<1>4. Typing'
  BY <1>1, <1>2, <1>3 DEF Inv, Typing, Side
<1>5. UsedOnce'
  BY <1>1 DEF Inv, Typing, UsedOnce
<1>6. ClientInv'
  BY <1>1, <1>2, FS_EmptySet, RelayAssumption DEF ClientInv, ClientWithinLimit
<1> QED
  BY <1>1, <1>4, <1>5, <1>6, GatewayStutter DEF Inv, gatewayBooks

-----------------------------------------------------------------------------
(***************************************************************************)
(* The public side.                                                        *)
(***************************************************************************)

\* A refused connection is in no book.
LEMMA RefuseInv ==
  ASSUME Inv, NEW s \in Socket, NEW c \in Conn, Refuse(s, c)
  PROVE  Inv'
<1>1. /\ pub[c] = "none" /\ pub' = [pub EXCEPT ![c] = "closed"]
      /\ UNCHANGED <<gw, cl, server, down, up, connections, owned, via, watched, local,
                     tcpConnections>>
  BY DEF Refuse, linkVars, frameVars, bookVars, localVars
<1>2. Typing' /\ UsedOnce'
  BY <1>1 DEF Inv, Typing, UsedOnce
<1>3. GatewayInv'
  BY <1>1 DEF Inv, Typing, GatewayInv, OwnedByItsSocket, ConnectionBooks
<1> QED
  BY <1>1, <1>2, <1>3, ClientStutter DEF Inv, clientBooks

\* An accepted connection is filed in both maps, whatever the socket's state;
\* it gets its handlers only if the socket is open.
LEMMA AcceptInv ==
  ASSUME Inv, NEW s \in Socket, NEW c \in Conn, Accept(s, c)
  PROVE  Inv'
<1>1. /\ pub[c] = "none"
      /\ via' = [via EXCEPT ![c] = s]
      /\ connections' = connections \cup {c}
      /\ owned' = [owned EXCEPT ![s] = @ \cup {c}]
      /\ pub' = [pub EXCEPT ![c] = IF gw[s] = "open" THEN "open" ELSE "dead"]
      /\ watched' = IF gw[s] = "open" THEN watched \cup {c} ELSE watched
      /\ down' = Sent(down, gw, s, <<Msg("tcp_open", c)>>)
      /\ UNCHANGED <<gw, cl, server, up, local, tcpConnections>>
  BY DEF Accept, linkVars, localVars
<1>2. /\ c \notin connections /\ c \notin watched
      /\ \A z \in Socket : c \notin owned[z]
  BY <1>1 DEF Inv, GatewayInv, OwnedByItsSocket
<1>3. Typing' /\ UsedOnce'
  <2>1. down' \in [Socket -> Seq(Frame)]
    BY <1>1, SentType DEF Inv, Typing
  <2> QED
    BY <1>1, <2>1 DEF Inv, Typing, UsedOnce
<1>4. OwnedByItsSocket'
  BY <1>1, <1>2, RelayAssumption DEF Inv, Typing, GatewayInv, OwnedByItsSocket
<1>5. ConnectionBooks'
  <2>1. \A z \in Socket : gw'[z] # "closed" => owned'[z] \subseteq connections'
    BY <1>1 DEF Inv, Typing, GatewayInv, ConnectionBooks
  <2>2. \A d \in connections : via[d] \in Socket /\ d # c /\ via'[d] = via[d] /\ d \in Conn
    BY <1>1, <1>2 DEF Inv, Typing, GatewayInv, OwnedByItsSocket
  <2>3. \A d \in connections' : d \in owned'[via'[d]]
    BY <1>1, <2>2 DEF Inv, Typing, GatewayInv, ConnectionBooks
  <2>4. \A d \in connections' \cap watched' : pub'[d] # "closed" /\ gw'[via'[d]] # "closed"
    <3>1. ASSUME NEW d \in connections \cap watched
          PROVE  pub'[d] # "closed" /\ gw'[via'[d]] # "closed"
      BY <1>1, <2>2 DEF Inv, Typing, GatewayInv, ConnectionBooks
    <3>2. c \in watched' => pub'[c] = "open" /\ gw'[via'[c]] = "open"
      BY <1>1, <1>2 DEF Inv, Typing
    <3> QED
      BY <1>1, <3>1, <3>2
  <2> QED
    BY <2>1, <2>3, <2>4 DEF ConnectionBooks
<1> QED
  BY <1>1, <1>3, <1>4, <1>5, ClientStutter DEF Inv, GatewayInv, clientBooks

\* Data of a peer changes no book but the connection's own end.
LEMMA PublicDataInv ==
  ASSUME Inv, NEW c \in Conn, PublicData(c)
  PROVE  Inv'
<1> DEFINE s == via[c]
<1>1. /\ pub[c] = "open"
      /\ down' = Sent(down, gw, s, <<Msg("tcp_data", c)>>)
      /\ UNCHANGED <<gw, cl, server, up, connections, owned, via, watched, local, tcpConnections>>
      /\ UNCHANGED pub \/ pub' = Destroyed({c})
  BY DEF PublicData, linkVars, bookVars, localVars
<1>2. down' \in [Socket -> Seq(Frame)]
  <2>1. CASE s \in Socket
    BY <1>1, <2>1, SentType DEF Inv, Typing
  <2>2. CASE s \notin Socket
    <3>1. \A f : [down EXCEPT ![s] = f] = down
      BY <2>2 DEF Inv, Typing
    <3> QED
      BY <1>1, <3>1 DEF Inv, Typing, Sent
  <2> QED
    BY <2>1, <2>2
<1>3. pub' \in [Conn -> {"none", "open", "dead", "closed"}] /\ GatewayInv'
  <2>1. CASE UNCHANGED pub
    BY <1>1, <2>1, GatewayStutter DEF Inv, Typing, gatewayBooks
  <2>2. CASE pub' = Destroyed({c})
    BY <1>1, <2>2, DestroyedInv DEF Inv
  <2> QED
    BY <1>1, <2>1, <2>2
<1>4. Typing' /\ UsedOnce'
  BY <1>1, <1>2, <1>3 DEF Inv, Typing, UsedOnce
<1> QED
  BY <1>1, <1>3, <1>4, ClientStutter DEF Inv, clientBooks

\* The timer of a paused connection, a flush, and the peer's end.
LEMMA PublicQuietInv ==
  ASSUME Inv, NEW c \in Conn, ResumeTick(c) \/ Flush(c) \/ PublicEnds(c)
  PROVE  Inv'
<1>1. /\ UNCHANGED <<gw, cl, server, down, up, connections, owned, via, watched, local,
                     tcpConnections>>
      /\ UNCHANGED pub \/ pub' = Destroyed({c})
  BY DEF ResumeTick, Flush, PublicEnds, linkVars, frameVars, bookVars, localVars
<1>2. pub' \in [Conn -> {"none", "open", "dead", "closed"}] /\ GatewayInv'
  <2>1. CASE UNCHANGED pub
    BY <1>1, <2>1, GatewayStutter DEF Inv, Typing, gatewayBooks
  <2>2. CASE pub' = Destroyed({c})
    BY <1>1, <2>2, DestroyedInv DEF Inv
  <2> QED
    BY <1>1, <2>1, <2>2
<1>3. Typing' /\ UsedOnce'
  BY <1>1, <1>2 DEF Inv, Typing, UsedOnce
<1> QED
  BY <1>1, <1>2, <1>3, ClientStutter DEF Inv, clientBooks

\* A connection that has ended leaves both maps, and its own socket's only.
LEMMA PublicClosedInv ==
  ASSUME Inv, NEW c \in Conn, PublicClosed(c)
  PROVE  Inv'
<1>1. /\ pub[c] = "dead" /\ pub' = [pub EXCEPT ![c] = "closed"]
      /\ UNCHANGED <<gw, cl, server, up, via, watched, local, tcpConnections>>
      /\ IF c \in watched \cap connections
           THEN CloseConnection(c)
           ELSE UNCHANGED <<connections, owned, down>>
  BY DEF PublicClosed, linkVars, localVars, bookVars
<1>2. CASE c \notin watched \cap connections
  <2>1. UNCHANGED <<connections, owned, down>>
    BY <1>1, <1>2
  <2>2. Typing' /\ UsedOnce'
    BY <1>1, <2>1 DEF Inv, Typing, UsedOnce
  <2>3. OwnedByItsSocket'
    BY <1>1, <2>1 DEF Inv, Typing, GatewayInv, OwnedByItsSocket
  <2>4. ConnectionBooks'
    BY <1>1, <1>2, <2>1 DEF Inv, Typing, GatewayInv, ConnectionBooks
  <2> QED
    BY <1>1, <2>2, <2>3, <2>4, ClientStutter DEF Inv, GatewayInv, clientBooks
<1>3. CASE c \in watched \cap connections
  <2> DEFINE s == via[c]
  <2>1. /\ connections' = connections \ {c}
        /\ owned' = [owned EXCEPT ![s] = @ \ {c}]
        /\ down' = Sent(down, gw, s, <<Msg("tcp_close", c)>>)
    BY <1>1, <1>3 DEF CloseConnection
  <2>2. s \in Socket
    BY <1>3 DEF Inv, Typing, GatewayInv, OwnedByItsSocket
  <2>3. \A z \in Socket : owned'[z] = owned[z] \ {c}
    BY <2>1, <2>2 DEF Inv, Typing, GatewayInv, OwnedByItsSocket
  <2>4. Typing' /\ UsedOnce'
    <3>1. down' \in [Socket -> Seq(Frame)]
      BY <2>1, <2>2, SentType DEF Inv, Typing
    <3> QED
      BY <1>1, <2>1, <3>1 DEF Inv, Typing, UsedOnce
  <2> HIDE DEF s
  <2>5. OwnedByItsSocket'
    BY <1>1, <2>1, <2>3 DEF Inv, Typing, GatewayInv, OwnedByItsSocket
  <2>6. ConnectionBooks'
    BY <1>1, <2>1, <2>3 DEF Inv, Typing, GatewayInv, OwnedByItsSocket, ConnectionBooks
  <2> QED
    BY <1>1, <2>4, <2>5, <2>6, ClientStutter DEF Inv, GatewayInv, clientBooks
<1> QED
  BY <1>2, <1>3

\* A tcp_close of the client: the connection leaves both maps and is destroyed.
LEMMA GatewayFrameInv ==
  ASSUME Inv, NEW s \in Socket, GatewayFrame(s)
  PROVE  Inv'
<1> DEFINE c == Head(up[s]).conn
<1>1. /\ up[s] # <<>> /\ up' = [up EXCEPT ![s] = Tail(@)]
      /\ \/ /\ OnFile(s, c) /\ pub' = Destroyed({c})
            /\ connections' = connections \ {c}
            /\ owned' = [owned EXCEPT ![s] = @ \ {c}]
         \/ UNCHANGED <<pub, connections, owned>>
      /\ UNCHANGED <<gw, cl, server, down, via, watched, local, tcpConnections>>
  BY DEF GatewayFrame, linkVars, localVars
<1>2. c \in Conn /\ up' \in [Socket -> Seq(Frame)]
  BY <1>1, HeadType DEF Inv, Typing
<1> HIDE DEF c
<1>3. CASE UNCHANGED <<pub, connections, owned>>
  <2>1. Typing' /\ UsedOnce'
    BY <1>1, <1>2, <1>3 DEF Inv, Typing, UsedOnce
  <2> QED
    BY <1>1, <1>3, <2>1, GatewayStutter, ClientStutter DEF Inv, gatewayBooks, clientBooks
<1>4. CASE /\ OnFile(s, c) /\ pub' = Destroyed({c})
           /\ connections' = connections \ {c}
           /\ owned' = [owned EXCEPT ![s] = @ \ {c}]
  <2>1. /\ pub' \in [Conn -> {"none", "open", "dead", "closed"}]
        /\ \A d \in Conn : /\ pub'[d] = "none" <=> pub[d] = "none"
                           /\ pub'[d] = "closed" <=> pub[d] = "closed"
    BY <1>4 DEF Destroyed, Inv, Typing
  <2>2. \A z \in Socket : owned'[z] = owned[z] \ {c}
    BY <1>4 DEF Inv, Typing, GatewayInv, OwnedByItsSocket, OnFile
  <2>3. Typing' /\ UsedOnce'
    BY <1>1, <1>2, <1>4, <2>1 DEF Inv, Typing, UsedOnce
  <2>4. OwnedByItsSocket'
    BY <1>1, <1>4, <2>1, <2>2 DEF Inv, Typing, GatewayInv, OwnedByItsSocket
  <2>5. ConnectionBooks'
    <3>1. \A z \in Socket : gw'[z] # "closed" => owned'[z] \subseteq connections'
      BY <1>1, <1>4, <2>2 DEF Inv, GatewayInv, ConnectionBooks
    <3>2. \A d \in connections' : d \in owned'[via'[d]]
      BY <1>1, <1>4, <2>2 DEF Inv, Typing, GatewayInv, OwnedByItsSocket, ConnectionBooks
    <3>3. \A d \in connections' \cap watched' : pub'[d] # "closed" /\ gw'[via'[d]] # "closed"
      BY <1>1, <1>4, <2>1 DEF Inv, Typing, GatewayInv, ConnectionBooks
    <3> QED
      BY <3>1, <3>2, <3>3 DEF ConnectionBooks
  <2> QED
    BY <1>1, <2>3, <2>4, <2>5, ClientStutter DEF Inv, GatewayInv, clientBooks
<1> QED
  BY <1>1, <1>3, <1>4

-----------------------------------------------------------------------------
(***************************************************************************)
(* The client.                                                             *)
(***************************************************************************)

\* A client that is not full has room for one connection more.
LEMMA OpenLocalInv ==
  ASSUME Inv, NEW c \in Conn, OpenLocal(c), Current # {}, UNCHANGED cl
  PROVE  /\ up' \in [Socket -> Seq(Frame)]
         /\ local' \in [Conn -> {"none", "open", "dead", "closed"}]
         /\ tcpConnections' \subseteq Conn
         /\ ClientInv'
<1>1. CASE Full
  <2>1. /\ up' = ClientSends(up, <<Msg("tcp_close", c)>>)
        /\ UNCHANGED <<local, tcpConnections>>
    BY <1>1 DEF OpenLocal
  <2> QED
    BY <2>1, ClientSendsType, ClientStutter DEF Inv, Typing, clientBooks
<1>2. CASE ~ Full
  <2>1. /\ local' = [local EXCEPT ![c] = "open"]
        /\ tcpConnections' = tcpConnections \cup {c} /\ UNCHANGED up
    BY <1>2 DEF OpenLocal
  <2>2. Cardinality(tcpConnections) < Limit /\ Cardinality(tcpConnections) \in Nat
    BY <1>2, FS_CardinalityType, RelayAssumption DEF Full, Inv, ClientInv
  <2>3. IsFiniteSet(tcpConnections') /\ Cardinality(tcpConnections') <= Limit
    <3>1. IsFiniteSet(tcpConnections)
      BY DEF Inv, ClientInv
    <3>2. CASE c \in tcpConnections
      <4>1. tcpConnections' = tcpConnections
        BY <2>1, <3>2
      <4> QED
        BY <2>2, <3>1, <4>1, RelayAssumption
    <3>3. CASE c \notin tcpConnections
      <4>1. /\ IsFiniteSet(tcpConnections')
            /\ Cardinality(tcpConnections') = Cardinality(tcpConnections) + 1
        BY <2>1, <3>1, <3>3, FS_AddElement
      <4> QED
        BY <2>2, <4>1, RelayAssumption
    <3> QED
      BY <3>2, <3>3
  <2>4. UNCHANGED Current
    BY DEF Current
  <2>5. \A d \in Conn : local'[d] = "open" => d \in tcpConnections'
    BY <2>1 DEF Inv, Typing, ClientInv, ClientWithinLimit
  <2> QED
    BY <2>1, <2>3, <2>4, <2>5 DEF Inv, Typing, ClientInv, ClientWithinLimit
<1> QED
  BY <1>1, <1>2

\* A frame of the gateway reaches a client that has a socket.
LEMMA ClientFrameInv ==
  ASSUME Inv, NEW s \in Socket, ClientFrame(s)
  PROVE  Inv'
<1> DEFINE c == Head(down[s]).conn
<1>1. /\ s \in Current /\ down[s] # <<>> /\ down' = [down EXCEPT ![s] = Tail(@)]
      /\ \/ OpenLocal(c)
         \/ UNCHANGED <<up, local, tcpConnections>>
         \/ /\ local' = LocalDestroyed({c} \cap tcpConnections)
            /\ tcpConnections' = tcpConnections \ {c}
            /\ UNCHANGED up
      /\ UNCHANGED <<gw, cl, server, connections, owned, pub, via, watched>>
  BY DEF ClientFrame, linkVars, bookVars, publicVars
<1>2. c \in Conn /\ down' \in [Socket -> Seq(Frame)]
  BY <1>1, HeadType DEF Inv, Typing
<1> HIDE DEF c
<1>3. /\ up' \in [Socket -> Seq(Frame)]
      /\ local' \in [Conn -> {"none", "open", "dead", "closed"}]
      /\ tcpConnections' \subseteq Conn
      /\ ClientInv'
  <2>1. CASE OpenLocal(c)
    BY <1>1, <1>2, <2>1, OpenLocalInv
  <2>2. CASE UNCHANGED <<up, local, tcpConnections>>
    BY <1>1, <2>2, ClientStutter DEF Inv, Typing, clientBooks
  <2>3. CASE /\ local' = LocalDestroyed({c} \cap tcpConnections)
             /\ tcpConnections' = tcpConnections \ {c}
             /\ UNCHANGED up
    <3>1. local[c] = "open" => c \in {c} \cap tcpConnections
      BY <1>2 DEF Inv, ClientInv, ClientWithinLimit
    <3>2. /\ local' \in [Conn -> {"none", "open", "dead", "closed"}]
          /\ tcpConnections' \subseteq Conn
          /\ ClientInv'
      BY <1>1, <1>2, <2>3, <3>1, LocalDestroyedInv DEF Inv
    <3> QED
      BY <2>3, <3>2 DEF Inv, Typing
  <2> QED
    BY <1>1, <2>1, <2>2, <2>3
<1>4. Typing' /\ UsedOnce'
  BY <1>1, <1>2, <1>3 DEF Inv, Typing, UsedOnce
<1> QED
  BY <1>1, <1>3, <1>4, GatewayStutter DEF Inv, gatewayBooks

\* The local service sends, ends or fails a connection.
LEMMA LocalInv ==
  ASSUME Inv, NEW c \in Conn, LocalData(c) \/ LocalEnds(c) \/ LocalFails(c) \/ LocalClosed(c)
  PROVE  Inv'
<1>1. UNCHANGED <<gw, cl, server, down, connections, owned, pub, via, watched>>
  BY DEF LocalData, LocalEnds, LocalFails, LocalClosed, linkVars, frameVars, bookVars, publicVars
<1>2. up' \in [Socket -> Seq(Frame)]
  <2>1. \/ UNCHANGED up
        \/ up' = ClientSends(up, <<Msg("tcp_data", c)>>)
        \/ up' = ClientSends(up, <<Msg("tcp_close", c)>>)
    BY DEF LocalData, LocalEnds, LocalFails, LocalClosed, frameVars
  <2>2. up \in [Socket -> Seq(Frame)]
    BY DEF Inv, Typing
  <2>3. /\ ClientSends(up, <<Msg("tcp_data", c)>>) \in [Socket -> Seq(Frame)]
        /\ ClientSends(up, <<Msg("tcp_close", c)>>) \in [Socket -> Seq(Frame)]
    BY <2>2, ClientSendsType
  <2> QED
    BY <2>1, <2>2, <2>3
<1>3. /\ local' \in [Conn -> {"none", "open", "dead", "closed"}]
      /\ tcpConnections' \subseteq Conn
      /\ ClientInv'
  <2>1. CASE LocalData(c)
    BY <1>1, <2>1, ClientStutter DEF LocalData, Inv, Typing, clientBooks
  <2>2. CASE LocalEnds(c)
    BY <1>1, <2>2, LocalDestroyedInv DEF LocalEnds, Inv
  <2>3. CASE LocalFails(c)
    BY <1>1, <2>3, LocalDestroyedInv DEF LocalFails, Inv
  <2>4. CASE LocalClosed(c)
    <3>1. /\ local[c] = "dead" /\ local' = [local EXCEPT ![c] = "closed"]
          /\ tcpConnections' = tcpConnections \ {c}
      BY <2>4 DEF LocalClosed
    <3>2. /\ IsFiniteSet(tcpConnections')
          /\ Cardinality(tcpConnections') <= Cardinality(tcpConnections)
          /\ Cardinality(tcpConnections') \in Nat /\ Cardinality(tcpConnections) \in Nat
      BY <3>1, FS_Subset, FS_CardinalityType DEF Inv, ClientInv
    <3>3. Cardinality(tcpConnections') <= Limit
      BY <3>2, RelayAssumption DEF Inv, ClientInv, ClientWithinLimit
    <3>4. UNCHANGED Current
      BY <1>1 DEF Current
    <3>5. \A d \in Conn : local'[d] = "open" => d \in tcpConnections'
      BY <3>1 DEF Inv, Typing, ClientInv, ClientWithinLimit
    <3>6. tcpConnections' # {} => Current' # {}
      BY <3>1, <3>4 DEF Inv, ClientInv, ClientWithinLimit
    <3> QED
      BY <3>1, <3>2, <3>3, <3>5, <3>6 DEF Inv, Typing, ClientInv, ClientWithinLimit
  <2> QED
    BY <2>1, <2>2, <2>3, <2>4
<1>4. Typing' /\ UsedOnce'
  BY <1>1, <1>2, <1>3 DEF Inv, Typing, UsedOnce
<1> QED
  BY <1>1, <1>3, <1>4, GatewayStutter DEF Inv, gatewayBooks

-----------------------------------------------------------------------------
\* Every action, and the step in which nothing happens, preserve the invariant.
LEMMA NextInv == Inv /\ [Next]_vars => Inv'
<1> SUFFICES ASSUME Inv, [Next]_vars PROVE Inv'
  OBVIOUS
<1>1. CASE GatewayStep
  BY <1>1, GatewayClosedInv, GatewayFrameInv, GatewayDownInv, PublicQuietInv, PublicClosedInv
     DEF GatewayStep
<1>2. CASE ClientStep
  BY <1>2, ClientClosedInv, ClientFrameInv, ClientDownInv, LocalInv DEF ClientStep
<1>3. ASSUME NEW s \in Socket,
             Register(s) \/ Listening(s) \/ GatewayDown(s) \/ ClientDown(s)
      PROVE  Inv'
  BY <1>3, RegisterInv, ListeningInv, GatewayDownInv, ClientDownInv
<1>4. ASSUME NEW s \in Socket, NEW c \in Conn, Accept(s, c) \/ Refuse(s, c) PROVE Inv'
  BY <1>4, AcceptInv, RefuseInv
<1>5. ASSUME NEW c \in Conn, PublicData(c) \/ Flush(c) \/ PublicEnds(c) PROVE Inv'
  BY <1>5, PublicDataInv, PublicQuietInv
<1>6. ASSUME NEW c \in Conn, LocalData(c) \/ LocalEnds(c) \/ LocalFails(c) PROVE Inv'
  BY <1>6, LocalInv
<1>7. CASE UNCHANGED vars
  <2>1. UNCHANGED <<gw, cl, server, down, up, connections, owned, pub, via, watched, local,
                    tcpConnections>>
    BY <1>7 DEF vars, linkVars, frameVars, bookVars, publicVars, localVars
  <2>2. Typing' /\ UsedOnce'
    BY <2>1 DEF Inv, Typing, UsedOnce
  <2> QED
    BY <2>1, <2>2, GatewayStutter, ClientStutter DEF Inv, gatewayBooks, clientBooks
<1> QED
  BY <1>1, <1>2, <1>3, <1>4, <1>5, <1>6, <1>7 DEF Next

\* The inductive invariant holds in every behaviour of the two sides.
THEOREM RelayInvariant == Spec => []Inv
  BY InitInv, NextInv, PTL DEF Spec

\* The gateway's maps agree about every connection of a socket whose close
\* handler has not run, and hold none that has ended and had a handler.
THEOREM RelayConnectionBooks == Spec => []ConnectionBooks
<1>1. Inv => ConnectionBooks
  BY DEF Inv, GatewayInv
<1> QED
  BY <1>1, RelayInvariant, PTL

\* The client's limit counts every local connection that is open or closing, and
\* the close of its link finds them all.
THEOREM RelayClientWithinLimit == Spec => []ClientWithinLimit
<1>1. Inv => ClientWithinLimit
  BY DEF Inv, ClientInv
<1> QED
  BY <1>1, RelayInvariant, PTL

================================================================================
