-------------------------- MODULE PublicPorts_proofs --------------------------
(***************************************************************************)
(* The port books are right for every pool, every set of keys and every    *)
(* number of control sockets.                                              *)
(*                                                                         *)
(* Inv, the conjunction of the four invariants that TLC checks, is         *)
(* inductive: none of them is on its own.  Dropping a reservation keeps    *)
(* the books right only because no other bind in flight has the same port  *)
(* (PortClaimedOnce); releasing a binding does so only because what the    *)
(* map holds is open (BindingsAreOpen); and a new bind claims a fresh port *)
(* only because the books are right (BooksMatchServers).                   *)
(***************************************************************************)
EXTENDS PublicPorts, TLAPS

Inv == TypeOK /\ PortClaimedOnce /\ BooksMatchServers /\ BindingsAreOpen

-----------------------------------------------------------------------------
\* Inv holds when the gateway starts: no port is claimed, no book has an entry.
LEMMA InitInv == Init => Inv
  BY DEF Init, Inv, TypeOK, PortClaimedOnce, BooksMatchServers,
         BindingsAreOpen, PortsOf

\* A bind that found its port free of both books claims a fresh port.
LEMMA BeginBindInv ==
  ASSUME Inv, NEW k \in Key, NEW p \in Port, NEW s \in Socket,
         BeginBind(k, p, s)
  PROVE  Inv'
<1> DEFINE srv == [key |-> k, port |-> p, socket |-> s]
<1>1. srv \in Server /\ srv.port = p
  BY DEF Server
<1>2. \A a \in openServers \cup listens : a.port # p
  BY DEF Inv, BooksMatchServers, BeginBind, Taken, PortsOf
<1>3. /\ listens' = listens \cup {srv}
      /\ reservedTcpPorts' = reservedTcpPorts \cup {p}
      /\ UNCHANGED <<usedTcpPorts, tcpBindingsBySubdomain, openServers>>
  BY DEF BeginBind
<1> HIDE DEF srv
<1>4. TypeOK'
  BY <1>1, <1>3 DEF Inv, TypeOK
<1>5. PortClaimedOnce'
  BY <1>1, <1>2, <1>3 DEF Inv, PortClaimedOnce
<1>6. BooksMatchServers'
  BY <1>1, <1>3 DEF Inv, BooksMatchServers, PortsOf
<1>7. BindingsAreOpen'
  BY <1>3 DEF Inv, BindingsAreOpen
<1> QED
  BY <1>4, <1>5, <1>6, <1>7 DEF Inv

\* A server that starts listening moves its port from one book to the other.
LEMMA ListenSucceedsInv ==
  ASSUME Inv, NEW srv \in Server, ListenSucceeds(srv)
  PROVE  Inv'
<1>1. /\ srv \in listens
      /\ listens' = listens \ {srv}
      /\ openServers' = openServers \cup {srv}
      /\ reservedTcpPorts' = reservedTcpPorts \ {srv.port}
      /\ usedTcpPorts' = usedTcpPorts \cup {srv.port}
      /\ tcpBindingsBySubdomain' =
           {b \in tcpBindingsBySubdomain : b.key # srv.key} \cup {srv}
  BY DEF ListenSucceeds, BindingsAt
<1>2. TypeOK'
  BY <1>1 DEF Inv, TypeOK, Server
<1>3. PortClaimedOnce'
  BY <1>1 DEF Inv, PortClaimedOnce
<1>4. BooksMatchServers'
  BY <1>1 DEF Inv, BooksMatchServers, PortClaimedOnce, PortsOf
<1>5. BindingsAreOpen'
  BY <1>1 DEF Inv, BindingsAreOpen
<1> QED
  BY <1>2, <1>3, <1>4, <1>5 DEF Inv

\* A failed listen() gives the reservation back and touches nothing else.
LEMMA ListenFailsInv ==
  ASSUME Inv, NEW srv \in Server, ListenFails(srv)
  PROVE  Inv'
<1>1. TypeOK'
  BY DEF Inv, TypeOK, ListenFails
<1>2. PortClaimedOnce'
  BY DEF Inv, PortClaimedOnce, ListenFails
<1>3. BooksMatchServers'
  BY DEF Inv, BooksMatchServers, PortClaimedOnce, PortsOf, ListenFails
<1>4. BindingsAreOpen'
  BY DEF Inv, BindingsAreOpen, ListenFails
<1> QED
  BY <1>1, <1>2, <1>3, <1>4 DEF Inv

\* Releasing bindings frees the ports of exactly the servers that close.
LEMMA ReleaseInv ==
  ASSUME Inv, NEW keys, Release(keys)
  PROVE  Inv'
<1> DEFINE gone == BindingsAt(keys)
<1>1. gone \subseteq tcpBindingsBySubdomain /\ gone \subseteq openServers
  BY DEF Inv, BindingsAreOpen, BindingsAt
<1>2. /\ tcpBindingsBySubdomain' = tcpBindingsBySubdomain \ gone
      /\ openServers' = openServers \ gone
      /\ usedTcpPorts' = usedTcpPorts \ PortsOf(gone)
      /\ UNCHANGED <<reservedTcpPorts, listens>>
  BY DEF Release
<1> HIDE DEF gone
<1>3. TypeOK'
  BY <1>2 DEF Inv, TypeOK
<1>4. PortClaimedOnce'
  BY <1>2 DEF Inv, PortClaimedOnce
<1>5. BooksMatchServers'
  <2>1. PortsOf(openServers \ gone) = PortsOf(openServers) \ PortsOf(gone)
    BY <1>1 DEF Inv, PortClaimedOnce, PortsOf
  <2> QED
    BY <1>2, <2>1 DEF Inv, BooksMatchServers, PortsOf
<1>6. BindingsAreOpen'
  BY <1>2 DEF Inv, BindingsAreOpen
<1> QED
  BY <1>3, <1>4, <1>5, <1>6 DEF Inv

\* Inv survives every step of the books.
LEMMA NextInv == Inv /\ [Next]_vars => Inv'
<1> SUFFICES ASSUME Inv, [Next]_vars PROVE Inv'
  OBVIOUS
<1>1. ASSUME NEW k \in Key, NEW s \in Socket, BindPooled(k, s) PROVE Inv'
  BY <1>1, BeginBindInv DEF BindPooled
<1>2. ASSUME NEW k \in Key, NEW p \in Port, NEW s \in Socket,
             BindFixed(k, p, s)
      PROVE  Inv'
  BY <1>2, BeginBindInv DEF BindFixed
<1>3. ASSUME NEW srv \in Server, ListenSucceeds(srv) PROVE Inv'
  BY <1>3, ListenSucceedsInv
<1>4. ASSUME NEW srv \in Server, ListenFails(srv) PROVE Inv'
  BY <1>4, ListenFailsInv
<1>5. ASSUME NEW keys \in SUBSET Key, Release(keys) PROVE Inv'
  BY <1>5, ReleaseInv
<1>6. CASE UNCHANGED vars
  BY <1>6 DEF vars, Inv, TypeOK, PortClaimedOnce, BooksMatchServers,
              BindingsAreOpen, PortsOf
<1> QED
  BY <1>1, <1>2, <1>3, <1>4, <1>5, <1>6 DEF Next

-----------------------------------------------------------------------------
\* The inductive invariant of the port books.
THEOREM PortsInvariant == Spec => []Inv
  BY InitInv, NextInv, PTL DEF Spec

\* The books hold ports, the maps hold servers (the state declarations of
\* server.ts:1344-1348).
THEOREM PortsTypeOK == Spec => []TypeOK
  BY PortsInvariant, PTL DEF Inv

\* No two servers or binds in flight of a gateway ever share a port: what
\* the port-only path of register_tunnel relies on.
THEOREM PortsClaimedOnce == Spec => []PortClaimedOnce
  BY PortsInvariant, PTL DEF Inv

\* usedTcpPorts and reservedTcpPorts are exactly the ports that are open and
\* awaited, so no port is lost to the pool.
THEOREM PortsBooksMatch == Spec => []BooksMatchServers
  BY PortsInvariant, PTL DEF Inv

\* tcpBindingsBySubdomain maps each key to at most one server, an open one.
THEOREM PortsBindingsOpen == Spec => []BindingsAreOpen
  BY PortsInvariant, PTL DEF Inv
=============================================================================
