----------------------------- MODULE PublicPorts -----------------------------
(***************************************************************************)
(* The public-port books of one gateway node: bindTcpTunnel,               *)
(* bindHttpPortTunnel, allocateTcpPort and releaseTcpTunnelBySubdomain of  *)
(* apps/gateway-server/src/server.ts.                                      *)
(*                                                                         *)
(* A bind takes a port from the pool (or the fixed port of an admin        *)
(* mapping), reserves it, and awaits server.listen(); the outcome arrives  *)
(* in a later turn of the event loop.  Everything else may run in between: *)
(* other binds, releases, socket closes.                                   *)
(*                                                                         *)
(* The listening callback (which drops the reservation) and the            *)
(* continuation of the await (which records the binding) are one step: the *)
(* continuation is the microtask that the callback's resolve() queues.     *)
(***************************************************************************)
EXTENDS Naturals

CONSTANTS
  Socket,   \* control sockets, on whose behalf a port is bound
  Key,      \* tunnel keys
  Port,     \* public port numbers
  Pool      \* tcpPublicPortStart .. tcpPublicPortEnd

ASSUME PortAssumption == /\ Port \subseteq Nat
                         /\ Pool \subseteq Port

VARIABLES
  usedTcpPorts,             \* ports the gateway believes are bound
  reservedTcpPorts,         \* ports of binds that await listen()
  tcpBindingsBySubdomain,   \* key -> server, as the set of its values
  listens,                  \* binds in flight: suspended at the await of listen()
  openServers               \* servers the operating system is listening for

vars == <<usedTcpPorts, reservedTcpPorts, tcpBindingsBySubdomain, listens,
          openServers>>

(***************************************************************************)
(* A server: the key it was bound under, its port, and the control socket  *)
(* its connection callback forwards to.                                    *)
(***************************************************************************)
Server == [key : Key, port : Port, socket : Socket]

PortsOf(servers) == {srv.port : srv \in servers}
BindingsAt(keys) == {srv \in tcpBindingsBySubdomain : srv.key \in keys}
Bound(k)         == BindingsAt({k}) # {}

\* mutant of Taken: the busy check forgets the ports of binds in flight
TakenMutant == usedTcpPorts

Taken == usedTcpPorts \cup reservedTcpPorts
Free  == Pool \ Taken

(***************************************************************************)
(* allocateTcpPort: the lowest port of the pool neither used nor reserved. *)
(***************************************************************************)
allocatable(p) == /\ p \in Free
                  /\ \A q \in Free : p <= q

Init ==
  /\ usedTcpPorts = {}
  /\ reservedTcpPorts = {}
  /\ tcpBindingsBySubdomain = {}
  /\ listens = {}
  /\ openServers = {}

(***************************************************************************)
(* The synchronous part of a bind, up to the await: a key that is already  *)
(* bound never gets here (its caller is answered with the existing         *)
(* binding), a port that is taken throws TCP_PORT_BUSY.                    *)
(***************************************************************************)
BeginBind(k, p, s) ==
  /\ ~ Bound(k)
  /\ p \notin Taken
  /\ reservedTcpPorts' = reservedTcpPorts \cup {p}
  /\ listens' = listens \cup {[key |-> k, port |-> p, socket |-> s]}
  /\ UNCHANGED <<usedTcpPorts, tcpBindingsBySubdomain, openServers>>

BindPooled(k, s) == \E p \in Port : allocatable(p) /\ BeginBind(k, p, s)

BindFixed(k, p, s) == BeginBind(k, p, s)

\* mutant of ListenSucceeds: the book of used ports is given the key
ListenSucceedsTypeMutant(srv) ==
  /\ srv \in listens
  /\ srv.port \notin PortsOf(openServers)
  /\ listens' = listens \ {srv}
  /\ openServers' = openServers \cup {srv}
  /\ reservedTcpPorts' = reservedTcpPorts \ {srv.port}
  /\ tcpBindingsBySubdomain' =
       (tcpBindingsBySubdomain \ BindingsAt({srv.key})) \cup {srv}
  /\ usedTcpPorts' = usedTcpPorts \cup {srv.key}

(***************************************************************************)
(* The listening event of srv.  The operating system never gives one port  *)
(* to two servers, whatever the books say: that is the first conjunct.     *)
(* Map.set replaces a binding the key may have gained during the await.    *)
(***************************************************************************)
ListenSucceeds(srv) ==
  /\ srv \in listens
  /\ srv.port \notin PortsOf(openServers)
  /\ listens' = listens \ {srv}
  /\ openServers' = openServers \cup {srv}
  /\ reservedTcpPorts' = reservedTcpPorts \ {srv.port}
  /\ tcpBindingsBySubdomain' =
       (tcpBindingsBySubdomain \ BindingsAt({srv.key})) \cup {srv}
  /\ usedTcpPorts' = usedTcpPorts \cup {srv.port}

\* mutant of ListenFails: the error listener rejects, the reservation stays
ListenFailsMutant(srv) ==
  /\ srv \in listens
  /\ listens' = listens \ {srv}
  /\ UNCHANGED <<usedTcpPorts, reservedTcpPorts, tcpBindingsBySubdomain,
                 openServers>>

(***************************************************************************)
(* The error event of srv: the port belongs to another process, or may not *)
(* be bound.                                                               *)
(***************************************************************************)
ListenFails(srv) ==
  /\ srv \in listens
  /\ listens' = listens \ {srv}
  /\ reservedTcpPorts' = reservedTcpPorts \ {srv.port}
  /\ UNCHANGED <<usedTcpPorts, tcpBindingsBySubdomain, openServers>>

\* mutant of Release: the server closes, its port stays in the book
ReleaseMutant(keys) ==
  /\ tcpBindingsBySubdomain' = tcpBindingsBySubdomain \ BindingsAt(keys)
  /\ openServers' = openServers \ BindingsAt(keys)
  /\ UNCHANGED <<usedTcpPorts, reservedTcpPorts, listens>>

(***************************************************************************)
(* releaseTcpTunnelBySubdomain for each of keys.  The port leaves the      *)
(* books, and the server stops accepting, in the same turn.                *)
(***************************************************************************)
Release(keys) ==
  /\ tcpBindingsBySubdomain' = tcpBindingsBySubdomain \ BindingsAt(keys)
  /\ usedTcpPorts' = usedTcpPorts \ PortsOf(BindingsAt(keys))
  /\ openServers' = openServers \ BindingsAt(keys)
  /\ UNCHANGED <<reservedTcpPorts, listens>>

Next ==
  \/ \E k \in Key, s \in Socket : BindPooled(k, s)
  \/ \E k \in Key, p \in Port, s \in Socket : BindFixed(k, p, s)
  \/ \E srv \in Server : ListenSucceeds(srv)
  \/ \E srv \in Server : ListenFails(srv)
  \/ \E keys \in SUBSET Key : Release(keys)

Spec == Init /\ [][Next]_vars

(***************************************************************************)
(* The operating system answers every listen().                            *)
(***************************************************************************)
Answered(srv) == ListenSucceeds(srv) \/ ListenFails(srv)

FairSpec == Spec /\ \A srv \in Server : WF_vars(Answered(srv))

-----------------------------------------------------------------------------
TypeOK ==
  /\ usedTcpPorts \subseteq Port
  /\ reservedTcpPorts \subseteq Port
  /\ tcpBindingsBySubdomain \subseteq Server
  /\ listens \subseteq Server
  /\ openServers \subseteq Server

(***************************************************************************)
(* No port is claimed twice: among the servers that are open and the binds *)
(* in flight, two that share a port are the same one.  This is what the    *)
(* port-only path relies on ("no other registration can claim the same     *)
(* port in between") and why the gateway never answers itself EADDRINUSE,  *)
(* however binds, failures and releases interleave.                        *)
(***************************************************************************)
PortClaimedOnce ==
  /\ \A a, b \in openServers \cup listens : a.port = b.port => a = b
  /\ openServers \cap listens = {}

(***************************************************************************)
(* The books agree with the operating system: a port is in usedTcpPorts    *)
(* exactly while the gateway has a server open on it, and in               *)
(* reservedTcpPorts exactly while a bind awaits it.  A port that stayed in *)
(* either set would be lost to the pool until a restart.                   *)
(***************************************************************************)
BooksMatchServers ==
  /\ usedTcpPorts = PortsOf(openServers)
  /\ reservedTcpPorts = PortsOf(listens)

(***************************************************************************)
(* tcpBindingsBySubdomain is a map into the open servers: what the books   *)
(* rest on.  That no open server is missing in it is ServersAreFiled, of   *)
(* TunnelSessions: it takes more than the books to say who binds a key.    *)
(***************************************************************************)
BindingsAreOpen ==
  /\ tcpBindingsBySubdomain \subseteq openServers
  /\ \A a, b \in tcpBindingsBySubdomain : a.key = b.key => a = b

(***************************************************************************)
(* A reservation is temporary: every port reserved for a bind is given     *)
(* back, or becomes used, when listen() answers.                           *)
(***************************************************************************)
ReservationEnds ==
  \A p \in Port : p \in reservedTcpPorts ~> p \notin reservedTcpPorts
=============================================================================
