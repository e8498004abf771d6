-------------------------- MODULE MCTunnelSessions --------------------------
(***************************************************************************)
(* Small gateways for TunnelSessions.                                      *)
(***************************************************************************)
EXTENDS TunnelSessions, TLC

CONSTANTS s1, s2, s3, alice, bob

\* Two connections of one user, or of two; a reconnect is a second socket.
TwoSockets   == {s1, s2}
ThreeSockets == {s1, s2, s3}
SameUser     == s1 :> alice @@ s2 :> alice
TwoUsers     == s1 :> alice @@ s2 :> bob
Tenants      == s1 :> alice @@ s2 :> alice @@ s3 :> bob

Ports12 == {1, 2}

\* What the client can be asked to open.
PortOnlyRequests == {[tcp |-> FALSE, sub |-> None, dedicated |-> FALSE]}
TcpRequests      == {[tcp |-> TRUE, sub |-> None, dedicated |-> FALSE]}
PortRequests     == PortOnlyRequests \cup TcpRequests
AllRequests      ==
  [tcp : {TRUE}, sub : Sub \cup {None}, dedicated : {FALSE}] \cup
  [tcp : {FALSE}, sub : Sub \cup {None}, dedicated : BOOLEAN]
=============================================================================
