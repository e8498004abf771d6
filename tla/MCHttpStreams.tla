---------------------------- MODULE MCHttpStreams ----------------------------
(***************************************************************************)
(* Two tunnels that follow each other on one subdomain, for HttpStreams:   *)
(* of one client that reconnects, or of two users.                         *)
(***************************************************************************)
EXTENDS HttpStreams, TLC

CONSTANTS s1, s2, alice, bob, r1, r2

OneClient == s1 :> alice @@ s2 :> alice
TwoOwners == s1 :> alice @@ s2 :> bob
=============================================================================
