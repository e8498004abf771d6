--------------------------- MODULE MCLeaseRegistry ---------------------------
(***************************************************************************)
(* Two nodes and their clients for LeaseRegistry.                          *)
(***************************************************************************)
EXTENDS LeaseRegistry, TLC

CONSTANTS n1, n2, s1, s2

TwoNodes == s1 :> n1 @@ s2 :> n2
OneNode  == s1 :> n1 @@ s2 :> n1
=============================================================================
