---------------------------- MODULE MCPublicPorts ----------------------------
(***************************************************************************)
(* PublicPorts with a pool of two ports and one more port that only an     *)
(* admin mapping names, so that the pool can be exhausted while the fixed  *)
(* port is free, and a fixed bind can compete with a pooled one.           *)
(***************************************************************************)
EXTENDS PublicPorts

MCPort == 1 .. 3
MCPool == 1 .. 2
=============================================================================
