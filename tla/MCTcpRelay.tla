----------------------------- MODULE MCTcpRelay -----------------------------
(***************************************************************************)
(* Small instances of TcpRelay.                                            *)
(***************************************************************************)
EXTENDS TcpRelay, TLC

CONSTANTS s1, s2, c1, c2

\* One connection carries data, the other competes with it.
OneTalks == c1 :> 1 @@ c2 :> 0
=============================================================================
