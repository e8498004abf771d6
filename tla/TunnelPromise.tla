--------------------------- MODULE TunnelPromise ----------------------------
(***************************************************************************)
(* What a tunnel client promises, whatever its timers, its link and the    *)
(* gateway do: it goes on trying until it serves, tries again when it has  *)
(* lost its tunnel, keeps the status page it was given from one session to *)
(* the next, and once it has ended it never connects again.                *)
(***************************************************************************)
EXTENDS Naturals

CONSTANTS
  MaxTries,     \* bound: connections a client makes
  None

VARIABLES
  phase,        \* "idle", "trying", "serving", "ended"
  tries,        \* connections made
  page          \* the connection that first got the status page, or None

vars == <<phase, tries, page>>

Init == phase = "idle" /\ tries = 0 /\ page = None

Try ==
  /\ phase \in {"idle", "trying"} /\ tries < MaxTries
  /\ phase' = "trying" /\ tries' = tries + 1
  /\ UNCHANGED page

\* The gateway may know the page, or give a new one to this connection.
Serve ==
  /\ phase = "trying" /\ tries > 0
  /\ phase' = "serving"
  /\ page' \in {tries} \cup (IF page = None THEN {} ELSE {page})
  /\ UNCHANGED tries

Lose ==
  /\ phase = "serving"
  /\ phase' = "trying"
  /\ UNCHANGED <<tries, page>>

End ==
  /\ phase # "ended"
  /\ phase' = "ended"
  /\ UNCHANGED <<tries, page>>

\* A connection that was under way when the client ended may still get one.
Late ==
  /\ phase = "ended" /\ tries > 0
  /\ page' = tries
  /\ UNCHANGED <<phase, tries>>

Next == Try \/ Serve \/ Lose \/ End \/ Late

Spec == Init /\ [][Next]_vars
=============================================================================
