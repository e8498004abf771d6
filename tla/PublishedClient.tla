--------------------------- MODULE PublishedClient ---------------------------
(***************************************************************************)
(* The tunnel client of the published package                              *)
(* (packages/portivox-client/src/client.ts): an older copy of the client   *)
(* without the liveness check, the exit timer and the "once" mode.  Each   *)
(* handler is written here as the copy has it; a handler that is the same  *)
(* in both is the one of TunnelClient.                                     *)
(*                                                                         *)
(* TwoClients is a system in which the configuration says which edition    *)
(* runs; both face the same gateway and are held to the same promise.      *)
(***************************************************************************)
EXTENDS TunnelClient

Published == [liveness |-> FALSE, exitAfter |-> FALSE, once |-> FALSE]

PublishedStart ==
  /\ tries = 0 /\ ~ stopped
  /\ Connect
  /\ UNCHANGED <<config, stopped, timers, redirectToken, silent, verdict, mode, keyValid>>

\* stop(): the heartbeat and the reconnect timer are all it has.
PublishedStop ==
  /\ stopped' = TRUE
  /\ timers' = timers \ {"heartbeat", "reconnect"}
  /\ socket' = IF socket = "open" THEN "closing" ELSE socket

PublishedStopCalled ==
  /\ tries > 0 /\ ~ stopped
  /\ PublishedStop
  /\ verdict' = IF socket = "connecting" THEN "early" ELSE "stopped"
  /\ UNCHANGED <<config, registered, redirectToken, tries, silent, linkVars, gatewayVars>>

PublishedOpened == Opened
PublishedFails  == ConnectFails

PublishedRegistered ==
  /\ Receives("registered")
  /\ registered' = TRUE
  /\ redirectToken' = Head(down).token
  /\ UNCHANGED <<stopped, timers, socket, verdict>>

PublishedAck == GotAck

PublishedError ==
  /\ Receives("error")
  /\ IF registered THEN UNCHANGED <<stopped, timers, socket, verdict>>
     ELSE PublishedStop /\ verdict' = "fatal"
  /\ UNCHANGED <<registered, redirectToken>>

PublishedRevoked ==
  /\ Receives("tunnel_revoked")
  /\ PublishedStop /\ verdict' = "revoked"
  /\ UNCHANGED <<registered, redirectToken>>

\* A heartbeat is sent, and nobody asks whether anything comes back.
PublishedHeartbeat ==
  /\ "heartbeat" \in timers
  /\ up' = IF socket = "open" /\ Len(up \o down) < Backlog THEN Append(up, "heartbeat") ELSE up
  /\ UNCHANGED <<clientVars, down, cut, gatewayVars>>

PublishedScheduleReconnect ==
  timers' = (timers \ {"heartbeat"}) \cup (IF stopped THEN {} ELSE {"reconnect"})

PublishedReconnects == ReconnectTimer

PublishedClosed(code) ==
  /\ \/ /\ socket \in {"open", "closing"} /\ ~ cut
        /\ down # <<>> /\ Head(down) = Close(code)
     \/ socket \in {"closing", "terminated"} /\ code = 1006
  /\ socket' = "closed"
  /\ IF Rejected(code)
       THEN stopped' = TRUE /\ timers' = {} /\ verdict' = "fatal"
       ELSE PublishedScheduleReconnect /\ UNCHANGED <<stopped, verdict>>
  /\ down' = <<>>
  /\ UNCHANGED <<config, registered, redirectToken, tries, silent, up, cut, gatewayVars>>

-----------------------------------------------------------------------------
PublishedStep ==
  \/ PublishedStart \/ PublishedStopCalled \/ PublishedOpened \/ PublishedFails
  \/ PublishedRegistered \/ PublishedAck \/ PublishedError \/ PublishedRevoked
  \/ PublishedHeartbeat \/ PublishedReconnects
  \/ \E code \in Codes : PublishedClosed(code)

TwoClients ==
  \/ config # Published /\ (CommandLineStep \/ ClientStep)
  \/ config = Published /\ PublishedStep
  \/ LinkStep

\* The fairness of TunnelClient, for either edition.
FairTwoClients ==
  /\ Init /\ [][TwoClients]_vars
  /\ WF_vars(config # Published /\ ReconnectTimer)
  /\ WF_vars(config # Published /\ HeartbeatTick)
  /\ WF_vars(config # Published /\ \E code \in Codes : SocketClosed(code))
  /\ WF_vars(config = Published /\ PublishedReconnects)
  /\ WF_vars(config = Published /\ PublishedHeartbeat)
  /\ WF_vars(config = Published /\ \E code \in Codes : PublishedClosed(code))
=============================================================================
