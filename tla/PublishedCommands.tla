------------------------- MODULE PublishedCommands --------------------------
(***************************************************************************)
(* Two editions of the command line on one machine: the repository's own   *)
(* and the published package (packages/portivox-client/src/index.ts).      *)
(* They share client.json and sessions.json.                               *)
(*                                                                         *)
(* Every definition is a function of the published index.ts, for a process *)
(* p of that edition.  `open` differs: a probe of the gateway that fails   *)
(* ends it, and so does a local service that cannot be reached.            *)
(***************************************************************************)
EXTENDS CommandLine

CONSTANT Published   \* processes of the published edition

CommandsAssumption == Published \subseteq Processes

\* readSavedConfig, then the gateway or the user is asked
PublishedAsk(p, cmd) == Ask(p, cmd)

\* fetchValidatedPrincipal
PublishedVerify(p) == Refused(p) \/ KeyVerified(p)

\* fetchGatewayReadyStatus
PublishedReady(p) ==
  /\ proc[p].at = "verified"
  /\ Moves(p, "local") \/ Moves(p, "off")
  /\ UNCHANGED <<files, notes>>

\* ensureLocalServiceReachable
PublishedReachable(p) ==
  /\ proc[p].at = "local"
  /\ Moves(p, "device") \/ Moves(p, "off")
  /\ UNCHANGED <<files, notes>>

PublishedRegister(p)  == RegisterVerified(p)
PublishedWizard(p)    == WizardSaves(p)
PublishedConfigSet(p) == ConfigSet(p)
PublishedLogout(p)    == Logout(p)
PublishedReset(p)     == ConfigReset(p)

\* getOrCreateDeviceId
PublishedDevice(p) == TakesDevice(p)

\* writeSavedConfig, writeSessions
PublishedWrites(p) == Prepare(p) \/ ConfigWritten(p) \/ SessionsRenamed(p)

\* startClient
PublishedTunnel(p) ==
  \/ OnRegistered(p) \/ ConnectionLost(p) \/ OnRevoked(p) \/ Signal(p)

PublishedFatal(p) == OnFatalError(p)

-----------------------------------------------------------------------------
PublishedStep(p) ==
  \/ \E cmd \in {"open", "register", "wizard"} : PublishedAsk(p, cmd)
  \/ PublishedVerify(p) \/ PublishedReady(p) \/ PublishedReachable(p)
  \/ PublishedRegister(p) \/ PublishedWizard(p) \/ PublishedConfigSet(p)
  \/ PublishedLogout(p) \/ PublishedReset(p) \/ PublishedDevice(p)
  \/ PublishedWrites(p) \/ PublishedTunnel(p) \/ PublishedFatal(p)
  \/ Killed(p)

TwoEditions ==
  \/ \E p \in Processes \ Published : Step(p)
  \/ \E p \in Published : PublishedStep(p)
=============================================================================
