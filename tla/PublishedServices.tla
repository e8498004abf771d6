------------------------- MODULE PublishedServices --------------------------
(***************************************************************************)
(* Persistent tunnels with two editions of the command line on a machine:  *)
(* the repository's own and the published package, whose service.ts is a   *)
(* copy of it (packages/portivox-client/src/service.ts).  Both keep the    *)
(* same services.json and units of the same names.                         *)
(*                                                                         *)
(* Every definition here is a function of the copy, for a command m of the *)
(* published edition, in terms of the steps of PersistentServices.  It     *)
(* differs in one step: on Linux it gives a hint about linger and does not *)
(* enable it, so that its services start after a login only, unless the    *)
(* other edition has enabled it.                                           *)
(***************************************************************************)
EXTENDS PersistentServices

CONSTANT Published   \* commands of the published edition

UnitsAssumption == Published \subseteq Managers

\* installService, up to the unit file
PublishedInstall(m, n) == Install(m, n) \/ WriteUnit(m, n)

\* daemon-reload, enable; start, without linger
PublishedInstallSystemd(m, n) ==
  \/ EnableSystemd(m, n)
  \/ /\ platform = "linux"
     /\ Installs(m, n) /\ manager[m].at = "start"
     /\ service' = [service EXCEPT ![n] = "up"]
     /\ Moves(m, "write")
     /\ UNCHANGED <<platform, login, early, begun, registry, torn, unit, notes>>

PublishedInstallLaunchd(m, n) == InstallLaunchd(m, n)
PublishedInstallWindows(m, n) == CreateTask(m, n) \/ RunTask(m, n)
PublishedSpawnFails(m, n)     == SpawnFails(m, n)

\* uninstallService, uninstallAllServices
PublishedUninstall(m, n)  == Uninstall(m, n) \/ ReadAgain(m)
PublishedUninstallAll(m)  == UninstallAll(m)
PublishedRemoveUnit(m, n) == RemoveUnit(m, n)

\* writeRegistry
PublishedWriteRegistry(m) == Truncate(m) \/ Fill(m)

\* startService, stopService, restartService
PublishedStart(n)   == StartService(n)
PublishedStop(n)    == StopService(n)
PublishedRestart(n) == RestartService(n)

-----------------------------------------------------------------------------
PublishedStep(m) ==
  \/ PublishedUninstallAll(m) \/ PublishedWriteRegistry(m) \/ Killed(m)
  \/ \E n \in Names :
       \/ PublishedInstall(m, n) \/ PublishedSpawnFails(m, n)
       \/ PublishedInstallSystemd(m, n) \/ PublishedInstallLaunchd(m, n)
       \/ PublishedInstallWindows(m, n)
       \/ PublishedUninstall(m, n) \/ PublishedRemoveUnit(m, n)

TwoEditions ==
  \/ \E m \in Managers \ Published : ManagerStep(m)
  \/ \E m \in Published : PublishedStep(m)
  \/ \E n \in Names : PublishedStart(n) \/ PublishedStop(n) \/ PublishedRestart(n)
  \/ SystemStep
=============================================================================
