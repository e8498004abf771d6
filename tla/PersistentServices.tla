------------------------- MODULE PersistentServices -------------------------
(***************************************************************************)
(* Persistent tunnels (apps/tunnel-client/src/service.ts): `open           *)
(* --persistent`, `remove`, `start`, `stop` and the other commands that    *)
(* keep services.json and the units of the operating system together, and  *)
(* what the system then does with a unit: it runs `portivox open` at boot  *)
(* and again 5 seconds after it ended, however it ended.                   *)
(*                                                                         *)
(* Commands are processes without a lock; services.json is written in      *)
(* place, from the list a command read when it began.  A call of the       *)
(* operating system may fail.  systemd, launchd and the Task Scheduler     *)
(* differ where a definition names them.                                   *)
(***************************************************************************)
EXTENDS Naturals

CONSTANTS
  Names,        \* names of services
  Managers,     \* bound: commands at the same time; an ended one makes room for another
  MaxCommands   \* bound: commands in all

VARIABLES
  platform,     \* "linux", "darwin", "win32"
  login,        \* the user has logged in since the last boot
  early,        \* names that start at boot, before a login
  registry,     \* services.json
  torn,         \* services.json does not parse now
  unit,         \* name -> "absent", "written", "enabled"
  service,      \* name -> "stopped", "up", "waiting" (to be started again); and, when the
                \* owner removed its tunnel in the console, "dropped" until it is started
                \* again, by the user or without him: "reopened"
  manager,      \* command -> what it does, to which names, how far, the list it read
  begun,        \* commands begun so far
  behind,       \* history: command -> names registered by others since it began
  excused       \* history: names hit by a failed call, a killed or an overlapping command

osVars == <<unit, service>>
notes  == <<behind, excused>>
vars   == <<platform, login, early, registry, torn, osVars, manager, begun, notes>>

Off == [cmd |-> "none", at |-> "off", todo |-> {}, list |-> {}]

\* readRegistry
Registry == IF torn THEN {} ELSE registry

\* Services that were installed before run.
Init ==
  /\ platform \in {"linux", "darwin", "win32"} /\ login = TRUE /\ early = {}
  /\ registry \in SUBSET Names /\ torn = FALSE
  /\ unit    = [n \in Names |-> IF n \in registry THEN "enabled" ELSE "absent"]
  /\ service = [n \in Names |-> IF n \in registry THEN "up" ELSE "stopped"]
  /\ manager = [m \in Managers |-> Off] /\ begun = 0
  /\ behind = [m \in Managers |-> {}] /\ excused = {}

Moves(m, at) ==
  manager' = [manager EXCEPT ![m] = IF at = "off" THEN Off ELSE [@ EXCEPT !.at = at]]

Begins(m, cmd, at, todo) ==
  /\ login /\ manager[m] = Off
  /\ begun < MaxCommands /\ begun' = begun + 1
  /\ manager' = [manager EXCEPT ![m] =
       [cmd |-> cmd, at |-> at, todo |-> todo, list |-> Registry]]
  /\ behind' = [behind EXCEPT ![m] = IF torn THEN Names ELSE {}]
  /\ UNCHANGED <<platform, login, early, registry, torn, osVars, excused>>

-----------------------------------------------------------------------------
(***************************************************************************)
(* installService.                                                         *)
(***************************************************************************)

Install(m, n) ==
  /\ n \notin Registry
  /\ Begins(m, "install", "unit", {n})

Installs(m, n) == manager[m].cmd = "install" /\ manager[m].todo = {n}

\* the unit file, the plist, the wrappers
WriteUnit(m, n) ==
  /\ Installs(m, n) /\ manager[m].at = "unit"
  /\ unit' = [unit EXCEPT ![n] = IF @ = "enabled" THEN @ ELSE "written"]
  /\ Moves(m, "enable")
  /\ UNCHANGED <<platform, login, early, begun, registry, torn, service, notes>>

\* systemctl daemon-reload and enable
EnableSystemd(m, n) ==
  /\ platform = "linux"
  /\ Installs(m, n) /\ manager[m].at = "enable"
  /\ unit' = [unit EXCEPT ![n] = "enabled"]
  /\ Moves(m, "start")
  /\ UNCHANGED <<platform, login, early, begun, registry, torn, service, notes>>

\* loginctl enable-linger: from then on the user's units start before a login.  It
\* may be denied; that is no error.
EnsureLinuxLinger ==
  early' \in {early, Names}

StartSystemd(m, n) ==
  /\ platform = "linux"
  /\ Installs(m, n) /\ manager[m].at = "start"
  /\ service' = [service EXCEPT ![n] = "up"]
  /\ EnsureLinuxLinger
  /\ Moves(m, "write")
  /\ UNCHANGED <<platform, login, begun, registry, torn, unit, notes>>

\* launchctl load -w, which starts it as well
InstallLaunchd(m, n) ==
  /\ platform = "darwin"
  /\ Installs(m, n) /\ manager[m].at = "enable"
  /\ unit' = [unit EXCEPT ![n] = "enabled"]
  /\ service' = [service EXCEPT ![n] = "up"]
  /\ Moves(m, "write")
  /\ UNCHANGED <<platform, login, early, begun, registry, torn, notes>>

\* schtasks /Create: a task of the machine, or where that is denied one of the user,
\* which starts after a login only
CreateTask(m, n) ==
  /\ platform = "win32"
  /\ Installs(m, n) /\ manager[m].at = "enable"
  /\ unit' = [unit EXCEPT ![n] = "enabled"]
  /\ early' \in {early \cup {n}, early \ {n}}
  /\ Moves(m, "start")
  /\ UNCHANGED <<platform, login, begun, registry, torn, service, notes>>

\* schtasks /Run: a task that does not start now is registered all the same.
RunTask(m, n) ==
  /\ platform = "win32"
  /\ Installs(m, n) /\ manager[m].at = "start"
  /\ \/ service' = [service EXCEPT ![n] = "up"]
     \/ UNCHANGED service
  /\ Moves(m, "write")
  /\ UNCHANGED <<platform, login, early, begun, registry, torn, unit, notes>>

\* spawnOrFail: installService throws and leaves what it has done.
SpawnFails(m, n) ==
  /\ Installs(m, n)
  /\ manager[m].at = "enable" \/ (manager[m].at = "start" /\ platform = "linux")
  /\ Moves(m, "off")
  /\ excused' = excused \cup {n}
  /\ UNCHANGED <<platform, login, early, begun, registry, torn, osVars, behind>>

-----------------------------------------------------------------------------
(***************************************************************************)
(* uninstallService, uninstallAllServices.                                 *)
(***************************************************************************)

Uninstall(m, n) ==
  /\ n \in Registry
  /\ Begins(m, "uninstall", "remove", {n})

UninstallAll(m) ==
  /\ Registry # {}
  /\ Begins(m, "all", "remove", Registry)

\* mutant of RemoveSystemd: the unit is deleted and left running
RemoveSystemdMutant(n) ==
  /\ unit' = [unit EXCEPT ![n] = "absent"]
  /\ UNCHANGED <<service, excused>>

\* The unit is stopped, if the call succeeds, and its file deleted in any case.
RemoveSystemd(n) ==
  /\ unit' = [unit EXCEPT ![n] = "absent"]
  /\ \/ service' = [service EXCEPT ![n] = "stopped"] /\ UNCHANGED excused
     \/ service[n] # "stopped" /\ excused' = excused \cup {n} /\ UNCHANGED service

\* The same, for a job that has a plist.
RemoveLaunchd(n) ==
  \/ /\ unit[n] # "absent" /\ unit' = [unit EXCEPT ![n] = "absent"]
     /\ \/ service' = [service EXCEPT ![n] = "stopped"] /\ UNCHANGED excused
        \/ service[n] # "stopped" /\ excused' = excused \cup {n} /\ UNCHANGED service
  \/ /\ unit[n] = "absent"
     /\ excused' = IF service[n] = "stopped" THEN excused ELSE excused \cup {n}
     /\ UNCHANGED osVars

\* schtasks /End, /Delete and the two wrappers: either call may fail.
RemoveWindows(n) ==
  /\ unit' \in {[unit EXCEPT ![n] = "absent"], unit}
  /\ service' \in {[service EXCEPT ![n] = "stopped"], service}
  /\ excused' = IF service'[n] = "stopped" /\ unit'[n] # "enabled" THEN excused
                ELSE excused \cup {n}

RemovePlatformService(n) ==
  CASE platform = "linux"  -> RemoveSystemd(n)
    [] platform = "darwin" -> RemoveLaunchd(n)
    [] platform = "win32"  -> RemoveWindows(n)

\* One name after another; then services.json is read again, or to be emptied.
RemoveUnit(m, n) ==
  /\ manager[m].at = "remove" /\ n \in manager[m].todo
  /\ RemovePlatformService(n)
  /\ manager' = [manager EXCEPT
       ![m].list = IF manager[m].cmd = "uninstall" THEN @ ELSE {},
       ![m].todo = IF manager[m].cmd = "uninstall" THEN @ ELSE @ \ {n},
       ![m].at = IF manager[m].cmd = "uninstall" THEN "reread"
                 ELSE IF manager[m].todo = {n} THEN "write" ELSE "remove"]
  /\ UNCHANGED <<platform, login, early, begun, registry, torn, behind>>

ReadAgain(m) ==
  /\ manager[m].at = "reread"
  /\ manager' = [manager EXCEPT ![m].list = Registry, ![m].at = "write"]
  /\ behind' = [behind EXCEPT ![m] = IF torn THEN Names ELSE @]
  /\ UNCHANGED <<platform, login, early, begun, registry, torn, osVars, excused>>

-----------------------------------------------------------------------------
(***************************************************************************)
(* writeRegistry: the file is truncated, then filled.                      *)
(***************************************************************************)

Written(m) ==
  CASE manager[m].cmd = "install"   -> manager[m].list \cup manager[m].todo
    [] manager[m].cmd = "uninstall" -> manager[m].list \ manager[m].todo
    [] OTHER                        -> {}

Truncate(m) ==
  /\ manager[m].at = "write"
  /\ torn' = TRUE
  /\ Moves(m, "fill")
  /\ UNCHANGED <<platform, login, early, begun, registry, osVars, notes>>

\* When another command has filled the file meanwhile, the result need not parse.
Fill(m) ==
  LET adds == IF manager[m].cmd = "install" THEN manager[m].todo ELSE {}
  IN /\ manager[m].at = "fill"
     /\ registry' = Written(m)
     /\ torn' \in {FALSE, ~torn}
     /\ behind' = [o \in Managers |-> IF o = m THEN {} ELSE behind[o] \cup adds]
     /\ excused' = (excused \cup behind[m]) \ adds
     /\ Moves(m, "off")
     /\ UNCHANGED <<platform, login, early, begun, osVars>>

\* The command is killed: what it was about to do with its names stays undone.
Killed(m) ==
  /\ manager[m].at # "off"
  /\ excused' = excused \cup manager[m].todo
  /\ behind' = [behind EXCEPT ![m] = {}]
  /\ Moves(m, "off")
  /\ UNCHANGED <<platform, login, early, begun, registry, torn, osVars>>

-----------------------------------------------------------------------------
(***************************************************************************)
(* startService, stopService, restartService; requireEntry comes first.    *)
(***************************************************************************)

RequireEntry(n) == login /\ n \in Registry

\* systemctl start runs a unit that is not enabled too.
StartService(n) ==
  /\ RequireEntry(n)
  /\ unit[n] = "enabled" \/ (platform = "linux" /\ unit[n] = "written")
  /\ service' = [service EXCEPT ![n] = "up"]
  /\ UNCHANGED <<platform, login, early, begun, registry, torn, unit, manager, notes>>

StopSystemd(n) == service' = [service EXCEPT ![n] = "stopped"]
\* launchd starts a job with KeepAlive again.
StopLaunchd(n) == service' = [service EXCEPT ![n] = "waiting"]
\* schtasks /End
StopWindows(n) == service' = [service EXCEPT ![n] = "stopped"]

StopService(n) ==
  /\ RequireEntry(n) /\ service[n] # "stopped"
  /\ CASE platform = "linux"  -> StopSystemd(n)
       [] platform = "darwin" -> StopLaunchd(n)
       [] platform = "win32"  -> StopWindows(n)
  /\ UNCHANGED <<platform, login, early, begun, registry, torn, unit, manager, notes>>

\* One call for systemd; launchctl stop and start, schtasks /End and /Run, of which
\* the second may fail.
RestartService(n) ==
  /\ RequireEntry(n)
  /\ unit[n] = "enabled" \/ (platform = "linux" /\ unit[n] = "written")
  /\ \/ service' = [service EXCEPT ![n] = "up"]
     \/ /\ service[n] # "stopped"
        /\ \/ platform = "win32" /\ StopWindows(n)
           \/ platform = "darwin" /\ StopLaunchd(n)
  /\ UNCHANGED <<platform, login, early, begun, registry, torn, unit, manager, notes>>

\* `config service install`: on Linux, linger is asked for again.
InstallInfrastructure ==
  /\ login /\ platform = "linux"
  /\ EnsureLinuxLinger
  /\ UNCHANGED <<platform, login, begun, registry, torn, osVars, manager, notes>>

-----------------------------------------------------------------------------
(***************************************************************************)
(* The operating system, and the `portivox open` it runs.                  *)
(***************************************************************************)

Runs(n)   == service[n] \in {"up", "reopened"}
\* without the user
Up(s)     == IF s \in {"dropped", "reopened"} THEN "reopened" ELSE "up"
Down(n, s) == IF unit[n] = "absent" THEN "stopped" ELSE s

\* a crash, a fatal error
Exits(n) ==
  /\ Runs(n)
  /\ service' = [service EXCEPT ![n] = Down(n, IF @ = "up" THEN "waiting" ELSE "dropped")]
  /\ UNCHANGED <<platform, login, early, begun, registry, torn, unit, manager, notes>>

\* onRevoked: the owner removed the tunnel in the console, the client exits with 0.
TunnelRemoved(n) ==
  /\ Runs(n)
  /\ service' = [service EXCEPT ![n] = Down(n, "dropped")]
  /\ UNCHANGED <<platform, login, early, begun, registry, torn, unit, manager, notes>>

\* Restart=always, KeepAlive, the loop of the wrapper
Restarts(n) ==
  /\ service[n] \in {"waiting", "dropped"}
  /\ service' = [service EXCEPT ![n] = Down(n, Up(@))]
  /\ UNCHANGED <<platform, login, early, begun, registry, torn, unit, manager, notes>>

\* Without a login only what starts early is started.
Reboot ==
  /\ \A m \in Managers : manager[m] = Off
  /\ login' = FALSE
  /\ service' = [n \in Names |->
       IF unit[n] = "enabled" /\ n \in early THEN Up(service[n]) ELSE "stopped"]
  /\ UNCHANGED <<platform, early, begun, registry, torn, unit, manager, notes>>

Login ==
  /\ ~ login /\ login' = TRUE
  /\ service' = [n \in Names |->
       IF unit[n] = "enabled" /\ n \notin early THEN "up" ELSE service[n]]
  /\ UNCHANGED <<platform, early, begun, registry, torn, unit, manager, notes>>

-----------------------------------------------------------------------------
ManagerStep(m) ==
  \/ UninstallAll(m) \/ ReadAgain(m) \/ Truncate(m) \/ Fill(m) \/ Killed(m)
  \/ \E n \in Names :
       \/ Install(m, n) \/ WriteUnit(m, n) \/ SpawnFails(m, n)
       \/ EnableSystemd(m, n) \/ StartSystemd(m, n)
       \/ InstallLaunchd(m, n) \/ CreateTask(m, n) \/ RunTask(m, n)
       \/ Uninstall(m, n) \/ RemoveUnit(m, n)

SystemStep ==
  \/ \E n \in Names :
       \/ StartService(n) \/ StopService(n) \/ RestartService(n)
       \/ Exits(n) \/ TunnelRemoved(n) \/ Restarts(n)
  \/ InstallInfrastructure \/ Reboot \/ Login

Next == (\E m \in Managers : ManagerStep(m)) \/ SystemStep

Spec == Init /\ [][Next]_vars

-----------------------------------------------------------------------------
(***************************************************************************)
(* Properties.                                                             *)
(***************************************************************************)

\* The variables range over these sets; one command holds all names only to remove
\* them all.
TypeOK ==
  /\ platform \in {"linux", "darwin", "win32"}
  /\ login \in BOOLEAN /\ early \subseteq Names
  /\ registry \subseteq Names /\ torn \in BOOLEAN
  /\ unit \in [Names -> {"absent", "written", "enabled"}]
  /\ service \in [Names -> {"stopped", "up", "waiting", "dropped", "reopened"}]
  /\ excused \subseteq Names
  /\ manager \in [Managers ->
       [cmd : {"none", "install", "uninstall", "all"},
        at : {"off", "unit", "enable", "start", "remove", "reread", "write", "fill"},
        todo : SUBSET Names, list : SUBSET Names]]
  /\ behind \in [Managers -> SUBSET Names] /\ begun \in 0..MaxCommands

\* What the operating system runs or would run at the next boot is in services.json,
\* where `portivox remove` finds it, or a command is at work on it; but for names
\* that a failed call, a killed command or overlapping commands left behind.
UnitsListed ==
  \A n \in Names :
    unit[n] = "enabled" \/ Runs(n) =>
      \/ torn \/ n \in registry \/ n \in excused
      \/ \E m \in Managers : n \in manager[m].todo

\* A tunnel that its owner removed stays closed until the user starts it again.
RemovedStaysRemoved == \A n \in Names : service[n] # "reopened"
=============================================================================
