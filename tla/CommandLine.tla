---------------------------- MODULE CommandLine -----------------------------
(***************************************************************************)
(* The command line on one machine (apps/tunnel-client/src/index.ts):      *)
(* processes that run `open`, `register`, `config`, `logout` and share     *)
(* client.json (API key, device id) and sessions.json (the tunnels that    *)
(* `list` shows), with no lock.                                            *)
(*                                                                         *)
(* A command reads a file, computes what to write and writes it in two     *)
(* steps: sessions.json through a temporary file and a rename, client.json *)
(* in place.  A process can be killed between any two steps.  Of           *)
(* client.json only whether it has a key and a device id is kept; the key  *)
(* may also come from the environment.                                     *)
(***************************************************************************)
CONSTANT
  Processes     \* bound: commands that run at the same time; an ended one makes room
                \* for another, which what the ended one left in the list counts as

VARIABLES
  config,       \* client.json: [key, device]: whether it has them
  sessions,     \* sessions.json: the processes listed as active tunnels
  torn,         \* files that do not parse now
  proc,         \* process -> its command and how far it is
  behind,       \* history: process -> who was added to sessions.json since it read it
  lost          \* history: whom a list read before he was added has overwritten

files == <<config, sessions, torn>>
notes == <<behind, lost>>
vars  == <<files, proc, notes>>

Blank == [key |-> FALSE, device |-> FALSE]
Off   == [cmd |-> "none", at |-> "off", file |-> "none", saved |-> Blank, list |-> {},
          next |-> "off"]

\* readSavedConfig, readSessions: what does not parse is as good as empty.
Saved  == IF "config" \in torn THEN Blank ELSE config
Listed == IF "sessions" \in torn THEN {} ELSE sessions

\* On a new machine, or one where a tunnel has been opened before.
Init ==
  /\ config \in {Blank, [key |-> TRUE, device |-> TRUE]} /\ sessions = {} /\ torn = {}
  /\ proc = [p \in Processes |-> Off]
  /\ behind = [p \in Processes |-> {}] /\ lost = {}

\* p goes on at "at", or ends.
Moves(p, at) ==
  proc' = [proc EXCEPT ![p] = IF at = "off" THEN Off 
                            ELSE [Off EXCEPT !.cmd = proc[p].cmd, !.at = at]]

-----------------------------------------------------------------------------
(***************************************************************************)
(* Reading and writing a file.                                             *)
(***************************************************************************)

\* p will write the config c, then go on at "next".
WritesConfig(p, c, next) ==
  /\ proc' = [proc EXCEPT ![p].at = "read", ![p].file = "config", ![p].saved = c,
                          ![p].next = next]
  /\ UNCHANGED <<files, notes>>

\* addSession, removeSession: the list is read now and written later.
WritesSessions(p, list, next) ==
  /\ proc' = [proc EXCEPT ![p].at = "read", ![p].file = "sessions", ![p].list = list,
                          ![p].next = next]
  /\ behind' = [behind EXCEPT ![p] = {}]
  /\ UNCHANGED <<files, lost>>

\* mutant of AddSession: the entry is filtered out and not appended again
AddSessionMutant(p, next) == WritesSessions(p, Listed \ {p}, next)

AddSession(p, next)    == WritesSessions(p, Listed \cup {p}, next)
RemoveSession(p, next) == WritesSessions(p, Listed \ {p}, next)

\* writeFileSync: client.json is truncated before it is written, of sessions.json
\* only the process's own temporary file is.
Truncates(f) == IF f = "config" THEN {"config"} ELSE {}

Prepare(p) ==
  /\ proc[p].at = "read"
  /\ torn' = torn \cup Truncates(proc[p].file)
  /\ proc' = [proc EXCEPT ![p].at = "prepared"]
  /\ UNCHANGED <<config, sessions, notes>>

\* client.json: when another process has filled it since it was truncated, the
\* longer of the two contents shows through and need not parse.
ConfigWritten(p) ==
  /\ proc[p].at = "prepared" /\ proc[p].file = "config"
  /\ config' = proc[p].saved
  /\ IF "config" \in torn THEN torn' = torn \ {"config"}
     ELSE torn' \in {torn, torn \cup {"config"}}
  /\ Moves(p, proc[p].next)
  /\ UNCHANGED <<sessions, notes>>

\* renameSync
SessionsRenamed(p) ==
  LET adds == {p} \cap proc[p].list
  IN /\ proc[p].at = "prepared" /\ proc[p].file = "sessions"
     /\ sessions' = proc[p].list /\ torn' = torn \ {"sessions"}
     /\ behind' = [q \in Processes |-> IF q = p THEN {} ELSE behind[q] \cup adds]
     /\ lost' = (lost \cup behind[p]) \ {p}
     /\ Moves(p, proc[p].next)
     /\ UNCHANGED config

-----------------------------------------------------------------------------
(***************************************************************************)
(* The commands.                                                           *)
(***************************************************************************)

\* open, register, config: the config is read, then the gateway or the user is
\* asked; fetchValidatedPrincipal, fetchGatewayReadyStatus, ask, confirm.
Ask(p, cmd) ==
  /\ proc[p].at = "off"
  /\ cmd \in {"open", "register", "wizard"}
  /\ proc' = [proc EXCEPT ![p] = [Off EXCEPT !.cmd = cmd, !.at = "asked", !.saved = Saved]]
  /\ UNCHANGED <<files, notes>>

\* The key is refused or the gateway away; a wizard finds it draining or is not to save.
Refused(p) ==
  /\ proc[p].at = "asked"
  /\ Moves(p, "off")
  /\ UNCHANGED <<files, notes>>

KeyVerified(p) ==
  /\ proc[p].cmd = "open" /\ proc[p].at = "asked"
  /\ Moves(p, "verified")
  /\ UNCHANGED <<files, notes>>

\* The gateway is ready, or does not say so.
OpenVerified(p) ==
  /\ proc[p].at = "verified"
  /\ Moves(p, "device")
  /\ UNCHANGED <<files, notes>>

GatewayDrains(p) ==
  /\ proc[p].at = "verified"
  /\ Moves(p, "off")
  /\ UNCHANGED <<files, notes>>

\* runRegister: the config as it was before the gateway answered, with the key
RegisterVerified(p) ==
  /\ proc[p].cmd = "register" /\ proc[p].at = "asked"
  /\ WritesConfig(p, [proc[p].saved EXCEPT !.key = TRUE], "device")

\* runConfigWizard writes the gateway and the key, if there is one, and no more.
WizardSaves(p) ==
  /\ proc[p].cmd = "wizard" /\ proc[p].at = "asked"
  /\ \E key \in {TRUE, proc[p].saved.key} : WritesConfig(p, [Blank EXCEPT !.key = key], "off")

\* runConfigSet, with the gateway or the key
ConfigSet(p) ==
  /\ proc[p].at = "off"
  /\ \E key \in {TRUE, Saved.key} : WritesConfig(p, [Saved EXCEPT !.key = key], "off")

Logout(p) ==
  /\ proc[p].at = "off" /\ Saved.key
  /\ WritesConfig(p, [Saved EXCEPT !.key = FALSE], "off")

ConfigReset(p) ==
  /\ proc[p].at = "off"
  /\ config' = Blank /\ torn' = torn \ {"config"}
  /\ Moves(p, "off")
  /\ UNCHANGED <<sessions, notes>>

\* getOrCreateDeviceId, from startClient and from registerDeviceWithGateway
TakesDevice(p) ==
  LET after == IF proc[p].cmd = "open" THEN "connecting" ELSE "off"
  IN /\ proc[p].at = "device"
     /\ IF Saved.device
        THEN Moves(p, after) /\ UNCHANGED <<files, notes>>
        ELSE WritesConfig(p, [Saved EXCEPT !.device = TRUE], after)

-----------------------------------------------------------------------------
(***************************************************************************)
(* startClient: the tunnel of an `open`.                                   *)
(***************************************************************************)

\* onRegistered, the first time and after each reconnect
OnRegistered(p) ==
  /\ proc[p].at = "connecting"
  /\ AddSession(p, "up")

ConnectionLost(p) ==
  /\ proc[p].at = "up"
  /\ Moves(p, "connecting")
  /\ UNCHANGED <<files, notes>>

\* onFatalError and the exit timer leave sessions.json as it is.
OnFatalError(p) ==
  /\ proc[p].at = "connecting"
  /\ Moves(p, "off")
  /\ UNCHANGED <<files, notes>>

OnRevoked(p) ==
  /\ proc[p].at = "up"
  /\ RemoveSession(p, "off")

\* SIGINT, SIGTERM
Signal(p) ==
  /\ proc[p].at \in {"connecting", "up"}
  /\ RemoveSession(p, "off")

Killed(p) ==
  /\ proc[p].at # "off"
  /\ Moves(p, "off")
  /\ UNCHANGED <<files, notes>>

-----------------------------------------------------------------------------
Step(p) ==
  \/ \E cmd \in {"open", "register", "wizard"} : Ask(p, cmd)
  \/ Refused(p) \/ KeyVerified(p) \/ OpenVerified(p) \/ GatewayDrains(p)
  \/ RegisterVerified(p) \/ WizardSaves(p)
  \/ ConfigSet(p) \/ Logout(p) \/ ConfigReset(p) \/ TakesDevice(p)
  \/ Prepare(p) \/ ConfigWritten(p) \/ SessionsRenamed(p)
  \/ OnRegistered(p) \/ ConnectionLost(p) \/ OnFatalError(p) \/ OnRevoked(p)
  \/ Signal(p) \/ Killed(p)

Next == \E p \in Processes : Step(p)

Spec == Init /\ [][Next]_vars

-----------------------------------------------------------------------------
(***************************************************************************)
(* Properties.                                                             *)
(***************************************************************************)

Configs == [key : BOOLEAN, device : BOOLEAN]

\* The variables range over these sets, and sessions.json parses whatever happens.
TypeOK ==
  /\ config \in Configs /\ sessions \subseteq Processes
  /\ torn \subseteq {"config", "sessions"}
  /\ proc \in [Processes ->
       [cmd : {"none", "open", "register", "wizard"},
        at : {"off", "asked", "verified", "local", "device", "read", "prepared", "connecting", "up"},
        file : {"none", "config", "sessions"}, saved : Configs, list : SUBSET Processes,
        next : {"device", "connecting", "up", "off"}]]
  /\ behind \in [Processes -> SUBSET Processes] /\ lost \subseteq Processes

\* A process with a registered tunnel is in the list that `portivox list` prints,
\* whoever was killed in the middle of a write, unless another process wrote a list
\* that it had read before this one was added.
AliveIsListed ==
  \A p \in Processes : proc[p].at = "up" => p \in Listed \/ p \in lost
=============================================================================
