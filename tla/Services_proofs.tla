--------------------------- MODULE Services_proofs ---------------------------
(***************************************************************************)
(* What holds of the parts of Services, for all values of their constants. *)
(*                                                                         *)
(* A behaviour of Services is one of each part: of the one that runs, and, *)
(* as their variables do not change, of the others (KeysSpec and so on).   *)
(***************************************************************************)
EXTENDS Services, SequenceTheorems, TLAPS

-----------------------------------------------------------------------------
(***************************************************************************)
(* API keys: what ApiKeys_proofs proves.                                   *)
(***************************************************************************)

\* Keys, sockets and devices behave as ApiKeys says.
LEMMA KeysSpec == Spec => Auth!Spec
<1>1. Init => Auth!Init
  BY DEF Init
<1>2. [Next]_vars => [Auth!Next]_(Auth!vars)
  BY DEF Next, vars, keyVars, Auth!vars, Auth!storeVars, Auth!bookVars
<1> QED
  BY <1>1, <1>2, PTL DEF Spec, Auth!Spec

KeysBooks == INSTANCE ApiKeys_proofs WITH Keys <- KeyIds, socket <- keySocket

\* A key is taken away from the clients that use it, and from no others.
THEOREM ServicesRevocation == Spec => RevocationReaches
<1>1. KeysBooks!KeysAssumption
  BY ServicesAssumption DEF Auth!KeysAssumption, KeysBooks!KeysAssumption
<1>2. KeysBooks!Spec => KeysBooks!RevocationReaches
  BY <1>1, KeysBooks!KeysRevocation
<1>3. Auth!Init => KeysBooks!Init
  BY DEF Auth!Init, KeysBooks!Init, Auth!Devices, KeysBooks!Devices, Auth!Rows, KeysBooks!Rows,
     Auth!Unborn, KeysBooks!Unborn, Auth!Idle, KeysBooks!Idle
<1>4. [Auth!Next]_(Auth!vars) => [KeysBooks!Next]_(KeysBooks!vars)
  BY DEF Auth!Next, KeysBooks!Next, Auth!MintKey, KeysBooks!MintKey,
         Auth!Ages, KeysBooks!Ages, Auth!Refreshed, KeysBooks!Refreshed,
         Auth!UpsertLands, KeysBooks!UpsertLands, Auth!RegisterDevice,
         KeysBooks!RegisterDevice, Auth!Connect, KeysBooks!Connect,
         Auth!StoreAnswers, KeysBooks!StoreAnswers, Auth!Enrolled,
         KeysBooks!Enrolled, Auth!OnKey, KeysBooks!OnKey, Auth!Authenticated,
         KeysBooks!Authenticated, Auth!FrameArrives, KeysBooks!FrameArrives,
         Auth!Closed, KeysBooks!Closed, Auth!SocketCloses,
         KeysBooks!SocketCloses, Auth!Told, KeysBooks!Told, Auth!Revoke,
         KeysBooks!Revoke, Auth!Sweeps, KeysBooks!Sweeps, Auth!RevokeKey,
         KeysBooks!RevokeKey, Auth!RowDeleted, KeysBooks!RowDeleted,
         Auth!Answered, KeysBooks!Answered, Auth!ForgetDevice,
         KeysBooks!ForgetDevice, Auth!DeviceForgotten,
         KeysBooks!DeviceForgotten, Auth!SweepLists, KeysBooks!SweepLists,
         Auth!SweepAsks, KeysBooks!SweepAsks, Auth!Unused, KeysBooks!Unused,
         Auth!Sweeping, KeysBooks!Sweeping, Auth!SweepKey, KeysBooks!SweepKey,
         Auth!SweepEnds, KeysBooks!SweepEnds, Auth!storeVars,
         KeysBooks!storeVars, Auth!bookVars, KeysBooks!bookVars, Auth!vars,
         KeysBooks!vars, Auth!Devices, KeysBooks!Devices, Auth!Rows,
         KeysBooks!Rows, Auth!Stored, KeysBooks!Stored, Auth!Live,
         KeysBooks!Live, Auth!Idle, KeysBooks!Idle, Auth!Unborn,
         KeysBooks!Unborn, Auth!KeyOf, KeysBooks!KeyOf, Auth!DeviceOf,
         KeysBooks!DeviceOf
<1>5. KeysBooks!RevocationReaches => RevocationReaches
  BY PTL DEF RevocationReaches, Auth!RevocationReaches, KeysBooks!RevocationReaches,
         Auth!vars, KeysBooks!vars, Auth!storeVars, KeysBooks!storeVars, Auth!bookVars,
         KeysBooks!bookVars, Auth!Attached, KeysBooks!Attached, Auth!KeyOf,
         KeysBooks!KeyOf, Auth!DeviceOf, KeysBooks!DeviceOf
<1> QED
  BY <1>2, <1>3, <1>4, <1>5, KeysSpec, PTL DEF Auth!Spec, KeysBooks!Spec

-----------------------------------------------------------------------------
(***************************************************************************)
(* The command line: the list of active tunnels.                           *)
(*                                                                         *)
(* Who is up and not on the list is in "lost".  That is inductive once it  *)
(* is asked of the lists that are read and not written yet as well: such a *)
(* list has everybody who is up, but for those who were added since it was *)
(* read (listBehind) or lost before.                                       *)
(***************************************************************************)

\* The commands behave as CommandLine and PublishedCommands say.
CliSystem == Cli!Init /\ [][Cli!TwoEditions]_(Cli!vars)

\* In a behaviour of all parts the commands take steps of their own, or none.
LEMMA CliSpec == Spec => CliSystem
<1>1. Init => Cli!Init
  BY DEF Init
<1>2. [Next]_vars => [Cli!TwoEditions]_(Cli!vars)
  BY DEF Next, vars, cliVars, Cli!vars, Cli!files, Cli!notes
<1> QED
  BY <1>1, <1>2, PTL DEF Spec, CliSystem

Process ==
  [cmd : {"none", "open", "register", "wizard"},
   at : {"off", "asked", "verified", "local", "device", "read", "prepared", "connecting", "up"},
   file : {"none", "config", "sessions"}, saved : Cli!Configs, list : SUBSET Processes,
   next : {"device", "connecting", "up", "off"}]

Writes(x) == x.at \in {"read", "prepared"}

\* Only a process that has put itself on a list will be up when it is written.
OnOwnList == \A p \in Processes : Writes(proc[p]) /\ proc[p].next = "up" =>
               proc[p].file = "sessions" /\ p \in proc[p].list

\* Whom the list that q will write leaves out.
MissedBy(q) == {p \in Processes \ {q} : proc[p].at = "up" /\ p \notin proc[q].list}

ListsKnow == \A q \in Processes : Writes(proc[q]) /\ proc[q].file = "sessions" =>
               MissedBy(q) \subseteq listBehind[q] \cup lost

CliInv == /\ Cli!TypeOK /\ configTorn \subseteq {"config"}
          /\ OnOwnList /\ ListsKnow /\ Cli!AliveIsListed

\* p goes on, and reads or writes no list: it is not up afterwards, and what
\* it is about to write is the config, or what it was about to write.
GoesOn(p) ==
  /\ \E x \in Process :
       /\ proc' = [proc EXCEPT ![p] = x] /\ x.at # "up"
       /\ Writes(x) => \/ x.file = "config" /\ x.next # "up"
                       \/ /\ Writes(proc[p]) /\ x.file = proc[p].file
                          /\ x.next = proc[p].next /\ x.list = proc[p].list
  /\ config' \in Cli!Configs /\ configTorn' \subseteq {"config"}
  /\ UNCHANGED <<sessions, listBehind, lost>>

\* A step that writes no list keeps the invariant of the commands.
LEMMA GoesOnInv ==
  ASSUME CliInv, NEW p \in Processes, GoesOn(p)
  PROVE  CliInv'
<1> USE DEF CliInv, Cli!TypeOK
<1>1. PICK x \in Process :
        /\ proc' = [proc EXCEPT ![p] = x] /\ x.at # "up"
        /\ Writes(x) => \/ x.file = "config" /\ x.next # "up"
                        \/ /\ Writes(proc[p]) /\ x.file = proc[p].file
                           /\ x.next = proc[p].next /\ x.list = proc[p].list
  BY DEF GoesOn
<1>2. /\ config' \in Cli!Configs /\ configTorn' \subseteq {"config"}
      /\ UNCHANGED <<sessions, listBehind, lost>>
  BY DEF GoesOn
<1>3. proc \in [Processes -> Process]
  BY DEF Process
<1>4. /\ proc' \in [Processes -> Process] /\ proc'[p] = x
      /\ \A q \in Processes \ {p} : proc'[q] = proc[q]
  BY <1>1, <1>3
<1>5. Cli!TypeOK'
  BY <1>2, <1>4 DEF Process
<1>6. OnOwnList'
  BY <1>1, <1>4 DEF OnOwnList, Writes
<1>7. ListsKnow'
  BY <1>1, <1>2, <1>4 DEF ListsKnow, MissedBy, Writes
<1>8. Cli!AliveIsListed'
  BY <1>1, <1>2, <1>4 DEF Cli!AliveIsListed, Cli!Listed
<1> QED
  BY <1>2, <1>5, <1>6, <1>7, <1>8

\* p reads the list, to write it with itself on it or without.
ReadsList(p) ==
  \E next \in {"up", "off"}, list \in SUBSET Processes :
    /\ list = IF next = "up" THEN Cli!Listed \cup {p} ELSE Cli!Listed \ {p}
    /\ Cli!WritesSessions(p, list, next)

\* Reading the list keeps it too: what is read has everybody who is up and not lost.
LEMMA ReadsListInv ==
  ASSUME CliInv, NEW p \in Processes, ReadsList(p)
  PROVE  CliInv'
<1> USE DEF CliInv, Cli!TypeOK
<1>1. PICK next \in {"up", "off"}, list \in SUBSET Processes :
        /\ list = IF next = "up" THEN Cli!Listed \cup {p} ELSE Cli!Listed \ {p}
        /\ Cli!WritesSessions(p, list, next)
  BY DEF ReadsList
<1> DEFINE x == [proc[p] EXCEPT !.at = "read", !.file = "sessions", !.list = list,
                                !.next = next]
<1>2. proc \in [Processes -> Process]
  BY DEF Process
<1>3. /\ proc' = [proc EXCEPT ![p].at = "read", ![p].file = "sessions", ![p].list = list,
                               ![p].next = next]
      /\ listBehind' = [listBehind EXCEPT ![p] = {}]
      /\ UNCHANGED <<config, sessions, configTorn, lost>>
  BY <1>1 DEF Cli!WritesSessions, Cli!files
<1>4. proc' = [proc EXCEPT ![p] = x]
  BY <1>2, <1>3
<1>5. /\ x \in Process /\ x.at = "read" /\ x.file = "sessions" /\ x.list = list
      /\ x.next = next
  <2>1. proc[p] \in Process /\ next \in {"up", "off"} /\ list \in SUBSET Processes
    BY <1>1, <1>2
  <2> HIDE DEF CliInv, Cli!TypeOK
  <2>2. x \in Process
    BY <2>1 DEF Process
  <2> QED
    BY <2>1, <2>2 DEF Process
<1> HIDE DEF x
<1>6. /\ proc' \in [Processes -> Process] /\ proc'[p] = x
      /\ \A q \in Processes \ {p} : proc'[q] = proc[q]
  BY <1>2, <1>4, <1>5
<1>7. Cli!TypeOK'
  BY <1>3, <1>6 DEF Process
<1>8. OnOwnList'
  BY <1>1, <1>5, <1>6 DEF OnOwnList, Writes
<1>9. ListsKnow'
  BY <1>1, <1>3, <1>5, <1>6 DEF ListsKnow, MissedBy, Writes, Cli!AliveIsListed
<1>10. Cli!AliveIsListed'
  BY <1>3, <1>5, <1>6 DEF Cli!AliveIsListed, Cli!Listed
<1> QED
  BY <1>3, <1>7, <1>8, <1>9, <1>10

\* p writes its list: who is up and not on it is lost, and p is not.
LEMMA RenamedInv ==
  ASSUME CliInv, NEW p \in Processes, Cli!SessionsRenamed(p)
  PROVE  CliInv'
<1> USE DEF CliInv, Cli!TypeOK
<1> DEFINE adds == {p} \cap proc[p].list
           next == proc[p].next
           x    == IF next = "off" THEN Cli!Off
                   ELSE [Cli!Off EXCEPT !.cmd = proc[p].cmd, !.at = next]
<1>1. proc \in [Processes -> Process]
  BY DEF Process
<1>2. /\ proc[p].at = "prepared" /\ proc[p].file = "sessions" /\ sessions' = proc[p].list
      /\ configTorn' = configTorn \ {"sessions"}
      /\ listBehind' = [q \in Processes |->
                          IF q = p THEN {} ELSE listBehind[q] \cup adds]
      /\ lost' = (lost \cup listBehind[p]) \ {p}
      /\ proc' = [proc EXCEPT ![p] = x]
      /\ UNCHANGED config
  BY DEF Cli!SessionsRenamed, Cli!Moves
<1>3. x \in Process /\ x.at = next
  BY <1>1 DEF Process, Cli!Off, Cli!Blank, Cli!Configs
<1>4. next = "up" => p \in proc[p].list
  BY <1>2 DEF OnOwnList, Writes
<1>5. next \in {"device", "connecting", "up", "off"} /\ proc[p].list \subseteq Processes
  BY <1>1 DEF Process
<1>6. MissedBy(p) \subseteq listBehind[p] \cup lost
  BY <1>2 DEF ListsKnow, Writes
<1> HIDE DEF x, next
<1>7. /\ proc' \in [Processes -> Process] /\ proc'[p] = x
      /\ \A q \in Processes \ {p} : proc'[q] = proc[q]
  BY <1>1, <1>2, <1>3
<1>8. Cli!TypeOK'
  BY <1>2, <1>5, <1>7 DEF Process
<1>9. OnOwnList'
  BY <1>3, <1>5, <1>7 DEF OnOwnList, Writes
<1>10. ASSUME NEW q \in Processes, Writes(proc[q])', (proc[q].file)' = "sessions",
              NEW r \in MissedBy(q)'
       PROVE  r \in (listBehind[q] \cup lost)'
  <2>1. q # p /\ proc'[q] = proc[q]
    BY <1>3, <1>5, <1>7, <1>10 DEF Writes
  <2>2. r \in Processes \ {q} /\ r \notin proc[q].list /\ proc'[r].at = "up"
    BY <1>10, <2>1 DEF MissedBy
  <2>3. CASE r = p
    BY <1>2, <1>3, <1>4, <1>7, <2>1, <2>2, <2>3
  <2>4. CASE r # p
    <3>1. r \in MissedBy(q)
      BY <1>7, <2>2, <2>4 DEF MissedBy
    <3>2. r \in listBehind[q] \cup lost
      BY <1>10, <2>1, <3>1 DEF ListsKnow
    <3> QED
      BY <1>2, <2>1, <2>4, <3>2
  <2> QED
    BY <2>3, <2>4
<1>11. ListsKnow'
  BY <1>10 DEF ListsKnow
<1>12. Cli!AliveIsListed'
  BY <1>2, <1>3, <1>4, <1>6, <1>7 DEF Cli!AliveIsListed, Cli!Listed, MissedBy
<1> QED
  BY <1>2, <1>8, <1>9, <1>11, <1>12

\* What a command saves is a config.
LEMMA SavedConfig ==
  ASSUME CliInv
  PROVE  /\ Cli!Saved \in Cli!Configs /\ Cli!Blank \in Cli!Configs
         /\ \A c \in Cli!Configs :
              /\ c.key \in BOOLEAN
              /\ \A key \in BOOLEAN : [c EXCEPT !.key = key] \in Cli!Configs
              /\ [c EXCEPT !.device = TRUE] \in Cli!Configs
  BY DEF CliInv, Cli!TypeOK, Cli!Saved, Cli!Configs, Cli!Blank

\* A process that moves on, with the files left alone or the config written.
LEMMA MovesOn ==
  ASSUME CliInv, NEW p \in Processes,
         NEW a \in {"off", "asked", "verified", "local", "device", "connecting"},
         Cli!Moves(p, a), config' \in Cli!Configs, configTorn' \subseteq {"config"},
         UNCHANGED <<sessions, listBehind, lost>>
  PROVE  GoesOn(p)
<1> DEFINE x == IF a = "off" THEN Cli!Off ELSE [Cli!Off EXCEPT !.cmd = proc[p].cmd, !.at = a]
<1>1. proc' = [proc EXCEPT ![p] = x]
  BY DEF Cli!Moves
<1>2. proc[p].cmd \in {"none", "open", "register", "wizard"}
  BY DEF CliInv, Cli!TypeOK
<1>3. x \in Process /\ x.at = a
  BY <1>2 DEF Process, Cli!Off, Cli!Blank, Cli!Configs
<1> HIDE DEF x
<1> QED
  BY <1>1, <1>3 DEF GoesOn, Writes

\* A process that is about to write the config.
LEMMA WritesConfigOn ==
  ASSUME CliInv, NEW p \in Processes, NEW c \in Cli!Configs,
         NEW next \in {"device", "connecting", "off"}, Cli!WritesConfig(p, c, next)
  PROVE  GoesOn(p)
<1> DEFINE x == [proc[p] EXCEPT !.at = "read", !.file = "config", !.saved = c, !.next = next]
<1>1. proc \in [Processes -> Process]
  BY DEF Process, CliInv, Cli!TypeOK
<1>2. proc' = [proc EXCEPT ![p].at = "read", ![p].file = "config", ![p].saved = c,
                           ![p].next = next]
  BY DEF Cli!WritesConfig
<1>3. proc' = [proc EXCEPT ![p] = x]
  BY <1>1, <1>2
<1>4. proc[p] \in Process
  BY <1>1
<1>5. x \in Process
  BY <1>4 DEF Process
<1>6. x.at = "read" /\ x.file = "config" /\ x.next = next
  BY <1>4 DEF Process
<1> HIDE DEF x
<1>7. /\ config' \in Cli!Configs /\ configTorn' \subseteq {"config"}
      /\ UNCHANGED <<sessions, listBehind, lost>>
  BY DEF Cli!WritesConfig, Cli!files, Cli!notes, CliInv, Cli!TypeOK
<1> QED
  BY <1>3, <1>5, <1>6, <1>7 DEF GoesOn, Writes

\* The first half of a write; a list is written to a file of its own.
LEMMA PrepareOn ==
  ASSUME CliInv, NEW p \in Processes, Cli!Prepare(p)
  PROVE  GoesOn(p)
<1> DEFINE x == [proc[p] EXCEPT !.at = "prepared"]
<1>1. proc \in [Processes -> Process]
  BY DEF Process, CliInv, Cli!TypeOK
<1>2. /\ proc[p].at = "read" /\ proc' = [proc EXCEPT ![p].at = "prepared"]
      /\ configTorn' \subseteq configTorn \cup {"config"}
      /\ UNCHANGED <<config, sessions, listBehind, lost>>
  BY DEF Cli!Prepare, Cli!Truncates, Cli!notes
<1>3. proc' = [proc EXCEPT ![p] = x]
  BY <1>1, <1>2
<1>4. proc[p] \in Process
  BY <1>1
<1>5. x \in Process
  BY <1>4 DEF Process
<1>6. x.at = "prepared" /\ x.file = proc[p].file /\ x.next = proc[p].next
      /\ x.list = proc[p].list
  BY <1>4 DEF Process
<1> HIDE DEF x
<1>7. config' \in Cli!Configs /\ configTorn' \subseteq {"config"}
  BY <1>2 DEF CliInv, Cli!TypeOK
<1> QED
  BY <1>2, <1>3, <1>5, <1>6, <1>7 DEF GoesOn, Writes

\* Every step of a command goes on, reads the list or writes it.
LEMMA CliKinds ==
  ASSUME CliInv, NEW p \in Processes, Cli!Step(p) \/ Cli!PublishedStep(p)
  PROVE  GoesOn(p) \/ ReadsList(p) \/ Cli!SessionsRenamed(p)
<1>1. /\ config \in Cli!Configs /\ configTorn \subseteq {"config"}
      /\ proc \in [Processes -> Process] /\ proc[p].saved \in Cli!Configs
  BY DEF CliInv, Cli!TypeOK, Process
<1>2. ASSUME NEW cmd \in {"open", "register", "wizard"}, Cli!Ask(p, cmd) PROVE GoesOn(p)
  <2> DEFINE x == [Cli!Off EXCEPT !.cmd = cmd, !.at = "asked", !.saved = Cli!Saved]
  <2>1. x \in Process /\ x.at = "asked"
    BY <1>2, SavedConfig DEF Process, Cli!Off
  <2>2. /\ proc' = [proc EXCEPT ![p] = x]
        /\ UNCHANGED <<config, configTorn, sessions, listBehind, lost>>
    BY <1>2 DEF Cli!Ask, Cli!files, Cli!notes
  <2> HIDE DEF x
  <2> QED
    BY <1>1, <2>1, <2>2 DEF GoesOn, Writes
<1>3. ASSUME NEW a \in {"off", "asked", "verified", "local", "device", "connecting"},
             Cli!Moves(p, a), UNCHANGED <<Cli!files, Cli!notes>>
      PROVE  GoesOn(p)
  BY <1>1, <1>3, MovesOn DEF Cli!files, Cli!notes
<1>4. Cli!Refused(p) \/ Cli!KeyVerified(p) \/ Cli!OpenVerified(p) \/ Cli!GatewayDrains(p)
      \/ Cli!PublishedReady(p) \/ Cli!PublishedReachable(p)
      \/ Cli!ConnectionLost(p) \/ Cli!OnFatalError(p) \/ Cli!Killed(p) => GoesOn(p)
  BY <1>3 DEF Cli!Refused, Cli!KeyVerified, Cli!OpenVerified, Cli!GatewayDrains,
       Cli!PublishedReady, Cli!PublishedReachable, Cli!ConnectionLost, Cli!OnFatalError,
       Cli!Killed
<1>5. Cli!RegisterVerified(p) => GoesOn(p)
  BY <1>1, SavedConfig, WritesConfigOn DEF Cli!RegisterVerified
<1>6. ASSUME NEW c \in Cli!Configs, NEW key \in BOOLEAN,
             NEW next \in {"device", "connecting", "off"},
             Cli!WritesConfig(p, [c EXCEPT !.key = key], next)
      PROVE  GoesOn(p)
  BY <1>6, SavedConfig, WritesConfigOn
<1>7. Cli!WizardSaves(p) => GoesOn(p)
  BY <1>1, <1>6, SavedConfig DEF Cli!WizardSaves
<1>8. Cli!ConfigSet(p) \/ Cli!Logout(p) => GoesOn(p)
  BY <1>6, SavedConfig DEF Cli!ConfigSet, Cli!Logout
<1>9. Cli!ConfigReset(p) => GoesOn(p)
  <2> SUFFICES ASSUME Cli!ConfigReset(p) PROVE GoesOn(p)
    OBVIOUS
  <2>1. /\ Cli!Moves(p, "off") /\ configTorn' \subseteq {"config"}
        /\ config' \in Cli!Configs /\ UNCHANGED <<sessions, listBehind, lost>>
    BY <1>1 DEF Cli!ConfigReset, Cli!notes, Cli!Blank, Cli!Configs
  <2> QED
    BY <2>1, MovesOn
<1>10. Cli!TakesDevice(p) => GoesOn(p)
  <2>1. [Cli!Saved EXCEPT !.device = TRUE] \in Cli!Configs
    BY SavedConfig
  <2> DEFINE after == IF proc[p].cmd = "open" THEN "connecting" ELSE "off"
  <2>2. after \in {"connecting", "off"}
    OBVIOUS
  <2>3. Cli!TakesDevice(p) =>
          \/ Cli!Moves(p, after) /\ UNCHANGED <<Cli!files, Cli!notes>>
          \/ Cli!WritesConfig(p, [Cli!Saved EXCEPT !.device = TRUE], after)
    BY DEF Cli!TakesDevice
  <2> HIDE DEF after
  <2> QED
    BY <1>3, <2>1, <2>2, <2>3, WritesConfigOn
<1>11. Cli!ConfigWritten(p) => GoesOn(p)
  <2> SUFFICES ASSUME Cli!ConfigWritten(p) PROVE GoesOn(p)
    OBVIOUS
  <2>1. /\ proc[p].at = "prepared" /\ proc[p].file = "config" /\ config' = proc[p].saved
        /\ configTorn' \subseteq {"config"} /\ Cli!Moves(p, proc[p].next)
        /\ UNCHANGED <<sessions, listBehind, lost>>
    BY <1>1 DEF Cli!ConfigWritten, Cli!notes
  <2>2. proc[p].next \in {"device", "connecting", "up", "off"}
    BY <1>1 DEF Process
  <2>3. proc[p].next # "up"
    BY <2>1 DEF CliInv, OnOwnList, Writes
  <2> QED
    BY <1>1, <2>1, <2>2, <2>3, MovesOn
<1>12. Cli!OnRegistered(p) \/ Cli!OnRevoked(p) \/ Cli!Signal(p) => ReadsList(p)
  <2>1. Cli!Listed \cup {p} \in SUBSET Processes /\ Cli!Listed \ {p} \in SUBSET Processes
    BY DEF CliInv, Cli!TypeOK, Cli!Listed
  <2> QED
    BY <2>1 DEF Cli!OnRegistered, Cli!OnRevoked, Cli!Signal, Cli!AddSession,
         Cli!RemoveSession, ReadsList
<1> QED
  BY <1>2, <1>4, <1>5, <1>6, <1>7, <1>8, <1>9, <1>10, <1>11, <1>12, PrepareOn
  DEF Cli!Step, Cli!PublishedStep, Cli!PublishedAsk, Cli!PublishedVerify,
      Cli!PublishedRegister, Cli!PublishedWizard, Cli!PublishedConfigSet,
      Cli!PublishedLogout, Cli!PublishedReset, Cli!PublishedDevice,
      Cli!PublishedWrites, Cli!PublishedTunnel, Cli!PublishedFatal

\* A process with a registered tunnel is in the list that the command line
\* prints, unless a command wrote a list that it had read before.
THEOREM ServicesAlive == Spec => []AliveIsListed
<1>1. Cli!Init => CliInv
  <2> SUFFICES ASSUME Cli!Init PROVE CliInv
    OBVIOUS
  <2>1. /\ config \in Cli!Configs /\ Cli!Off \in Process
        /\ sessions = {} /\ configTorn = {} /\ lost = {}
    <3>1. [key |-> TRUE, device |-> TRUE] \in Cli!Configs /\ Cli!Blank \in Cli!Configs
      BY DEF Cli!Blank, Cli!Configs
    <3>2. Cli!Off \in Process
      BY <3>1 DEF Cli!Off, Process
    <3> QED
      BY <3>1, <3>2 DEF Cli!Init
  <2>2. \A p \in Processes : proc[p].at = "off"
    BY DEF Cli!Init, Cli!Off
  <2>3. Cli!TypeOK
    BY <2>1 DEF Cli!Init, Cli!TypeOK, Process
  <2> QED
    BY <2>1, <2>2, <2>3 DEF CliInv, OnOwnList, ListsKnow, Writes, Cli!AliveIsListed
<1>2. CliInv /\ [Cli!TwoEditions]_(Cli!vars) => CliInv'
  <2> SUFFICES ASSUME CliInv, [Cli!TwoEditions]_(Cli!vars) PROVE CliInv'
    OBVIOUS
  <2>1. CASE Cli!TwoEditions
    <3>1. PICK p \in Processes : Cli!Step(p) \/ Cli!PublishedStep(p)
      BY <2>1, ServicesAssumption DEF Cli!TwoEditions, Cli!CommandsAssumption
    <3> QED
      BY <3>1, CliKinds, GoesOnInv, ReadsListInv, RenamedInv
  <2>2. CASE UNCHANGED Cli!vars
    BY <2>2 DEF Cli!vars, Cli!files, Cli!notes, CliInv, Cli!TypeOK, OnOwnList, ListsKnow,
         Writes, MissedBy, Cli!AliveIsListed, Cli!Listed
  <2> QED
    BY <2>1, <2>2
<1>3. CliInv => AliveIsListed
  BY DEF CliInv, AliveIsListed
<1> QED
  BY <1>1, <1>2, <1>3, CliSpec, PTL DEF CliSystem

-----------------------------------------------------------------------------
(***************************************************************************)
(* The audit log: what becomes of an event, and of who reads the log.      *)
(*                                                                         *)
(* A letter that a replay has read is still to be sent, failed, or was     *)
(* taken (LettersRead), so only letters that came later can be overwritten.*)
(* A reader has seen what is before the cursor of what was there when he   *)
(* began, and nothing that is behind it (ReadUpTo); the cursor has one     *)
(* place, as an event is stored once.                                      *)
(***************************************************************************)

\* The audit log behaves as AuditTrail says.
LEMMA AuditSpec == Spec => Audit!Spec
<1>1. Init => Audit!Init
  BY DEF Init
<1>2. [Next]_vars => [Audit!Next]_(Audit!vars)
  BY DEF Next, vars, auditVars, Audit!vars
<1> QED
  BY <1>1, <1>2, PTL DEF Spec, Audit!Spec

\* A sequence with an element inserted: what was behind it moves up.
LEMMA InsertFacts ==
  ASSUME NEW S, NEW s \in Seq(S), NEW i \in 1..(Len(s) + 1), NEW e \in S
  PROVE  /\ Audit!InsertAt(s, i, e) \in Seq(S)
         /\ Len(Audit!InsertAt(s, i, e)) = Len(s) + 1
         /\ \A j \in 1..(Len(s) + 1) :
              Audit!InsertAt(s, i, e)[j] = IF j < i THEN s[j] ELSE IF j = i THEN e ELSE s[j - 1]
<1> DEFINE a == SubSeq(s, 1, i - 1)
           b == SubSeq(s, i, Len(s))
<1>1. Len(s) \in Nat /\ \A j \in 1..Len(s) : s[j] \in S
  OBVIOUS
<1>2. a \in Seq(S) /\ Len(a) = i - 1 /\ \A j \in 1..(i - 1) : a[j] = s[j]
  BY <1>1
<1>3. b \in Seq(S) /\ Len(b) = Len(s) - i + 1 /\ \A j \in 1..(Len(s) - i + 1) : b[j] = s[i + j - 1]
  <2>1. \A j \in i..Len(s) : s[j] \in S
    BY <1>1
  <2> QED
    BY <1>1, <2>1, SubSeqProperties
<1>4. <<e>> \in Seq(S) /\ Len(<<e>>) = 1 /\ <<e>>[1] = e
  OBVIOUS
<1> HIDE DEF a, b
<1> DEFINE c == a \o <<e>>
<1>5. /\ c \in Seq(S) /\ Len(c) = i
      /\ \A j \in 1..i : c[j] = IF j < i THEN s[j] ELSE e
  BY <1>1, <1>2, <1>4, ConcatProperties
<1>6. Audit!InsertAt(s, i, e) = c \o b
  BY DEF Audit!InsertAt, a, b, c
<1> HIDE DEF c
<1> DEFINE t == c \o b
<1>7. /\ t \in Seq(S) /\ Len(t) = Len(c) + Len(b)
      /\ \A j \in 1..(Len(c) + Len(b)) : t[j] = IF j <= Len(c) THEN c[j] ELSE b[j - Len(c)]
  BY <1>3, <1>5, ConcatProperties
<1> HIDE DEF t
<1>8. t \in Seq(S) /\ Len(t) = Len(s) + 1
  BY <1>1, <1>3, <1>5, <1>7
<1>9. ASSUME NEW j \in 1..(Len(s) + 1)
      PROVE  t[j] = IF j < i THEN s[j] ELSE IF j = i THEN e ELSE s[j - 1]
  <2>1. CASE j <= i
    BY <1>1, <1>3, <1>5, <1>7, <2>1
  <2>2. CASE j > i
    <3>1. t[j] = b[j - i] /\ j - i \in 1..(Len(s) - i + 1)
      BY <1>1, <1>3, <1>5, <1>7, <2>2
    <3> QED
      BY <1>1, <1>3, <2>2, <3>1
  <2> QED
    BY <1>1, <2>1, <2>2
<1> QED
  BY <1>6, <1>8, <1>9 DEF t

\* t is s with e before its place i.
Inserted(s, t, i, e) ==
  /\ Len(t) = Len(s) + 1
  /\ \A j \in 1..(Len(s) + 1) :
       t[j] = IF j < i THEN s[j] ELSE IF j = i THEN e ELSE s[j - 1]

\* The same, in one word.
LEMMA InsertIs ==
  ASSUME NEW S, NEW s \in Seq(S), NEW i \in 1..(Len(s) + 1), NEW e \in S
  PROVE  /\ Audit!InsertAt(s, i, e) \in Seq(S)
         /\ Inserted(s, Audit!InsertAt(s, i, e), i, e)
<1> DEFINE t == Audit!InsertAt(s, i, e)
<1>1. t \in Seq(S)
  BY InsertFacts
<1>2. Len(t) = Len(s) + 1
  BY InsertFacts
<1>3. \A j \in 1..(Len(s) + 1) :
        t[j] = IF j < i THEN s[j] ELSE IF j = i THEN e ELSE s[j - 1]
  BY InsertFacts
<1> HIDE DEF t
<1>4. Inserted(s, t, i, e)
  BY <1>2, <1>3, Zenon DEF Inserted
<1> QED
  BY <1>1, <1>4 DEF t

\* Inserting adds one element to the set.
LEMMA InsertSet ==
  ASSUME NEW S, NEW s \in Seq(S), NEW i \in 1..(Len(s) + 1), NEW e \in S
  PROVE  Audit!ToSet(Audit!InsertAt(s, i, e)) = Audit!ToSet(s) \cup {e}
<1> DEFINE t == Audit!InsertAt(s, i, e)
<1>1. /\ t \in Seq(S) /\ Len(t) = Len(s) + 1 /\ Len(s) \in Nat
      /\ \A j \in 1..(Len(s) + 1) :
           t[j] = IF j < i THEN s[j] ELSE IF j = i THEN e ELSE s[j - 1]
  BY InsertFacts
<1> HIDE DEF t
<1>2. ASSUME NEW x \in Audit!ToSet(t) PROVE x \in Audit!ToSet(s) \cup {e}
  BY <1>1, <1>2 DEF Audit!ToSet
<1>3. ASSUME NEW k \in 1..(Len(s) + 1) PROVE t[k] \in Audit!ToSet(t)
  <2>1. k \in DOMAIN t
    BY <1>1
  <2> QED
    BY <2>1 DEF Audit!ToSet
<1>4. ASSUME NEW j \in 1..Len(s) PROVE s[j] \in Audit!ToSet(t)
  <2> DEFINE k == IF j < i THEN j ELSE j + 1
  <2>1. k \in 1..(Len(s) + 1) /\ t[k] = s[j]
    BY <1>1
  <2> QED
    BY <1>3, <2>1
<1>5. Audit!ToSet(s) \subseteq Audit!ToSet(t)
  BY <1>4 DEF Audit!ToSet
<1>6. t[i] = e /\ i \in 1..(Len(s) + 1)
  BY <1>1
<1> QED
  BY <1>2, <1>3, <1>5, <1>6 DEF t

\* The set of a concatenation; and one of sequences without a common element.
LEMMA ConcatSet ==
  ASSUME NEW S, NEW s \in Seq(S), NEW t \in Seq(S)
  PROVE  /\ s \o t \in Seq(S)
         /\ Audit!ToSet(s \o t) = Audit!ToSet(s) \cup Audit!ToSet(t)
         /\ /\ Audit!IsInjective(s) /\ Audit!IsInjective(t)
            /\ Audit!ToSet(s) \cap Audit!ToSet(t) = {}
            => Audit!IsInjective(s \o t)
<1> DEFINE c == s \o t
<1>1. /\ c \in Seq(S) /\ Len(s) \in Nat /\ Len(t) \in Nat /\ Len(c) = Len(s) + Len(t)
      /\ \A i \in 1..(Len(s) + Len(t)) : c[i] = IF i <= Len(s) THEN s[i] ELSE t[i - Len(s)]
  BY ConcatProperties
<1> HIDE DEF c
<1>2. DOMAIN c = 1..(Len(s) + Len(t)) /\ DOMAIN s = 1..Len(s) /\ DOMAIN t = 1..Len(t)
  BY <1>1
<1>3. ASSUME NEW i \in DOMAIN c
      PROVE  \/ i <= Len(s) /\ i \in DOMAIN s /\ c[i] = s[i]
             \/ i > Len(s) /\ i - Len(s) \in DOMAIN t /\ c[i] = t[i - Len(s)]
  BY <1>1, <1>2
<1>4. Audit!ToSet(c) \subseteq Audit!ToSet(s) \cup Audit!ToSet(t)
  BY <1>3 DEF Audit!ToSet
<1>5. ASSUME NEW i \in DOMAIN s PROVE s[i] \in Audit!ToSet(c)
  <2>1. i \in DOMAIN c /\ c[i] = s[i]
    BY <1>1, <1>2
  <2> QED
    BY <2>1 DEF Audit!ToSet
<1>6. ASSUME NEW i \in DOMAIN t PROVE t[i] \in Audit!ToSet(c)
  <2>1. i + Len(s) \in DOMAIN c /\ c[i + Len(s)] = t[i]
    BY <1>1, <1>2
  <2> QED
    BY <2>1 DEF Audit!ToSet
<1>7. Audit!ToSet(s) \cup Audit!ToSet(t) \subseteq Audit!ToSet(c)
  BY <1>5, <1>6 DEF Audit!ToSet
<1>8. ASSUME Audit!IsInjective(s), Audit!IsInjective(t),
             Audit!ToSet(s) \cap Audit!ToSet(t) = {},
             NEW i \in DOMAIN c, NEW j \in DOMAIN c, c[i] = c[j]
      PROVE  i = j
  <2>1. ASSUME NEW k \in DOMAIN s, NEW l \in DOMAIN t PROVE s[k] # t[l]
    BY <1>8 DEF Audit!ToSet
  <2> DEFINE In(k)     == k <= Len(s) /\ k \in DOMAIN s /\ c[k] = s[k]
             Behind(k) == k > Len(s) /\ k - Len(s) \in DOMAIN t /\ c[k] = t[k - Len(s)]
  <2>2. i \in DOMAIN c /\ j \in DOMAIN c /\ c[i] = c[j] /\ i \in Nat /\ j \in Nat
    BY <1>2, <1>8
  <2>3. (In(i) \/ Behind(i)) /\ (In(j) \/ Behind(j))
    BY <1>3, <2>2
  <2>4. CASE In(i) /\ In(j)
    BY <1>8, <2>2, <2>4 DEF Audit!IsInjective
  <2>5. CASE Behind(i) /\ Behind(j)
    <3>1. i - Len(s) = j - Len(s)
      BY <1>8, <2>2, <2>5 DEF Audit!IsInjective
    <3> QED
      BY <1>1, <2>2, <3>1
  <2>6. CASE In(i) /\ Behind(j)
    BY <2>1, <2>2, <2>6
  <2>7. CASE Behind(i) /\ In(j)
    BY <2>1, <2>2, <2>7
  <2> QED
    BY <2>3, <2>4, <2>5, <2>6, <2>7
<1> QED
  BY <1>1, <1>4, <1>7, <1>8 DEF c, Audit!IsInjective

Records == Events \cup Audit!ToSet(Earlier)

AuditTypes ==
  /\ at \in [Events -> {"new", "storing", "anonymous", "posting", "waiting", "burying",
                        "logged", "lost"}]
  /\ stored \in Seq(Records) /\ memory \in Seq(Events) /\ Len(memory) <= MemoryCap
  /\ tries \in [Events -> Nat] /\ accepted \subseteq Events /\ letters \subseteq Events
  /\ replay \in [at : {"idle", "sending"}, compact : BOOLEAN, read : SUBSET Events,
                 todo : SUBSET Events, failed : SUBSET Events]

\* A post is tried as often as configured and no more.
TriesRight ==
  \A e \in Events :
    /\ at[e] \in {"new", "storing", "anonymous", "posting", "waiting"} => tries[e] <= MaxRetries
    /\ at[e] = "burying" => tries[e] = MaxRetries + 1

LettersRead ==
  replay.at = "sending" => replay.read \subseteq replay.todo \cup replay.failed \cup accepted

StoredOnce ==
  /\ Audit!IsInjective(stored)
  /\ \A e \in Events : at[e] \in {"new", "storing", "anonymous"} => e \notin Audit!ToSet(stored)

\* What is in the database up to a place, and behind it.
Before(p) == {stored[i] : i \in 1..p}
After(p)  == {stored[i] : i \in (p + 1)..Len(stored)}

ReadUpTo(p) ==
  /\ Audit!ToSet(reader.seen) \subseteq Before(p)
  /\ reader.had \subseteq Audit!ToSet(reader.seen) \cup After(p)

ReaderTyped ==
  reader \in [at : {"idle", "reading", "done"}, cursor : Records \cup {None},
             seen : Seq(Records), had : SUBSET Records]

ReaderRight ==
  /\ ReaderTyped
  /\ reader.at = "idle" => reader.cursor = None /\ reader.seen = <<>>
  /\ reader.at = "reading" => \E p \in 1..Len(stored) : stored[p] = reader.cursor /\ ReadUpTo(p)

EventsInv == TriesRight /\ LettersRead /\ Audit!EventsKept
PagesInv  == StoredOnce /\ ReaderRight /\ Audit!PagesComplete

\* What the log assumes of its constants.
LEMMA AuditConstants ==
  /\ MaxRetries \in Nat /\ MemoryCap \in Nat \ {0} /\ PageLimit \in Nat \ {0}
  /\ Earlier \in Seq(Audit!ToSet(Earlier)) /\ Audit!IsInjective(Earlier)
  /\ Audit!ToSet(Earlier) \cap Events = {} /\ None \notin Records
  BY ServicesAssumption DEF Audit!AuditAssumption, Records

\* The newest event is in memory; an older one is, or memory is full without it.
LEMMA MemoryPushed ==
  ASSUME AuditTypes, NEW e \in Events, NEW m, m = Audit!PushMemory(e)
  PROVE  /\ m \in Seq(Events) /\ Len(m) <= MemoryCap /\ Len(m) \in Nat \ {0} /\ m[Len(m)] = e
         /\ e \in Audit!ToSet(m)
         /\ \A f \in Audit!ToSet(memory) : f \in Audit!ToSet(m) \/ Len(m) = MemoryCap
         /\ Len(memory) = MemoryCap => Len(m) = MemoryCap
<1> DEFINE all == Append(memory, e)
<1>1. memory \in Seq(Events) /\ Len(memory) \in Nat /\ Len(memory) <= MemoryCap
      /\ MemoryCap \in Nat \ {0}
  BY AuditConstants DEF AuditTypes
<1>2. /\ all \in Seq(Events) /\ Len(all) = Len(memory) + 1 /\ all[Len(memory) + 1] = e
      /\ \A i \in 1..Len(memory) : all[i] = memory[i]
  BY <1>1, AppendProperties
<1>3. m = IF Len(all) > MemoryCap THEN Tail(all) ELSE all
  BY DEF Audit!PushMemory
<1> HIDE DEF all
<1>4. CASE Len(all) > MemoryCap
  <2>1. all # <<>> /\ m = Tail(all) /\ Len(memory) = MemoryCap
    BY <1>1, <1>2, <1>3, <1>4
  <2>2. /\ m \in Seq(Events) /\ Len(m) = Len(all) - 1
        /\ \A i \in 1..Len(m) : m[i] = all[i + 1]
    BY <1>2, <2>1, HeadTailProperties
  <2>3. Len(m) = MemoryCap /\ m[Len(m)] = e /\ Len(m) \in DOMAIN m
    BY <1>1, <1>2, <2>1, <2>2
  <2> QED
    BY <1>1, <2>2, <2>3 DEF Audit!ToSet
<1>5. CASE ~ Len(all) > MemoryCap
  <2>1. m = all /\ Len(memory) < MemoryCap
    BY <1>1, <1>2, <1>3, <1>5
  <2>2. Len(m) = Len(memory) + 1 /\ m[Len(m)] = e /\ Len(m) \in DOMAIN m
    BY <1>1, <1>2, <2>1
  <2>3. \A i \in DOMAIN memory : i \in DOMAIN m /\ m[i] = memory[i]
    BY <1>1, <1>2, <2>1
  <2>4. e \in Audit!ToSet(m) /\ \A f \in Audit!ToSet(memory) : f \in Audit!ToSet(m)
    BY <2>2, <2>3 DEF Audit!ToSet
  <2> QED
    BY <1>1, <1>2, <2>1, <2>2, <2>4
<1> QED
  BY <1>4, <1>5

\* The log begins as the invariants say.
LEMMA AuditInit == Audit!Init => AuditTypes /\ EventsInv /\ PagesInv
<1> SUFFICES ASSUME Audit!Init PROVE AuditTypes /\ EventsInv /\ PagesInv
  OBVIOUS
<1>1. /\ at = [e \in Events |-> "new"] /\ stored = Earlier /\ memory = <<>>
      /\ tries = [e \in Events |-> 0] /\ accepted = {} /\ letters = {} /\ overwritten = {}
      /\ replay = [at |-> "idle", compact |-> FALSE, read |-> {}, todo |-> {}, failed |-> {}]
      /\ reader = [at |-> "idle", cursor |-> None, seen |-> <<>>, had |-> {}]
  BY DEF Audit!Init, Audit!NoReplay
<1>2. /\ MaxRetries \in Nat /\ MemoryCap \in Nat \ {0} /\ stored \in Seq(Records)
      /\ Audit!IsInjective(stored) /\ Audit!ToSet(stored) \cap Events = {}
  <2>1. Audit!ToSet(Earlier) \subseteq Records
    BY DEF Records
  <2>2. Earlier \in Seq(Audit!ToSet(Earlier))
    BY AuditConstants
  <2>3. Earlier \in Seq(Records)
    BY <2>1, <2>2
  <2> QED
    BY <1>1, <2>3, AuditConstants
<1>3. /\ reader.at = "idle" /\ reader.cursor = None /\ reader.seen = <<>> /\ replay.at = "idle"
  BY <1>1
<1>4. replay \in [at : {"idle", "sending"}, compact : BOOLEAN, read : SUBSET Events,
                 todo : SUBSET Events, failed : SUBSET Events]
  BY <1>1, Zenon
<1>5. AuditTypes
  BY <1>1, <1>2, <1>4 DEF AuditTypes
<1>6. EventsInv
  BY <1>1, <1>2, <1>3 DEF EventsInv, TriesRight, LettersRead, Audit!EventsKept
<1>7. ReaderTyped
  BY <1>1 DEF ReaderTyped
<1>8. PagesInv
  BY <1>1, <1>2, <1>3, <1>7
     DEF PagesInv, StoredOnce, ReaderRight, Audit!PagesComplete, Audit!IsInjective
<1> QED
  BY <1>5, <1>6, <1>8

\* What EventsKept asks of an event, of what it looks at alone.
Held(e) ==
  /\ at[e] = "logged" =>
       \/ e \in accepted
       \/ tries[e] = MaxRetries + 1 /\ e \in letters \cup overwritten
  /\ at[e] \in {"posting", "waiting", "burying"} =>
       \/ e \in Audit!ToSet(stored) \cup Audit!ToSet(memory)
       \/ Len(memory) = MemoryCap /\ memory[MemoryCap] # e

Tried(e) ==
  /\ at[e] \in {"new", "storing", "anonymous", "posting", "waiting"} => tries[e] <= MaxRetries
  /\ at[e] = "burying" => tries[e] = MaxRetries + 1

\* The invariant of the events, event by event.
LEMMA EventsEach ==
  /\ EventsInv <=> LettersRead /\ \A e \in Events : Held(e) /\ Tried(e)
  /\ EventsInv' <=> LettersRead' /\ \A e \in Events : Held(e)' /\ Tried(e)'
  BY DEF EventsInv, TriesRight, Audit!EventsKept, Held, Tried

\* log() goes on with an event without storing it or trying it.
LEMMA LogMoves ==
  ASSUME AuditTypes, EventsInv, NEW e \in Events,
         \/ Audit!Log(e) \/ Audit!UserUnknown(e) \/ Audit!PostSucceeds(e) \/ Audit!Backoff(e)
  PROVE  AuditTypes' /\ EventsInv'
<1>1. /\ UNCHANGED <<stored, memory, tries, accepted, letters, replay, overwritten>>
      /\ \/ Audit!Moves(e, "new", "storing") \/ Audit!Moves(e, "storing", "anonymous")
         \/ Audit!Moves(e, "posting", "logged") /\ e \in accepted
         \/ Audit!Moves(e, "waiting", "posting")
  BY DEF Audit!Log, Audit!UserUnknown, Audit!PostSucceeds, Audit!Backoff
<1>2. /\ at' \in [Events -> {"new", "storing", "anonymous", "posting", "waiting", "burying",
                           "logged", "lost"}]
      /\ \A f \in Events : f # e => at'[f] = at[f]
      /\ \/ at[e] = "new" /\ at'[e] = "storing"
         \/ at[e] = "storing" /\ at'[e] = "anonymous"
         \/ at[e] = "posting" /\ at'[e] = "logged" /\ e \in accepted
         \/ at[e] = "waiting" /\ at'[e] = "posting"
  BY <1>1 DEF Audit!Moves, AuditTypes
<1>3. AuditTypes'
  BY <1>1, <1>2 DEF AuditTypes
<1>4. \A f \in Events : Held(f)' /\ Tried(f)'
  BY <1>1, <1>2, EventsEach DEF Held, Tried
<1>5. LettersRead'
  BY <1>1, EventsEach DEF LettersRead
<1> QED
  BY <1>3, <1>4, <1>5, EventsEach

\* The database takes an event: it is there, and nothing left it.
LEMMA StoredKeeps ==
  ASSUME AuditTypes, EventsInv, NEW e \in Events, Audit!Stored(e)
  PROVE  /\ AuditTypes' /\ EventsInv'
         /\ e \in Events /\ at[e] \in {"storing", "anonymous"}
         /\ at' = [at EXCEPT ![e] = "posting"]
         /\ \E i \in 1..(Len(stored) + 1) : stored' = Audit!InsertAt(stored, i, e)
<1>1. /\ UNCHANGED <<memory, tries, accepted, letters, replay, overwritten>>
      /\ at[e] \in {"storing", "anonymous"} /\ at' = [at EXCEPT ![e] = "posting"]
      /\ \E i \in 1..(Len(stored) + 1) : stored' = Audit!InsertAt(stored, i, e)
  BY DEF Audit!Stored, Audit!Moves
<1>2. /\ at' \in [Events -> {"new", "storing", "anonymous", "posting", "waiting", "burying",
                           "logged", "lost"}]
      /\ at'[e] = "posting" /\ \A f \in Events : f # e => at'[f] = at[f]
  BY <1>1 DEF AuditTypes
<1>3. stored' \in Seq(Records) /\ Audit!ToSet(stored') = Audit!ToSet(stored) \cup {e}
  <2>1. PICK i \in 1..(Len(stored) + 1) : stored' = Audit!InsertAt(stored, i, e)
    BY <1>1
  <2>2. stored \in Seq(Records) /\ e \in Records
    BY DEF AuditTypes, Records
  <2> QED
    BY <2>1, <2>2, InsertFacts, InsertSet
<1>4. AuditTypes'
  BY <1>1, <1>2, <1>3 DEF AuditTypes
<1>5. \A f \in Events : Held(f)' /\ Tried(f)'
  BY <1>1, <1>2, <1>3, EventsEach DEF Held, Tried
<1>6. LettersRead'
  BY <1>1, EventsEach DEF LettersRead
<1> QED
  BY <1>1, <1>4, <1>5, <1>6, EventsEach

\* The database fails: the event is the newest in memory.
LEMMA StoreFailsKeeps ==
  ASSUME AuditTypes, EventsInv, NEW e \in Events, Audit!StoreFails(e)
  PROVE  AuditTypes' /\ EventsInv'
<1>1. /\ UNCHANGED <<stored, tries, accepted, letters, replay, overwritten>>
      /\ at[e] \in {"storing", "anonymous"} /\ at' = [at EXCEPT ![e] = "posting"]
      /\ memory' = Audit!PushMemory(e)
  BY DEF Audit!StoreFails, Audit!Moves
<1>2. /\ at' \in [Events -> {"new", "storing", "anonymous", "posting", "waiting", "burying",
                           "logged", "lost"}]
      /\ at'[e] = "posting" /\ \A f \in Events : f # e => at'[f] = at[f]
  BY <1>1 DEF AuditTypes
<1>3. /\ memory' \in Seq(Events) /\ Len(memory') <= MemoryCap /\ memory'[Len(memory')] = e
      /\ e \in Audit!ToSet(memory')
      /\ \A f \in Audit!ToSet(memory) : f \in Audit!ToSet(memory') \/ Len(memory') = MemoryCap
      /\ Len(memory) = MemoryCap => Len(memory') = MemoryCap
  BY <1>1, MemoryPushed
<1>4. AuditTypes'
  BY <1>1, <1>2, <1>3 DEF AuditTypes
<1>5. ASSUME NEW f \in Events PROVE Held(f)' /\ Tried(f)'
  <2>1. Held(f) /\ Tried(f)
    BY EventsEach
  <2>2. CASE f = e
    BY <1>1, <1>2, <1>3, <2>1, <2>2 DEF Held, Tried
  <2>3. CASE f # e
    BY <1>1, <1>2, <1>3, <2>1, <2>3 DEF Held, Tried
  <2> QED
    BY <2>2, <2>3
<1>6. LettersRead'
  BY <1>1, EventsEach DEF LettersRead
<1> QED
  BY <1>4, <1>5, <1>6, EventsEach

\* A post fails: the event waits for another one, or it was the last.
LEMMA PostFailsKeeps ==
  ASSUME AuditTypes, EventsInv, NEW e \in Events, Audit!PostFails(e)
  PROVE  AuditTypes' /\ EventsInv'
<1> DEFINE to == IF tries[e] + 1 > MaxRetries THEN "burying" ELSE "waiting"
<1>1. /\ UNCHANGED <<stored, memory, accepted, letters, replay, overwritten>>
      /\ at[e] = "posting" /\ at' = [at EXCEPT ![e] = to]
      /\ tries' = [tries EXCEPT ![e] = tries[e] + 1]
  BY DEF Audit!PostFails, Audit!LastTry, Audit!Moves
<1>2. /\ at' \in [Events -> {"new", "storing", "anonymous", "posting", "waiting", "burying",
                           "logged", "lost"}]
      /\ at'[e] = to /\ \A f \in Events : f # e => at'[f] = at[f]
  BY <1>1 DEF AuditTypes
<1>3. /\ tries \in [Events -> Nat] /\ tries' \in [Events -> Nat]
      /\ tries'[e] = tries[e] + 1 /\ \A f \in Events : f # e => tries'[f] = tries[f]
  BY <1>1 DEF AuditTypes
<1>4. AuditTypes'
  BY <1>1, <1>2, <1>3 DEF AuditTypes
<1>5. ASSUME NEW f \in Events PROVE Held(f)' /\ Tried(f)'
  <2>1. Held(f) /\ Tried(f)
    BY EventsEach
  <2>2. CASE f = e
    <3>1. tries[e] \in Nat /\ MaxRetries \in Nat /\ tries[e] <= MaxRetries
      BY <1>1, <1>3, <2>1, <2>2, AuditConstants DEF Tried
    <3> QED
      BY <1>1, <1>2, <1>3, <2>1, <2>2, <3>1 DEF Held, Tried
  <2>3. CASE f # e
    BY <1>1, <1>2, <1>3, <2>1, <2>3 DEF Held, Tried
  <2> QED
    BY <2>2, <2>3
<1>6. LettersRead'
  BY <1>1, EventsEach DEF LettersRead
<1> QED
  BY <1>4, <1>5, <1>6, EventsEach

\* What the webhook never took goes to the file; the receiver takes an event.
LEMMA SinksKeep ==
  ASSUME AuditTypes, EventsInv, NEW e \in Events, Audit!Receives(e) \/ Audit!DeadLetter(e)
  PROVE  AuditTypes' /\ EventsInv'
<1>1. CASE Audit!Receives(e)
  <2>1. /\ accepted' = accepted \cup {e}
        /\ UNCHANGED <<at, stored, memory, tries, letters, replay, overwritten>>
    BY <1>1 DEF Audit!Receives
  <2>2. AuditTypes'
    BY <2>1 DEF AuditTypes
  <2>3. \A f \in Events : Held(f)' /\ Tried(f)'
    BY <2>1, EventsEach DEF Held, Tried
  <2>4. LettersRead'
    BY <2>1, EventsEach DEF LettersRead
  <2> QED
    BY <2>2, <2>3, <2>4, EventsEach
<1>2. CASE Audit!DeadLetter(e)
  <2>1. /\ at[e] = "burying" /\ at' = [at EXCEPT ![e] = "logged"] /\ letters' = letters \cup {e}
        /\ UNCHANGED <<stored, memory, tries, accepted, replay, overwritten>>
    BY <1>2 DEF Audit!DeadLetter, Audit!Moves
  <2>2. /\ at' \in [Events -> {"new", "storing", "anonymous", "posting", "waiting", "burying",
                             "logged", "lost"}]
        /\ at'[e] = "logged" /\ \A f \in Events : f # e => at'[f] = at[f]
    BY <2>1 DEF AuditTypes
  <2>3. AuditTypes'
    BY <2>1, <2>2 DEF AuditTypes
  <2>4. \A f \in Events : Held(f)' /\ Tried(f)'
    BY <2>1, <2>2, EventsEach DEF Held, Tried
  <2>5. LettersRead'
    BY <2>1, EventsEach DEF LettersRead
  <2> QED
    BY <2>3, <2>4, <2>5, EventsEach
<1> QED
  BY <1>1, <1>2

\* A crash: no event is under way, and memory is empty.
LEMMA CrashKeeps ==
  ASSUME AuditTypes, EventsInv, Audit!Crash
  PROVE  AuditTypes' /\ EventsInv'
<1>1. /\ UNCHANGED <<stored, tries, accepted, letters, replay, overwritten>> /\ memory' = <<>>
      /\ at' = [e \in Events |-> IF at[e] \in {"new", "logged"} THEN at[e] ELSE "lost"]
  BY DEF Audit!Crash
<1>2. /\ at' \in [Events -> {"new", "storing", "anonymous", "posting", "waiting", "burying",
                           "logged", "lost"}]
      /\ \A f \in Events : \/ at'[f] = "lost"
                           \/ at'[f] = at[f] /\ at[f] \in {"new", "logged"}
  BY <1>1 DEF AuditTypes
<1>3. memory' \in Seq(Events) /\ Len(memory') <= MemoryCap
  BY <1>1, AuditConstants
<1>4. AuditTypes'
  BY <1>1, <1>2, <1>3 DEF AuditTypes
<1>5. \A f \in Events : Held(f)' /\ Tried(f)'
  BY <1>1, <1>2, EventsEach DEF Held, Tried
<1>6. LettersRead'
  BY <1>1, EventsEach DEF LettersRead
<1> QED
  BY <1>4, <1>5, <1>6, EventsEach

Replays == [at : {"idle", "sending"}, compact : BOOLEAN, read : SUBSET Events,
            todo : SUBSET Events, failed : SUBSET Events]

\* A replay reads the file, sends a letter of it, or is killed.
LEMMA ReplayKeeps ==
  ASSUME AuditTypes, EventsInv,
         \/ \E compact \in BOOLEAN : Audit!ReplayReads(compact)
         \/ \E e \in Events : Audit!ReplayDelivers(e) \/ Audit!ReplayFails(e)
         \/ Audit!ReplayKilled
  PROVE  AuditTypes' /\ EventsInv'
<1>1. replay \in Replays /\ LettersRead /\ letters \in SUBSET Events /\ accepted \in SUBSET Events
  BY EventsEach DEF AuditTypes, Replays
<1>2. /\ UNCHANGED <<at, stored, memory, tries, letters, overwritten>>
      /\ accepted \subseteq accepted' /\ accepted' \in SUBSET Events
  BY <1>1 DEF Audit!ReplayReads, Audit!ReplayDelivers, Audit!ReplayFails, Audit!ReplayKilled
<1>3. replay' \in Replays /\ LettersRead'
  <2>1. CASE \E compact \in BOOLEAN : Audit!ReplayReads(compact)
    <3>1. PICK compact \in BOOLEAN :
            replay' = [at |-> "sending", compact |-> compact, read |-> letters,
                       todo |-> letters, failed |-> {}]
      BY <2>1 DEF Audit!ReplayReads
    <3>2. replay' \in Replays
      BY <1>1, <3>1, Zenon DEF Replays
    <3>3. replay'.read = letters /\ replay'.todo = letters
      BY <3>1
    <3> QED
      BY <3>2, <3>3 DEF LettersRead
  <2>2. CASE \E e \in Events : Audit!ReplayDelivers(e)
    <3>1. PICK e \in Events : /\ replay' = [replay EXCEPT !.todo = replay.todo \ {e}]
                             /\ accepted' = accepted \cup {e}
      BY <2>2 DEF Audit!ReplayDelivers
    <3>2. /\ replay' \in Replays
          /\ replay'.at = replay.at /\ replay'.read = replay.read
          /\ replay'.failed = replay.failed /\ replay'.todo = replay.todo \ {e}
      BY <1>1, <3>1 DEF Replays
    <3> QED
      BY <1>1, <3>1, <3>2 DEF LettersRead
  <2>3. CASE \E e \in Events : Audit!ReplayFails(e)
    <3>1. PICK e \in Events : /\ accepted' = accepted
                             /\ replay' = [replay EXCEPT !.todo = replay.todo \ {e},
                                                        !.failed = replay.failed \cup {e}]
      BY <2>3 DEF Audit!ReplayFails
    <3>2. /\ replay' \in Replays
          /\ replay'.at = replay.at /\ replay'.read = replay.read
          /\ replay'.failed = replay.failed \cup {e} /\ replay'.todo = replay.todo \ {e}
      BY <1>1, <3>1 DEF Replays
    <3> QED
      BY <1>1, <3>1, <3>2 DEF LettersRead
  <2>4. CASE Audit!ReplayKilled
    <3>1. replay' = [at |-> "idle", compact |-> FALSE, read |-> {}, todo |-> {}, failed |-> {}]
      BY <2>4 DEF Audit!ReplayKilled, Audit!NoReplay
    <3>2. replay' \in Replays
      BY <3>1, Zenon DEF Replays
    <3> QED
      BY <3>1, <3>2 DEF LettersRead
  <2> QED
    BY <2>1, <2>2, <2>3, <2>4
<1>4. AuditTypes'
  BY <1>2, <1>3 DEF AuditTypes, Replays
<1>5. \A f \in Events : Held(f)' /\ Tried(f)'
  BY <1>2, EventsEach DEF Held, Tried
<1> QED
  BY <1>3, <1>4, <1>5, EventsEach

\* A replay ends: what it cuts off was accepted, or is written over.
LEMMA ReplayEndsKeeps ==
  ASSUME AuditTypes, EventsInv, Audit!ReplayEnds
  PROVE  AuditTypes' /\ EventsInv'
<1>1. replay \in Replays /\ LettersRead /\ letters \in SUBSET Events
  BY EventsEach DEF AuditTypes, Replays
<1>2. /\ replay.at = "sending" /\ replay.todo = {}
      /\ letters' = IF replay.compact THEN replay.failed ELSE letters
      /\ overwritten' = overwritten \cup (letters \ (letters' \cup replay.read))
      /\ replay' = [at |-> "idle", compact |-> FALSE, read |-> {}, todo |-> {}, failed |-> {}]
      /\ UNCHANGED <<at, stored, memory, tries, accepted>>
  BY DEF Audit!ReplayEnds, Audit!NoReplay
<1>3. letters' \in SUBSET Events /\ replay.read \subseteq replay.failed \cup accepted
  BY <1>1, <1>2 DEF Replays, LettersRead
<1>4. \A f \in letters : f \in letters' \/ f \in overwritten' \/ f \in accepted
  BY <1>1, <1>2, <1>3 DEF Replays
<1>5. replay' \in Replays /\ LettersRead'
  <2>1. replay' \in Replays
    BY <1>2, Zenon DEF Replays
  <2> QED
    BY <1>2, <2>1 DEF LettersRead
<1>6. AuditTypes'
  BY <1>2, <1>3, <1>5 DEF AuditTypes, Replays
<1>7. overwritten \subseteq overwritten'
  BY <1>2
<1>8. \A f \in Events : Held(f)' /\ Tried(f)'
  BY <1>2, <1>4, <1>7, EventsEach DEF Held, Tried
<1> QED
  BY <1>5, <1>6, <1>8, EventsEach

\* Every step of the log keeps what is said of its events.
LEMMA EventsStep ==
  ASSUME AuditTypes, EventsInv, [Audit!Next]_(Audit!vars)
  PROVE  AuditTypes' /\ EventsInv'
<1>1. CASE Audit!AuditPage \/ UNCHANGED Audit!vars
  <2>1. UNCHANGED <<at, stored, memory, tries, accepted, letters, replay, overwritten>>
    BY <1>1 DEF Audit!AuditPage, Audit!vars
  <2>2. AuditTypes'
    BY <2>1 DEF AuditTypes
  <2>3. \A f \in Events : Held(f)' /\ Tried(f)'
    BY <2>1, EventsEach DEF Held, Tried
  <2>4. LettersRead'
    BY <2>1, EventsEach DEF LettersRead
  <2> QED
    BY <2>2, <2>3, <2>4, EventsEach
<1>2. ASSUME NEW e \in Events,
             \/ Audit!Log(e) \/ Audit!Stored(e) \/ Audit!UserUnknown(e) \/ Audit!StoreFails(e)
             \/ Audit!Receives(e) \/ Audit!PostSucceeds(e) \/ Audit!PostFails(e)
             \/ Audit!Backoff(e) \/ Audit!DeadLetter(e)
      PROVE  AuditTypes' /\ EventsInv'
  <2>1. CASE Audit!Log(e) \/ Audit!UserUnknown(e) \/ Audit!PostSucceeds(e) \/ Audit!Backoff(e)
    BY <2>1, LogMoves
  <2>2. CASE Audit!Stored(e)
    BY <2>2, StoredKeeps
  <2>3. CASE Audit!StoreFails(e)
    BY <2>3, StoreFailsKeeps
  <2>4. CASE Audit!PostFails(e)
    BY <2>4, PostFailsKeeps
  <2>5. CASE Audit!Receives(e) \/ Audit!DeadLetter(e)
    BY <2>5, SinksKeep
  <2> QED
    BY <1>2, <2>1, <2>2, <2>3, <2>4, <2>5
<1>3. CASE Audit!Crash
  BY <1>3, CrashKeeps
<1>4. CASE \/ \E compact \in BOOLEAN : Audit!ReplayReads(compact)
           \/ \E e \in Events : Audit!ReplayDelivers(e) \/ Audit!ReplayFails(e)
           \/ Audit!ReplayKilled
  BY <1>4, ReplayKeeps
<1>5. CASE Audit!ReplayEnds
  BY <1>5, ReplayEndsKeeps
<1>6. CASE Audit!Next
  BY <1>1, <1>2, <1>3, <1>4, <1>5, <1>6 DEF Audit!Next
<1> QED
  BY <1>1, <1>6

\* An event that log() is done with is not lost, and one on its way to the sinks is in
\* the database, or in memory until newer ones push it out.
THEOREM ServicesEventsKept == Spec => []EventsKept
<1>1. Audit!Init => AuditTypes /\ EventsInv
  BY AuditInit
<1>2. (AuditTypes /\ EventsInv) /\ [Audit!Next]_(Audit!vars) => (AuditTypes /\ EventsInv)'
  BY EventsStep
<1>3. AuditTypes /\ EventsInv => EventsKept
  BY DEF EventsInv, EventsKept
<1> QED
  BY <1>1, <1>2, <1>3, AuditSpec, PTL DEF Audit!Spec

\* What is behind the cursor, for a cursor in the database.
LEMMA RestFound ==
  ASSUME AuditTypes, StoredOnce, NEW p \in 1..Len(stored), stored[p] = reader.cursor,
         reader.cursor # None
  PROVE  Audit!Rest = SubSeq(stored, p + 1, Len(stored))
<1>1. Len(stored) \in Nat /\ DOMAIN stored = 1..Len(stored)
  BY DEF AuditTypes
<1>2. {i \in 1..Len(stored) : stored[i] = reader.cursor} = {p}
  BY <1>1 DEF StoredOnce, Audit!IsInjective
<1>3. Audit!Min({p}) = p
  BY DEF Audit!Min
<1>4. Audit!SelectInSeq(stored, LAMBDA e : e = reader.cursor) = p
  BY <1>2, <1>3 DEF Audit!SelectInSeq
<1> QED
  BY <1>4 DEF Audit!Rest

\* Where the reader is: what he saw is up to there, what he has to see is behind.
LEMMA ReaderPlace ==
  ASSUME AuditTypes, PagesInv, reader.at # "done",
         NEW had, had = IF reader.at = "idle" THEN Audit!ToSet(stored) ELSE reader.had
  PROVE  \E p \in 0..Len(stored) :
           /\ Audit!Rest = SubSeq(stored, p + 1, Len(stored))
           /\ Audit!ToSet(reader.seen) \subseteq Before(p)
           /\ had \subseteq Audit!ToSet(reader.seen) \cup After(p)
<1>1. /\ stored \in Seq(Records) /\ Len(stored) \in Nat /\ DOMAIN stored = 1..Len(stored)
      /\ ReaderRight /\ StoredOnce /\ reader.at \in {"idle", "reading"}
  BY DEF AuditTypes, PagesInv, ReaderRight, ReaderTyped
<1>2. CASE reader.at = "idle"
  <2>1. reader.cursor = None /\ reader.seen = <<>> /\ had = Audit!ToSet(stored)
    BY <1>1, <1>2 DEF ReaderRight
  <2>2. Audit!Rest = stored /\ SubSeq(stored, 0 + 1, Len(stored)) = stored
    <3>1. SubSeq(stored, 1, Len(stored)) = stored
      BY <1>1
    <3> QED
      BY <2>1, <3>1 DEF Audit!Rest
  <2>3. Audit!ToSet(reader.seen) = {} /\ had = After(0)
    BY <1>1, <2>1 DEF Audit!ToSet, After
  <2>4. 0 \in 0..Len(stored)
    BY <1>1
  <2> QED
    BY <2>2, <2>3, <2>4
<1>3. CASE reader.at = "reading"
  <2>1. PICK p \in 1..Len(stored) : stored[p] = reader.cursor /\ ReadUpTo(p)
    BY <1>1, <1>3 DEF ReaderRight
  <2>2. stored[p] \in Records /\ None \notin Records
    BY <1>1, AuditConstants
  <2>3. Audit!Rest = SubSeq(stored, p + 1, Len(stored))
    BY <1>1, <2>1, <2>2, RestFound
  <2>4. had = reader.had /\ p \in 0..Len(stored)
    BY <1>1, <1>3
  <2> QED
    BY <2>1, <2>3, <2>4 DEF ReadUpTo
<1> QED
  BY <1>1, <1>2, <1>3

\* A page: the next events in the database, none of which the reader has seen.
LEMMA PageKeeps ==
  ASSUME AuditTypes, PagesInv, Audit!AuditPage
  PROVE  PagesInv'
<1> DEFINE had  == IF reader.at = "idle" THEN Audit!ToSet(stored) ELSE reader.had
           rest == Audit!Rest
           page == SubSeq(rest, 1, IF Len(rest) < PageLimit THEN Len(rest) ELSE PageLimit)
           more == Len(rest) > PageLimit
<1>1. /\ UNCHANGED <<at, stored>> /\ reader.at # "done"
      /\ reader' = [at |-> IF more THEN "reading" ELSE "done",
                    cursor |-> IF more THEN Audit!Last(page) ELSE None,
                    seen |-> reader.seen \o page, had |-> had]
  BY DEF Audit!AuditPage
<1>2. /\ stored \in Seq(Records) /\ Len(stored) \in Nat /\ DOMAIN stored = 1..Len(stored)
      /\ \A i \in 1..Len(stored) : stored[i] \in Records
      /\ StoredOnce /\ reader.seen \in Seq(Records) /\ Audit!IsInjective(reader.seen)
      /\ had \subseteq Records /\ PageLimit \in Nat \ {0}
  <2>1. /\ stored \in Seq(Records) /\ Len(stored) \in Nat /\ DOMAIN stored = 1..Len(stored)
        /\ \A i \in 1..Len(stored) : stored[i] \in Records
    BY DEF AuditTypes
  <2>2. /\ StoredOnce /\ reader.seen \in Seq(Records) /\ Audit!IsInjective(reader.seen)
        /\ reader.had \subseteq Records
    BY DEF PagesInv, ReaderRight, ReaderTyped, Audit!PagesComplete
  <2>3. Audit!ToSet(stored) \subseteq Records
    BY <2>1 DEF Audit!ToSet
  <2> QED
    BY <2>1, <2>2, <2>3, AuditConstants
<1>3. PICK p \in 0..Len(stored) :
        /\ rest = SubSeq(stored, p + 1, Len(stored))
        /\ Audit!ToSet(reader.seen) \subseteq Before(p)
        /\ had \subseteq Audit!ToSet(reader.seen) \cup After(p)
  BY <1>1, ReaderPlace
<1> HIDE DEF had
<1>4. /\ rest \in Seq(Records) /\ Len(rest) = Len(stored) - p
      /\ \A k \in 1..(Len(stored) - p) : rest[k] = stored[p + k]
  <2>1. \A i \in (p + 1)..Len(stored) : stored[i] \in Records
    BY <1>2
  <2>2. p + 1 \in Int /\ Len(stored) \in Int
    BY <1>2
  <2>3. LET r == SubSeq(stored, p + 1, Len(stored))
        IN /\ r \in Seq(Records)
           /\ Len(r) = IF p + 1 <= Len(stored) THEN Len(stored) - (p + 1) + 1 ELSE 0
           /\ \A k \in 1..(Len(stored) - (p + 1) + 1) : r[k] = stored[(p + 1) + k - 1]
    BY <2>1, <2>2, SubSeqProperties
  <2> HIDE DEF rest
  <2> QED
    BY <1>2, <1>3, <2>3
<1> HIDE DEF rest
<1> DEFINE n == IF Len(stored) - p < PageLimit THEN Len(stored) - p ELSE PageLimit
<1>5. /\ page \in Seq(Records) /\ Len(page) = n /\ n \in 0..(Len(stored) - p)
      /\ \A k \in 1..n : page[k] = stored[p + k]
      /\ more => n \in 1..(Len(stored) - p)
      /\ ~ more => n = Len(stored) - p
  <2>1. n \in 0..(Len(stored) - p) /\ page = SubSeq(rest, 1, n)
    BY <1>2, <1>4
  <2> HIDE DEF n, page
  <2>2. \A i \in 1..n : rest[i] \in Records
    BY <1>2, <1>4, <2>1
  <2>3. /\ page \in Seq(Records) /\ Len(page) = n
        /\ \A k \in 1..n : page[k] = rest[k]
    BY <1>2, <2>1, <2>2, SubSeqProperties
  <2>4. \A k \in 1..n : page[k] = stored[p + k]
    BY <1>2, <1>4, <2>1, <2>3
  <2>5. (more => n \in 1..(Len(stored) - p)) /\ (~ more => n = Len(stored) - p)
    <3>1. more <=> Len(stored) - p > PageLimit
      BY <1>4
    <3>2. Len(stored) - p \in Nat /\ PageLimit \in Nat \ {0}
      BY <1>2
    <3> HIDE DEF more
    <3> QED
      BY <3>1, <3>2 DEF n
  <2> HIDE DEF more
  <2> QED
    BY <2>1, <2>3, <2>4, <2>5
<1> HIDE DEF page, n, more
<1>5a. /\ p \in Nat /\ n \in Nat /\ p + n \in Nat /\ p + n <= Len(stored) /\ Len(stored) \in Nat
      /\ \A k \in 1..n : p + k \in DOMAIN stored /\ p + k > p
      /\ \A i \in 1..p : i \in DOMAIN stored
  <2>1. p \in Nat /\ p <= Len(stored) /\ Len(stored) \in Nat /\ DOMAIN stored = 1..Len(stored)
    BY <1>2
  <2>2. n \in 0..(Len(stored) - p)
    BY <1>5
  <2> QED
    BY <2>1, <2>2
<1>6. Audit!ToSet(page) = {stored[p + k] : k \in 1..n} /\ DOMAIN page = 1..n
  <2>1. DOMAIN page = 1..n
    BY <1>5
  <2> QED
    BY <1>5, <2>1 DEF Audit!ToSet
<1>7. Audit!IsInjective(page)
  <2> SUFFICES ASSUME NEW i \in 1..n, NEW j \in 1..n, page[i] = page[j] PROVE i = j
    BY <1>6 DEF Audit!IsInjective
  <2>1. p + i \in DOMAIN stored /\ p + j \in DOMAIN stored /\ stored[p + i] = stored[p + j]
    BY <1>5, <1>5a
  <2>2. p + i = p + j
    BY <1>2, <2>1 DEF StoredOnce, Audit!IsInjective
  <2> QED
    BY <1>5a, <2>2
<1>8. Audit!ToSet(reader.seen) \cap Audit!ToSet(page) = {}
  <2> SUFFICES ASSUME NEW i \in 1..p, NEW k \in 1..n, stored[i] = stored[p + k] PROVE FALSE
    BY <1>3, <1>6 DEF Before
  <2>1. i \in DOMAIN stored /\ p + k \in DOMAIN stored /\ i # p + k
    BY <1>5a
  <2> QED
    BY <1>2, <2>1 DEF StoredOnce, Audit!IsInjective
<1>9. /\ reader'.seen \in Seq(Records) /\ Audit!IsInjective(reader'.seen)
      /\ Audit!ToSet(reader'.seen) = Audit!ToSet(reader.seen) \cup Audit!ToSet(page)
  <2> DEFINE c == reader.seen \o page
  <2>1. reader'.seen = c
    BY <1>1
  <2>2. page \in Seq(Records) /\ reader.seen \in Seq(Records)
    BY <1>2, <1>5
  <2>3. /\ c \in Seq(Records) /\ Audit!ToSet(c) = Audit!ToSet(reader.seen) \cup Audit!ToSet(page)
        /\ /\ Audit!IsInjective(reader.seen) /\ Audit!IsInjective(page)
           /\ Audit!ToSet(reader.seen) \cap Audit!ToSet(page) = {}
           => Audit!IsInjective(c)
    BY <2>2, ConcatSet
  <2> HIDE DEF c
  <2> QED
    BY <1>2, <1>7, <1>8, <2>1, <2>3
<1>10. /\ reader'.at = IF more THEN "reading" ELSE "done"
       /\ reader'.cursor = IF more THEN Audit!Last(page) ELSE None
       /\ reader'.had = had
  BY <1>1
<1>11. /\ Audit!ToSet(reader'.seen) \subseteq Before(p + n)
       /\ After(p) \subseteq Audit!ToSet(page) \cup After(p + n)
  <2>1. Before(p) \subseteq Before(p + n) /\ Audit!ToSet(page) \subseteq Before(p + n)
    BY <1>6, <1>5a DEF Before
  <2>2. ASSUME NEW i \in (p + 1)..Len(stored)
        PROVE  stored[i] \in Audit!ToSet(page) \cup After(p + n)
    <3>1. CASE i <= p + n
      <4>1. i - p \in 1..n /\ stored[i] = stored[p + (i - p)]
        BY <1>5a, <3>1
      <4> QED
        BY <1>6, <4>1
    <3>2. CASE i > p + n
      BY <1>5a, <3>2 DEF After
    <3> QED
      BY <1>5a, <3>1, <3>2
  <2> QED
    BY <1>3, <1>9, <2>1, <2>2 DEF After
<1>12. reader'.had \subseteq Audit!ToSet(reader'.seen) \cup After(p + n)
  BY <1>3, <1>9, <1>10, <1>11
<1>13. StoredOnce'
  BY <1>1, <1>2 DEF StoredOnce
<1>14. CASE more
  <2>1. p + n \in 1..Len(stored) /\ Audit!Last(page) = stored[p + n]
    BY <1>5, <1>5a, <1>14 DEF Audit!Last
  <2>2. ReaderTyped'
    <3>1. Audit!Last(page) \in Records
      BY <1>2, <2>1
    <3> QED
      BY <1>1, <1>2, <1>9, <1>10, <1>14, <3>1 DEF ReaderTyped
  <2>3. \E q \in 1..Len(stored') : stored'[q] = reader'.cursor /\ ReadUpTo(q)'
    <3>1. PICK q \in 1..Len(stored) : q = p + n
      BY <2>1
    <3>2. stored' = stored /\ reader'.cursor = stored[q]
      BY <1>1, <1>10, <1>14, <2>1, <3>1
    <3>3. Before(q)' = Before(q) /\ After(q)' = After(q)
      BY <3>2 DEF Before, After
    <3>4. ReadUpTo(q)'
      BY <1>11, <1>12, <3>1, <3>3 DEF ReadUpTo
    <3> QED
      BY <3>2, <3>4
  <2> QED
    BY <1>9, <1>10, <1>13, <1>14, <2>2, <2>3 DEF PagesInv, ReaderRight, Audit!PagesComplete
<1>15. CASE ~ more
  <2>1. After(p + n) = {}
    BY <1>5, <1>5a, <1>15 DEF After
  <2>2. ReaderTyped'
    BY <1>1, <1>2, <1>9, <1>10, <1>15 DEF ReaderTyped
  <2> QED
    BY <1>9, <1>10, <1>12, <1>13, <1>15, <2>1, <2>2
       DEF PagesInv, ReaderRight, Audit!PagesComplete
<1> QED
  BY <1>14, <1>15

\* An event goes into the database while someone reads: it is not there yet, and what
\* is behind the cursor stays behind it.
LEMMA InsertKeepsPages ==
  ASSUME AuditTypes, EventsInv, PagesInv, NEW e \in Events, Audit!Stored(e)
  PROVE  PagesInv'
<1>1. PICK i \in 1..(Len(stored) + 1) : stored' = Audit!InsertAt(stored, i, e)
  BY StoredKeeps
<1>2. /\ stored \in Seq(Records) /\ Len(stored) \in Nat /\ e \in Records
      /\ UNCHANGED reader /\ ReaderRight /\ StoredOnce
      /\ at[e] \in {"storing", "anonymous"} /\ at' = [at EXCEPT ![e] = "posting"]
  BY StoredKeeps DEF AuditTypes, PagesInv, Records, Audit!Stored
<1>3. /\ Len(stored') = Len(stored) + 1 /\ stored' \in Seq(Records)
      /\ \A j \in 1..(Len(stored) + 1) :
           stored'[j] = IF j < i THEN stored[j] ELSE IF j = i THEN e ELSE stored[j - 1]
      /\ Audit!ToSet(stored') = Audit!ToSet(stored) \cup {e}
  <2> DEFINE t == Audit!InsertAt(stored, i, e)
  <2>1. t \in Seq(Records) /\ Inserted(stored, t, i, e)
    BY <1>2, InsertIs
  <2>2. Audit!ToSet(t) = Audit!ToSet(stored) \cup {e}
    BY <1>2, InsertSet
  <2>3. stored' = t
    BY <1>1
  <2> HIDE DEF t
  <2> QED
    BY <2>1, <2>2, <2>3 DEF Inserted
<1>4. e \notin Audit!ToSet(stored) /\ \A j \in 1..Len(stored) : stored[j] # e
  <2>1. e \notin Audit!ToSet(stored)
    BY <1>2 DEF StoredOnce
  <2>2. \A j \in 1..Len(stored) : j \in DOMAIN stored
    BY <1>2
  <2> QED
    BY <2>1, <2>2 DEF Audit!ToSet
\* Where an event that was there is now.
<1> DEFINE Moved(j) == IF j < i THEN j ELSE j + 1
<1>5. ASSUME NEW j \in 1..Len(stored)
      PROVE  Moved(j) \in 1..Len(stored') /\ stored'[Moved(j)] = stored[j]
  BY <1>2, <1>3
<1>6. ASSUME NEW k \in 1..Len(stored')
      PROVE  \/ k = i /\ stored'[k] = e
             \/ \E j \in 1..Len(stored) : k = Moved(j) /\ stored'[k] = stored[j]
  <2>1. CASE k < i
    BY <1>2, <1>3, <2>1
  <2>2. CASE k = i
    BY <1>2, <1>3, <2>2
  <2>3. CASE k > i
    <3>1. k - 1 \in 1..Len(stored) /\ k = Moved(k - 1) /\ stored'[k] = stored[k - 1]
      BY <1>2, <1>3, <2>3
    <3> QED
      BY <3>1
  <2> QED
    BY <1>2, <1>3, <2>1, <2>2, <2>3
<1>7. \A j, k \in 1..Len(stored) : j <= k => Moved(j) <= Moved(k)
  BY <1>2
<1>8. \A j, k \in 1..Len(stored) : j < k => Moved(j) < Moved(k)
  BY <1>2
<1> HIDE DEF Moved
<1>9. Audit!IsInjective(stored')
  <2> SUFFICES ASSUME NEW k \in 1..Len(stored'), NEW l \in 1..Len(stored'),
                      stored'[k] = stored'[l]
               PROVE  k = l
    BY <1>3 DEF Audit!IsInjective
  <2>1. \A j, m \in 1..Len(stored) : stored[j] = stored[m] => j = m
    BY <1>2 DEF StoredOnce, Audit!IsInjective
  <2> QED
    BY <1>4, <1>6, <2>1
<1>10. StoredOnce'
  <2>1. ASSUME NEW f \in Events, at'[f] \in {"new", "storing", "anonymous"}
        PROVE  f \notin Audit!ToSet(stored')
    <3>1. f # e /\ at'[f] = at[f]
      BY <1>2, <2>1 DEF AuditTypes
    <3> QED
      BY <1>2, <1>3, <2>1, <3>1 DEF StoredOnce
  <2> QED
    BY <1>9, <2>1 DEF StoredOnce
<1>11. ASSUME NEW p \in 1..Len(stored), stored[p] = reader.cursor, ReadUpTo(p)
       PROVE  \E q \in 1..Len(stored') : stored'[q] = reader'.cursor /\ ReadUpTo(q)'
  <2>1. PICK q \in 1..Len(stored') : q = Moved(p) /\ stored'[q] = reader'.cursor
    BY <1>2, <1>5, <1>11
  <2>2. Before(p) \subseteq Before(q)'
    <3> SUFFICES ASSUME NEW j \in 1..p PROVE stored[j] \in Before(q)'
      BY DEF Before
    <3>1. j \in 1..Len(stored) /\ j <= p
      BY <1>2
    <3>2. Moved(j) \in 1..Len(stored') /\ stored'[Moved(j)] = stored[j] /\ Moved(j) <= q
      BY <1>5, <1>7, <2>1, <3>1
    <3>3. Moved(j) \in 1..q
      BY <1>2, <1>3, <3>2
    <3> QED
      BY <3>2, <3>3 DEF Before
  <2>3. After(p) \subseteq After(q)'
    <3> SUFFICES ASSUME NEW j \in (p + 1)..Len(stored) PROVE stored[j] \in After(q)'
      BY DEF After
    <3>1. j \in 1..Len(stored) /\ p < j
      BY <1>2
    <3>2. Moved(j) \in 1..Len(stored') /\ stored'[Moved(j)] = stored[j] /\ q < Moved(j)
      BY <1>5, <1>8, <2>1, <3>1
    <3>3. Moved(j) \in (q + 1)..Len(stored')
      BY <1>2, <1>3, <3>2
    <3> QED
      BY <3>2, <3>3 DEF After
  <2>4. ReadUpTo(q)'
    BY <1>2, <1>11, <2>2, <2>3 DEF ReadUpTo
  <2> QED
    BY <2>1, <2>4
<1>12. ReaderRight'
  <2>1. ReaderTyped'
    BY <1>2 DEF ReaderRight, ReaderTyped
  <2>2. reader'.at = "reading" =>
          \E q \in 1..Len(stored') : stored'[q] = reader'.cursor /\ ReadUpTo(q)'
    BY <1>2, <1>11 DEF ReaderRight
  <2> QED
    BY <1>2, <2>1, <2>2 DEF ReaderRight
<1> QED
  BY <1>2, <1>10, <1>12 DEF PagesInv, Audit!PagesComplete

\* Every step of the log keeps what is said of its reader.
LEMMA PagesStep ==
  ASSUME AuditTypes, EventsInv, PagesInv, [Audit!Next]_(Audit!vars)
  PROVE  PagesInv'
<1>1. ASSUME UNCHANGED <<stored, reader>>,
             \A f \in Events : at'[f] \in {"new", "storing", "anonymous"}
                             => at[f] \in {"new", "storing", "anonymous"}
      PROVE  PagesInv'
  <2>1. StoredOnce'
    BY <1>1 DEF PagesInv, StoredOnce
  <2>2. ReaderRight'
    BY <1>1 DEF PagesInv, ReaderRight, ReaderTyped, ReadUpTo, Before, After
  <2> QED
    BY <1>1, <2>1, <2>2 DEF PagesInv, Audit!PagesComplete
<1>2. ASSUME NEW e \in Events,
             \/ Audit!Log(e) \/ Audit!UserUnknown(e) \/ Audit!StoreFails(e)
             \/ Audit!PostSucceeds(e) \/ Audit!PostFails(e)
             \/ Audit!Backoff(e) \/ Audit!DeadLetter(e)
      PROVE  PagesInv'
  <2>1. /\ UNCHANGED <<stored, reader>>
        /\ \/ at[e] \in {"new", "storing", "anonymous"}
           \/ at[e] \in {"posting", "waiting", "burying"}
              /\ at'[e] \in {"logged", "posting", "burying", "waiting"}
        /\ \A f \in Events : f # e => at'[f] = at[f]
    BY <1>2 DEF AuditTypes, Audit!Log, Audit!UserUnknown, Audit!StoreFails, Audit!PostSucceeds,
                Audit!PostFails, Audit!Backoff, Audit!DeadLetter, Audit!Moves
  <2> QED
    BY <1>1, <2>1
<1>3. CASE Audit!Crash
  <2>1. /\ UNCHANGED <<stored, reader>>
        /\ \A f \in Events : at'[f] = "lost" \/ at'[f] = at[f]
    BY <1>3 DEF Audit!Crash
  <2> QED
    BY <1>1, <2>1
<1>4. CASE \/ \E e \in Events : Audit!Receives(e) \/ Audit!ReplayDelivers(e) \/ Audit!ReplayFails(e)
           \/ \E compact \in BOOLEAN : Audit!ReplayReads(compact)
           \/ Audit!ReplayEnds \/ Audit!ReplayKilled \/ UNCHANGED Audit!vars
  <2>1. UNCHANGED <<at, stored, reader>>
    BY <1>4 DEF Audit!Receives, Audit!ReplayDelivers, Audit!ReplayFails, Audit!ReplayReads,
                Audit!ReplayEnds, Audit!ReplayKilled, Audit!vars
  <2> QED
    BY <1>1, <2>1
<1>5. ASSUME NEW e \in Events, Audit!Stored(e) PROVE PagesInv'
  BY <1>5, InsertKeepsPages
<1>6. CASE Audit!AuditPage
  BY <1>6, PageKeeps
<1> QED
  BY <1>2, <1>3, <1>4, <1>5, <1>6 DEF Audit!Next

\* Who reads the log to its end, while events are being logged, has seen each event that
\* was there when he began, and none twice.
THEOREM ServicesPages == Spec => []PagesComplete
<1> DEFINE AuditInv == AuditTypes /\ EventsInv /\ PagesInv
<1>1. Audit!Init => AuditInv
  BY AuditInit
<1>2. AuditInv /\ [Audit!Next]_(Audit!vars) => AuditInv'
  BY EventsStep, PagesStep
<1>3. AuditInv => PagesComplete
  BY DEF PagesInv, PagesComplete
<1> QED
  BY <1>1, <1>2, <1>3, AuditSpec, PTL DEF Audit!Spec

-----------------------------------------------------------------------------
(***************************************************************************)
(* The console.  A list that is newer than the one on the page is always   *)
(* on its way -- as a handler that has yet to publish, an event, a timer,  *)
(* a request that is not answered yet or an answer that is not looked at   *)
(* -- unless the user has a change that nothing will tell (Coming).  At    *)
(* rest nothing is on its way.                                             *)
(***************************************************************************)

\* The console behaves as Console says.
LEMMA PageSpec == Spec => Page!Spec
<1>1. Init => Page!Init
  BY DEF Init
<1>2. [Next]_vars => [Page!Next]_(Page!vars)
  BY DEF Next, vars, pageVars, Page!vars, Page!authVars, Page!streamVars, Page!notes
<1> QED
  BY <1>1, <1>2, PTL DEF Spec, Page!Spec

PageTypes ==
  /\ truth \in [PageUsers -> Nat] /\ latest \in Nat /\ untold \in [PageUsers -> BOOLEAN]
  /\ due \in [PageUsers -> SUBSET Nat]
  /\ session \in PageUsers \cup {None} /\ who \in PageUsers \cup {None}
  /\ screen \in {"boot", "auth", "app"} /\ (screen = "app" <=> who # None)

\* A request has asked for the list of a user, and was told of one he had.
Asked(r) ==
  /\ r = [n |-> r.n, of |-> r.of, kind |-> r.kind, at |-> r.at, version |-> r.version]
  /\ r.of \in PageUsers /\ r.version \in Nat /\ r.version <= truth[r.of]
  /\ r.kind \in {"boot", "list"} /\ r.at \in {"acting", "acted", "sent", "answered"}
  /\ r.kind = "boot" => r.at \notin {"acting", "acted"} /\ screen = "boot"

\* While the stored session is tried, its list is all that is asked for, and nobody
\* is on the stream.
BootAlone ==
  /\ screen = "boot" => \A r, q \in asked : r = q /\ r.kind = "boot"
  /\ \A r \in asked : r.kind = "boot" /\ r.at = "answered" =>
       untold[r.of] \/ due[r.of] # {} \/ r.version = truth[r.of]
  /\ who = None => event = FALSE /\ timer = FALSE /\ events = "off" /\ latest = 0

Answer(r)  == r.of = who /\ (r.at = "sent" \/ (r.at = "answered" /\ r.version = truth[who]))
Coming     == \/ due[who] # {} \/ event = TRUE \/ timer = TRUE
              \/ latest = truth[who] \/ \E r \in asked : Answer(r)
WillBeTold == who # None => untold[who] = TRUE \/ Coming

OnThePage(u, v) ==
  IF v = 0 THEN [of |-> None, version |-> 0] ELSE [of |-> u, version |-> v]

LatestShown ==
  /\ who # None => latest <= truth[who]
  /\ overtaken \in BOOLEAN
  /\ overtaken = FALSE => shown = OnThePage(who, latest)

PageInv == PageTypes /\ (\A r \in asked : Asked(r)) /\ BootAlone /\ WillBeTold /\ LatestShown

\* None is not a user.
LEMMA NotAUser == None \notin PageUsers
  BY ServicesAssumption DEF Page!ConsoleAssumption

\* A step of the gateway that leaves other users alone keeps the invariant if it tells
\* the user, leaves it to a handler, or notes that nothing will.
LEMMA ChangeKeeps ==
  ASSUME PageInv, NEW u \in PageUsers,
         UNCHANGED <<session, who, screen, shown, events, timer, latest, overtaken>>,
         truth' \in [PageUsers -> Nat], truth[u] <= truth'[u],
         due' \in [PageUsers -> SUBSET Nat], untold' \in [PageUsers -> BOOLEAN],
         \A v \in PageUsers : v # u =>
            truth'[v] = truth[v] /\ due'[v] = due[v] /\ untold'[v] = untold[v],
         event = TRUE => event' = TRUE, who = None => event' = FALSE,
         untold'[u] = TRUE \/ due'[u] # {} \/ (who = u /\ event' = TRUE),
         \A r \in asked' : r \in asked \/ (Asked(r)' /\ r.kind # "boot" /\ screen # "boot"),
         \A r \in asked : r \in asked' \/ r.at \in {"acting", "acted"}
  PROVE  PageInv'
<1>1. \A v \in PageUsers : truth[v] \in Nat /\ truth'[v] \in Nat /\ truth[v] <= truth'[v]
  BY DEF PageInv, PageTypes
<1>2. PageTypes'
  BY DEF PageInv, PageTypes
<1>3. ASSUME NEW r \in asked' PROVE Asked(r)'
  <2>1. CASE r \in asked
    BY <1>1, <2>1 DEF PageInv, Asked
  <2> QED
    BY <2>1
<1>4. BootAlone'
  <2>1. screen' = "boot" => \A r, q \in asked' : r = q /\ r.kind = "boot"
    BY DEF PageInv, BootAlone
  <2>2. ASSUME NEW r \in asked', r.kind = "boot", r.at = "answered"
        PROVE  untold'[r.of] \/ due'[r.of] # {} \/ r.version = truth'[r.of]
    <3>1. r \in asked /\ screen = "boot" /\ who = None /\ r.of \in PageUsers
      BY <2>2 DEF PageInv, Asked, PageTypes
    <3>2. untold[r.of] \/ due[r.of] # {} \/ r.version = truth[r.of]
      BY <2>2, <3>1 DEF PageInv, BootAlone
    <3> QED
      BY <3>1, <3>2, NotAUser
  <2>3. who' = None => event' = FALSE /\ timer' = FALSE /\ events' = "off" /\ latest' = 0
    BY DEF PageInv, BootAlone
  <2> QED
    BY <2>1, <2>2, <2>3 DEF BootAlone
<1>5. WillBeTold'
  <2>1. CASE who = u
    BY <2>1 DEF WillBeTold, Coming
  <2>2. CASE who # u /\ who \in PageUsers
    <3>1. untold'[who] = untold[who] /\ truth'[who] = truth[who] /\ due'[who] = due[who]
      BY <2>2
    <3>2. \A r \in asked : Answer(r) => r \in asked' /\ Answer(r)'
      BY <3>1 DEF Answer
    <3>3. untold[who] = TRUE \/ Coming
      BY <2>2, NotAUser DEF PageInv, WillBeTold
    <3> QED
      BY <3>1, <3>2, <3>3 DEF WillBeTold, Coming
  <2>3. CASE who = None
    BY <2>3 DEF WillBeTold
  <2> QED
    BY <2>1, <2>2, <2>3 DEF PageInv, PageTypes
<1>6. LatestShown'
  <2>1. who # None => latest <= truth'[who]
    <3> SUFFICES ASSUME who # None PROVE latest <= truth'[who]
      OBVIOUS
    <3>1. who \in PageUsers /\ latest \in Nat /\ latest <= truth[who]
      BY DEF PageInv, PageTypes, LatestShown
    <3> QED
      BY <1>1, <3>1
  <2> QED
    BY <2>1 DEF PageInv, LatestShown, OnThePage
<1> QED
  BY <1>2, <1>3, <1>4, <1>5, <1>6 DEF PageInv

\* What a change of a user's list is.
LEMMA ChangeIs ==
  ASSUME PageInv, NEW u \in PageUsers, Page!Change(u)
  PROVE  /\ UNCHANGED <<session, who, screen, shown, events, timer, latest, overtaken>>
         /\ truth' \in [PageUsers -> Nat] /\ truth[u] <= truth'[u] /\ truth'[u] \in Nat
         /\ \A v \in PageUsers : v # u => truth'[v] = truth[v]
<1>1. truth' = [truth EXCEPT ![u] = truth[u] + 1] /\ truth \in [PageUsers -> Nat]
  BY DEF Page!Change, PageInv, PageTypes
<1>2. UNCHANGED <<session, who, screen, shown, events, timer, latest, overtaken>>
  BY DEF Page!Change, Page!authVars
<1> QED
  BY <1>1, <1>2

\* Who is told, and what is noted if the user is not.
LEMMA PublishedIs ==
  ASSUME PageInv, NEW u \in PageUsers, NEW audience, u \in audience,
         Page!publishLiveEvent(audience), Page!Missed(u)
  PROVE  /\ event = TRUE => event' = TRUE
         /\ who = None => event' = FALSE
         /\ untold' \in [PageUsers -> BOOLEAN]
         /\ \A v \in PageUsers : v # u => untold'[v] = untold[v]
         /\ untold'[u] = TRUE \/ (who = u /\ event' = TRUE)
<1>1. event' = (event \/ (events = "open" /\ who \in audience))
  BY DEF Page!publishLiveEvent
<1>2. untold' = [untold EXCEPT ![u] = untold[u] \/ ~Page!Hears(u)]
  BY DEF Page!Missed
<1>3. untold \in [PageUsers -> BOOLEAN]
  BY DEF PageInv, PageTypes
<1>4. event = TRUE => event' = TRUE
  BY <1>1, Zenon
<1>5. who = None => event' = FALSE
  <2>1. who = None => event = FALSE /\ events = "off"
    BY DEF PageInv, BootAlone
  <2> QED
    BY <1>1, <2>1
<1>6. untold'[u] = (untold[u] \/ ~Page!Hears(u))
  BY <1>2, <1>3
<1>7. CASE Page!Hears(u)
  <2>1. events = "open" /\ who \in audience /\ who = u
    BY <1>7 DEF Page!Hears
  <2>2. event' = TRUE
    BY <1>1, <2>1, Zenon
  <2> QED
    BY <1>2, <1>3, <1>4, <1>5, <2>1, <2>2
<1>8. CASE ~Page!Hears(u)
  <2>1. untold'[u] = TRUE
    BY <1>6, <1>8, Zenon
  <2> QED
    BY <1>2, <1>3, <1>4, <1>5, <2>1
<1> QED
  BY <1>7, <1>8

\* A change is told in its turn.
LEMMA ToldKeeps ==
  ASSUME PageInv, NEW u \in PageUsers, NEW audience, u \in audience, Page!Told(u, audience)
  PROVE  PageInv'
<1>1. /\ Page!Change(u) /\ Page!publishLiveEvent(audience) /\ Page!Missed(u)
      /\ UNCHANGED <<due, asked>>
  BY DEF Page!Told
<1>2. due' \in [PageUsers -> SUBSET Nat]
  BY <1>1 DEF PageInv, PageTypes
<1> QED
  BY <1>1, <1>2, ChangeIs, PublishedIs, ChangeKeeps

\* A change that nothing tells is noted.
LEMMA SilentKeeps ==
  ASSUME PageInv, NEW u \in PageUsers, Page!Silent(u)
  PROVE  PageInv'
<1>1. /\ Page!Change(u) /\ untold' = [untold EXCEPT ![u] = TRUE]
      /\ UNCHANGED <<due, asked, event>>
  BY DEF Page!Silent
<1>2. due' \in [PageUsers -> SUBSET Nat]
  BY <1>1 DEF PageInv, PageTypes
<1>3. /\ untold' \in [PageUsers -> BOOLEAN] /\ untold'[u] = TRUE
      /\ \A v \in PageUsers : v # u => untold'[v] = untold[v]
  BY <1>1 DEF PageInv, PageTypes
<1>4. who = None => event' = FALSE
  BY <1>1 DEF PageInv, BootAlone
<1> QED
  BY <1>1, <1>2, <1>3, <1>4, ChangeIs, ChangeKeeps

\* A change whose handler has yet to publish.
LEMMA ActBeginsKeeps ==
  ASSUME PageInv, NEW u \in PageUsers, Page!Begins(u),
         \A r \in asked' : r \in asked \/ (Asked(r)' /\ r.kind # "boot" /\ screen # "boot"),
         \A r \in asked : r \in asked' \/ r.at \in {"acting", "acted"}
  PROVE  PageInv'
<1>1. /\ Page!Change(u) /\ due' = [due EXCEPT ![u] = due[u] \cup {truth'[u]}]
      /\ UNCHANGED <<event, untold>>
  BY DEF Page!Begins
<1>2. truth'[u] \in Nat
  BY <1>1, ChangeIs
<1>3. /\ due' \in [PageUsers -> SUBSET Nat] /\ due'[u] # {}
      /\ \A v \in PageUsers : v # u => due'[v] = due[v]
  BY <1>1, <1>2 DEF PageInv, PageTypes
<1>4. untold' \in [PageUsers -> BOOLEAN] /\ (who = None => event' = FALSE)
  BY <1>1 DEF PageInv, PageTypes, BootAlone
<1>5. /\ UNCHANGED <<session, who, screen, shown, events, timer, latest, overtaken>>
      /\ truth' \in [PageUsers -> Nat] /\ truth[u] <= truth'[u]
      /\ \A v \in PageUsers : v # u => truth'[v] = truth[v]
  BY <1>1, ChangeIs
<1>6. \A v \in PageUsers : v # u => untold'[v] = untold[v]
  BY <1>1
<1>7. event = TRUE => event' = TRUE
  BY <1>1
<1> QED
  BY <1>3, <1>4, <1>5, <1>6, <1>7, ChangeKeeps

\* A handler publishes.
LEMMA PublishesKeeps ==
  ASSUME PageInv, NEW u \in PageUsers, NEW version, Page!Publishes(u, version),
         \A r \in asked' : r \in asked \/ (Asked(r)' /\ r.kind # "boot" /\ screen # "boot"),
         \A r \in asked : r \in asked' \/ r.at \in {"acting", "acted"}
  PROVE  PageInv'
<1>1. /\ due' = [due EXCEPT ![u] = due[u] \ {version}]
      /\ Page!publishLiveEvent({u}) /\ Page!Missed(u)
      /\ UNCHANGED <<truth, session, who, screen, shown, events, timer, latest, overtaken>>
  BY DEF Page!Publishes, Page!authVars
<1>2. due' \in [PageUsers -> SUBSET Nat] /\ \A v \in PageUsers : v # u => due'[v] = due[v]
  BY <1>1 DEF PageInv, PageTypes
<1>3. truth' \in [PageUsers -> Nat] /\ truth[u] <= truth'[u]
  BY <1>1 DEF PageInv, PageTypes
<1>4. u \in {u}
  OBVIOUS
<1> QED
  BY <1>1, <1>2, <1>3, <1>4, PublishedIs, ChangeKeeps

\* A request of the console that is at work goes on to its next step.
LEMMA RequestGoesOn ==
  ASSUME PageInv, NEW r \in asked, r.at \in {"acting", "acted"}, NEW q,
         Asked(q)', q.kind = r.kind, Page!Becomes(r, q)
  PROVE  /\ \A p \in asked' : p \in asked \/ (Asked(p)' /\ p.kind # "boot" /\ screen # "boot")
         /\ \A p \in asked : p \in asked' \/ p.at \in {"acting", "acted"}
<1>1. asked' = (asked \ {r}) \cup {q}
  BY DEF Page!Becomes
<1>2. Asked(r) /\ BootAlone
  BY DEF PageInv
<1>3. r.kind # "boot" /\ screen # "boot"
  BY <1>2 DEF Asked, BootAlone
<1> QED
  BY <1>1, <1>3

\* The gateway changes a user's tunnels, or tells that it has.
LEMMA GatewayKeeps ==
  ASSUME PageInv, NEW u \in PageUsers,
         \/ Page!TunnelRegistered(u) \/ Page!TunnelCloses(u) \/ Page!RedirectSwept(u)
         \/ Page!EntryFiled(u) \/ Page!BindFails(u) \/ Page!AdminDeletes(u)
         \/ Page!OtherActs(u) \/ Page!OtherDone(u)
  PROVE  PageInv'
<1>1. CASE Page!TunnelRegistered(u) \/ Page!TunnelCloses(u)
  <2>1. u \in {u}
    OBVIOUS
  <2> QED
    BY <1>1, <2>1, ToldKeeps DEF Page!TunnelRegistered, Page!TunnelCloses
<1>2. CASE \/ Page!RedirectSwept(u) \/ Page!EntryFiled(u) \/ Page!BindFails(u)
           \/ Page!AdminDeletes(u)
  BY <1>2, SilentKeeps DEF Page!RedirectSwept, Page!EntryFiled, Page!BindFails, Page!AdminDeletes
<1>3. CASE Page!OtherActs(u)
  BY <1>3, ActBeginsKeeps DEF Page!OtherActs
<1>4. CASE Page!OtherDone(u)
  BY <1>4, PublishesKeeps DEF Page!OtherDone
<1> QED
  BY <1>1, <1>2, <1>3, <1>4

\* A POST or DELETE of the console changes its user's tunnels, and is answered.
LEMMA ActsKeeps ==
  ASSUME PageInv, NEW r \in asked, Page!Acts(r) \/ Page!ActDone(r)
  PROVE  PageInv'
<1>1. Asked(r) /\ r.of \in PageUsers /\ PageTypes
  BY DEF PageInv, Asked
<1>2. CASE Page!Acts(r)
  <2>1. PICK q : q = [r EXCEPT !.at = "acted", !.version = truth'[r.of]]
    OBVIOUS
  <2>2. r.at = "acting" /\ Page!Begins(r.of) /\ Page!Becomes(r, q)
    BY <1>2, <2>1 DEF Page!Acts
  <2>3. q = [n |-> r.n, of |-> r.of, kind |-> r.kind, at |-> "acted", version |-> truth'[r.of]]
    BY <1>1, <2>1 DEF Asked
  <2>4. truth'[r.of] \in Nat /\ r.kind # "boot"
    BY <1>1, <2>2, ChangeIs DEF Page!Begins, Asked
  <2>5. Asked(q)' /\ q.kind = r.kind
    BY <1>1, <2>3, <2>4 DEF Asked
  <2> QED
    BY <1>1, <2>2, <2>5, RequestGoesOn, ActBeginsKeeps
<1>3. CASE Page!ActDone(r)
  <2>1. PICK q : q = [r EXCEPT !.at = "sent", !.version = 0]
    OBVIOUS
  <2>2. r.at = "acted" /\ Page!Publishes(r.of, r.version) /\ Page!Becomes(r, q)
    BY <1>3, <2>1 DEF Page!ActDone
  <2>3. q = [n |-> r.n, of |-> r.of, kind |-> r.kind, at |-> "sent", version |-> 0]
    BY <1>1, <2>1 DEF Asked
  <2>4. truth' = truth /\ truth[r.of] \in Nat /\ r.kind # "boot"
    BY <1>1, <2>2 DEF Page!Publishes, Asked, PageTypes
  <2>5. Asked(q)' /\ q.kind = r.kind
    BY <1>1, <2>3, <2>4 DEF Asked
  <2> QED
    BY <1>1, <2>2, <2>5, RequestGoesOn, PublishesKeeps
<1> QED
  BY <1>2, <1>3

\* The gateway answers a request with the list as it is.
LEMMA AnswersKeeps ==
  ASSUME PageInv, NEW r \in asked, Page!Answers(r)
  PROVE  PageInv'
<1>0. PICK a : a = [r EXCEPT !.at = "answered", !.version = truth[r.of]]
  OBVIOUS
<1>1. /\ r.at = "sent" /\ asked' = (asked \ {r}) \cup {a}
      /\ untold' = [untold EXCEPT ![r.of] = FALSE]
      /\ UNCHANGED <<truth, due, session, who, screen, shown, events, event, timer, latest,
                     overtaken>>
  BY <1>0 DEF Page!Answers, Page!Becomes, Page!authVars, Page!streamVars
<1>2. Asked(r) /\ PageTypes /\ truth[r.of] \in Nat
  BY DEF PageInv, Asked, PageTypes
<1>3. /\ a = [n |-> r.n, of |-> r.of, kind |-> r.kind, at |-> "answered", version |-> truth[r.of]]
  BY <1>0, <1>2 DEF Asked
<1>4. a.of = r.of /\ a.kind = r.kind /\ a.at = "answered" /\ a.version = truth[r.of]
  BY <1>3
<1>5. Asked(a)'
  BY <1>1, <1>2, <1>3, <1>4 DEF Asked
<1>6. \A q \in asked' : Asked(q)'
  BY <1>1, <1>5 DEF PageInv, Asked
<1>7. /\ untold' \in [PageUsers -> BOOLEAN] /\ untold'[r.of] = FALSE
      /\ \A v \in PageUsers : v # r.of => untold'[v] = untold[v]
  BY <1>1, <1>2 DEF PageTypes, Asked
<1>8. PageTypes'
  BY <1>1, <1>2, <1>7 DEF PageTypes
<1>9. BootAlone'
  <2>1. screen = "boot" => \A p, q \in asked : p = q /\ p.kind = "boot"
    BY DEF PageInv, BootAlone
  <2>2. screen' = "boot" => \A p, q \in asked' : p = q /\ p.kind = "boot"
    BY <1>1, <1>4, <2>1
  <2>3. ASSUME NEW q \in asked', q.kind = "boot", q.at = "answered"
        PROVE  untold'[q.of] \/ due'[q.of] # {} \/ q.version = truth'[q.of]
    <3>1. CASE q = a
      BY <1>1, <1>4, <3>1
    <3>2. CASE q \in asked /\ q # r
      BY <2>1, <2>3, <3>2 DEF PageInv, Asked
    <3> QED
      BY <1>1, <3>1, <3>2
  <2>4. who' = None => event' = FALSE /\ timer' = FALSE /\ events' = "off" /\ latest' = 0
    BY <1>1 DEF PageInv, BootAlone
  <2> QED
    BY <2>2, <2>3, <2>4 DEF BootAlone
<1>10. WillBeTold'
  <2>1. CASE who = r.of
    <3>1. a \in asked' /\ Answer(a)'
      BY <1>1, <1>4, <2>1 DEF Answer
    <3> QED
      BY <3>1 DEF WillBeTold, Coming
  <2>2. CASE who # r.of /\ who # None
    <3>1. who \in PageUsers /\ untold'[who] = untold[who]
      BY <1>2, <1>7, <2>2 DEF PageTypes
    <3>2. \A q \in asked : Answer(q) => q \in asked' /\ Answer(q)'
      BY <1>1, <2>2 DEF Answer
    <3> QED
      BY <1>1, <2>2, <3>1, <3>2 DEF PageInv, WillBeTold, Coming
  <2>3. CASE who = None
    BY <1>1, <2>3 DEF WillBeTold
  <2> QED
    BY <2>1, <2>2, <2>3
<1>11. LatestShown'
  BY <1>1 DEF PageInv, LatestShown, OnThePage
<1> QED
  BY <1>6, <1>8, <1>9, <1>10, <1>11 DEF PageInv

\* The page is loaded again, or the user signs out: nobody is on the page.
LEMMA LeavesKeeps ==
  ASSUME PageInv, Page!Load \/ Page!doLogout
  PROVE  PageInv'
<1>1. /\ UNCHANGED <<truth, due, untold>> /\ session' \in {session, None}
      /\ who' = None /\ shown' = [of |-> None, version |-> 0]
      /\ events' = "off" /\ event' = FALSE /\ timer' = FALSE /\ latest' = 0 /\ overtaken' = FALSE
  BY DEF Page!Load, Page!doLogout, Page!Empty
<1>2. \/ screen' = "auth" /\ asked' = asked /\ screen = "app"
      \/ screen' = "auth" /\ asked' = {}
      \/ /\ screen' = "boot" /\ session # None
         /\ asked' = {[n |-> 1, of |-> session, kind |-> "boot", at |-> "sent", version |-> 0]}
  BY DEF Page!Load, Page!doLogout, Page!Boots
<1>3. PageTypes /\ \A r \in asked : Asked(r)
  BY DEF PageInv
<1>4. PageTypes'
  BY <1>1, <1>2, <1>3 DEF PageTypes
<1>5. LatestShown' /\ WillBeTold'
  BY <1>1 DEF LatestShown, OnThePage, WillBeTold
<1>6. (\A r \in asked' : Asked(r)') /\ BootAlone'
  <2>1. CASE screen' = "auth" /\ asked' = asked /\ screen = "app"
    <3>1. \A r \in asked : r.kind # "boot"
      BY <1>3, <2>1 DEF Asked
    <3>2. \A r \in asked' : Asked(r)'
      BY <1>1, <1>3, <2>1, <3>1 DEF Asked
    <3> QED
      BY <1>1, <2>1, <3>1, <3>2 DEF BootAlone
  <2>2. CASE screen' = "auth" /\ asked' = {}
    BY <1>1, <2>2 DEF BootAlone
  <2>3. CASE screen' = "boot" /\ session # None
             /\ asked' = {[n |-> 1, of |-> session, kind |-> "boot", at |-> "sent", version |-> 0]}
    <3>1. session \in PageUsers /\ truth[session] \in Nat
      BY <1>3, <2>3 DEF PageTypes
    <3> DEFINE b == [n |-> 1, of |-> session, kind |-> "boot", at |-> "sent", version |-> 0]
    <3>2. /\ b = [n |-> b.n, of |-> b.of, kind |-> b.kind, at |-> b.at, version |-> b.version]
          /\ b.of = session /\ b.kind = "boot" /\ b.at = "sent" /\ b.version = 0
      OBVIOUS
    <3>3. asked' = {b}
      BY <2>3
    <3> HIDE DEF b
    <3>4. \A r \in asked' : Asked(r)'
      BY <1>1, <2>3, <3>1, <3>2, <3>3 DEF Asked
    <3>5. BootAlone'
      BY <1>1, <3>2, <3>3 DEF BootAlone
    <3> QED
      BY <3>4, <3>5
  <2> QED
    BY <1>2, <2>1, <2>2, <2>3
<1> QED
  BY <1>4, <1>5, <1>6 DEF PageInv

\* The user signs in, to a list that is asked for or that is empty.
LEMMA SignsInKeeps ==
  ASSUME PageInv, NEW u \in PageUsers, Page!doLogin(u) \/ Page!doRegister(u)
  PROVE  PageInv'
<1>1. /\ screen = "auth" /\ screen' = "app" /\ session' = u /\ who' = u /\ latest' = 0
      /\ UNCHANGED <<truth, due, shown, event, timer, untold, overtaken>>
  BY DEF Page!doLogin, Page!doRegister, Page!SignIn
<1>2. /\ PageTypes /\ (\A r \in asked : Asked(r)) /\ who = None /\ latest = 0
      /\ \A r \in asked : r.kind # "boot"
  BY <1>1 DEF PageInv, PageTypes, BootAlone, Asked
<1>3. \/ truth[u] = 0 /\ asked' = asked
      \/ \E n : asked' = asked \cup
            {[n |-> n, of |-> u, kind |-> "list", at |-> "sent", version |-> 0]}
  BY DEF Page!doLogin, Page!doRegister, Page!Ask
<1>4. PageTypes'
  BY <1>1, <1>2, NotAUser DEF PageTypes
<1>5. truth[u] \in Nat
  BY <1>2 DEF PageTypes
<1>6. LatestShown'
  BY <1>1, <1>2, <1>5 DEF PageInv, LatestShown, OnThePage
<1>7. CASE truth[u] = 0 /\ asked' = asked
  <2>1. WillBeTold'
    BY <1>1, <1>7 DEF WillBeTold, Coming
  <2>2. \A r \in asked' : Asked(r)'
    BY <1>1, <1>2, <1>7 DEF Asked
  <2>3. BootAlone'
    BY <1>1, <1>2, <1>7, NotAUser DEF BootAlone
  <2> QED
    BY <1>4, <1>6, <2>1, <2>2, <2>3 DEF PageInv
<1>8. ASSUME NEW n, asked' = asked \cup
                {[n |-> n, of |-> u, kind |-> "list", at |-> "sent", version |-> 0]}
      PROVE  PageInv'
  <2>1. PICK b : b = [n |-> n, of |-> u, kind |-> "list", at |-> "sent", version |-> 0]
    OBVIOUS
  <2>2. /\ b = [n |-> b.n, of |-> b.of, kind |-> b.kind, at |-> b.at, version |-> b.version]
        /\ b.of = u /\ b.kind = "list" /\ b.at = "sent" /\ b.version = 0
    BY <2>1
  <2>3. asked' = asked \cup {b}
    BY <1>8, <2>1
  <2>4. \A r \in asked' : Asked(r)'
    BY <1>1, <1>2, <1>5, <2>2, <2>3 DEF Asked
  <2>5. BootAlone'
    BY <1>1, <1>2, <2>2, <2>3, NotAUser DEF BootAlone
  <2>6. Answer(b)'
    BY <1>1, <2>2 DEF Answer
  <2>7. WillBeTold'
    BY <2>3, <2>6 DEF WillBeTold, Coming
  <2> QED
    BY <1>4, <1>6, <2>4, <2>5, <2>7 DEF PageInv
<1> QED
  BY <1>3, <1>7, <1>8

\* A list is shown: it is the newest of the user's, or one that came too late.
LEMMA RendersKeeps ==
  ASSUME PageInv, NEW r \in asked, Page!Renders(r)
  PROVE  PageInv'
<1>1. /\ r.at = "answered" /\ r.kind = "list" /\ asked' = asked \ {r}
      /\ shown' = OnThePage(r.of, r.version)
      /\ latest' = IF r.of = who /\ r.version > latest THEN r.version ELSE latest
      /\ overtaken' = (r.of # who \/ r.version < latest)
      /\ UNCHANGED <<truth, due, session, who, screen, events, event, timer, untold>>
  BY DEF Page!Renders, Page!Show, Page!Empty, Page!authVars, Page!streamVars, OnThePage
<1>2. PageTypes /\ Asked(r) /\ BootAlone /\ WillBeTold /\ LatestShown
  BY DEF PageInv
<1>3. latest \in Nat /\ latest' \in Nat /\ r.version \in Nat /\ r.of \in PageUsers /\ truth[r.of] \in Nat
  BY <1>1, <1>2 DEF PageTypes, Asked
<1>4. PageTypes'
  BY <1>1, <1>2, <1>3 DEF PageTypes
<1>5. \A q \in asked' : Asked(q)'
  BY <1>1 DEF PageInv, Asked
<1>6. BootAlone'
  BY <1>1, <1>2, <1>3, NotAUser DEF BootAlone
<1>7. who # None => latest <= truth[who] /\ latest' <= truth[who]
  BY <1>1, <1>2 DEF LatestShown, Asked
<1>8. WillBeTold'
  <2> SUFFICES ASSUME who # None, ~ (untold[who] = TRUE) PROVE Coming'
    BY <1>1 DEF WillBeTold
  <2>1. Coming /\ who \in PageUsers /\ truth[who] \in Nat
    BY <1>2 DEF WillBeTold, PageTypes
  <2>2. CASE Answer(r)
    BY <1>1, <1>3, <1>7, <2>1, <2>2 DEF Answer, Coming
  <2>3. CASE latest = truth[who]
    BY <1>1, <1>3, <1>7, <2>1, <2>3 DEF Coming
  <2>4. CASE \E q \in asked : q # r /\ Answer(q)
    <3>1. PICK q \in asked : q # r /\ Answer(q)
      BY <2>4
    <3>2. q \in asked' /\ Answer(q)'
      BY <1>1, <3>1 DEF Answer
    <3> QED
      BY <3>2 DEF Coming
  <2>5. CASE due[who] # {} \/ event = TRUE \/ timer = TRUE
    BY <1>1, <2>5 DEF Coming
  <2> QED
    BY <2>1, <2>2, <2>3, <2>4, <2>5 DEF Coming
<1>9. LatestShown'
  <2>1. CASE r.of = who /\ r.version >= latest
    <3>1. ~ (r.of # who \/ r.version < latest)
      BY <1>3, <2>1
    <3>2. latest' = r.version /\ shown' = OnThePage(who, r.version)
      BY <1>1, <1>3, <2>1
    <3>3. overtaken' \in BOOLEAN
      BY <1>1
    <3> QED
      BY <1>1, <1>7, <3>2, <3>3 DEF LatestShown
  <2>2. CASE ~ (r.of = who /\ r.version >= latest)
    <3>1. r.of # who \/ r.version < latest
      BY <1>3, <2>2
    <3>2. overtaken' = TRUE
      BY <1>1, <3>1, Zenon
    <3> QED
      BY <1>1, <1>7, <3>2 DEF LatestShown
  <2> QED
    BY <2>1, <2>2
<1> QED
  BY <1>4, <1>5, <1>6, <1>8, <1>9 DEF PageInv

\* The list of the stored session came: it is the one the user has, or he has a change
\* that nothing will tell.
LEMMA EntersKeeps ==
  ASSUME PageInv, NEW r \in asked, Page!Enters(r)
  PROVE  PageInv'
<1>1. /\ r.at = "answered" /\ r.kind = "boot" /\ asked' = asked \ {r}
      /\ shown' = OnThePage(r.of, r.version)
      /\ who' = r.of /\ screen' = "app" /\ events' = "connecting" /\ latest' = r.version
      /\ UNCHANGED <<truth, due, session, event, timer, untold, overtaken>>
  BY DEF Page!Enters, Page!Show, Page!Empty, OnThePage
<1>2. PageTypes /\ Asked(r) /\ BootAlone /\ LatestShown /\ r.of # None
  BY NotAUser DEF PageInv, Asked
<1>3. asked' = {}
  BY <1>1, <1>2 DEF BootAlone, Asked
<1>4. PageTypes'
  BY <1>1, <1>2 DEF PageTypes, Asked
<1>5. BootAlone'
  BY <1>1, <1>2, <1>3 DEF BootAlone
<1>6. WillBeTold'
  BY <1>1, <1>2 DEF BootAlone, WillBeTold, Coming, PageTypes, Asked
<1>7. LatestShown'
  BY <1>1, <1>2 DEF LatestShown, Asked, OnThePage
<1> QED
  BY <1>3, <1>4, <1>5, <1>6, <1>7 DEF PageInv

\* A request fails: its user has a change that nothing will tell, if the request was to
\* tell it.
LEMMA FailsKeeps ==
  ASSUME PageInv, NEW r \in asked, Page!Fails(r)
  PROVE  PageInv'
<1>1. /\ asked' = asked \ {r}
      /\ untold' = IF r.at \in {"acting", "acted"} THEN untold
                   ELSE [untold EXCEPT ![r.of] = TRUE]
      /\ \/ r.kind = "boot" /\ session' = None /\ screen' = "auth"
         \/ r.kind # "boot" /\ session' = session /\ screen' = screen
      /\ UNCHANGED <<truth, due, who, shown, events, event, timer, latest, overtaken>>
  BY DEF Page!Fails, Page!streamVars
<1>2. PageTypes /\ Asked(r) /\ BootAlone /\ WillBeTold /\ LatestShown
  BY DEF PageInv
<1>3. /\ untold' \in [PageUsers -> BOOLEAN]
      /\ \A u \in PageUsers : untold'[u] = untold[u] \/ untold'[u] = TRUE
      /\ r.at \notin {"acting", "acted"} => untold'[r.of] = TRUE
  BY <1>1, <1>2 DEF PageTypes, Asked
<1>4. PageTypes'
  BY <1>1, <1>2, <1>3 DEF PageTypes, Asked
<1>5. r.kind = "boot" => asked' = {}
  BY <1>1, <1>2 DEF BootAlone, Asked
<1>6. \A q \in asked' : Asked(q)'
  <2>1. CASE r.kind = "boot"
    BY <1>5, <2>1
  <2>2. CASE r.kind # "boot"
    BY <1>1, <2>2 DEF PageInv, Asked
  <2> QED
    BY <2>1, <2>2
<1>7. BootAlone'
  <2>1. CASE r.kind = "boot"
    BY <1>1, <1>2, <1>5, <2>1 DEF BootAlone
  <2>2. CASE r.kind # "boot"
    <3>1. \A q \in asked' : q \in asked /\ q.of \in PageUsers
      BY <1>1 DEF PageInv, Asked
    <3> QED
      BY <1>1, <1>2, <1>3, <2>2, <3>1 DEF BootAlone
  <2> QED
    BY <2>1, <2>2
<1>8. WillBeTold'
  <2> SUFFICES ASSUME who # None, ~ (untold'[who] = TRUE) PROVE Coming'
    BY <1>1 DEF WillBeTold
  <2>1. who \in PageUsers /\ untold[who] # TRUE /\ Coming
    BY <1>2, <1>3 DEF WillBeTold, PageTypes
  <2>2. ~ Answer(r)
    BY <1>3 DEF Answer
  <2>3. \A q \in asked : Answer(q) => q \in asked' /\ Answer(q)'
    BY <1>1, <2>2 DEF Answer
  <2> QED
    BY <1>1, <2>1, <2>3 DEF Coming
<1>9. LatestShown'
  BY <1>1, <1>2 DEF LatestShown, OnThePage
<1> QED
  BY <1>4, <1>6, <1>7, <1>8, <1>9 DEF PageInv

\* What asks for the list: the buttons, and the timer that an event sets.
LEMMA AsksKeeps ==
  ASSUME PageInv, (\E s \in {"acting", "sent"} : Page!Clicks(s)) \/ Page!TimerFires
  PROVE  PageInv'
<1>1. /\ screen = "app" /\ who \in PageUsers /\ truth[who] \in Nat
      /\ PageTypes /\ BootAlone /\ WillBeTold /\ LatestShown
  BY NotAUser DEF PageInv, PageTypes, BootAlone, Page!Clicks, Page!TimerFires
<1>2. /\ UNCHANGED <<truth, due, session, who, screen, shown, events, event, latest, untold,
                     overtaken>>
      /\ \E n, s : /\ asked' = asked \cup
                         {[n |-> n, of |-> who, kind |-> "list", at |-> s, version |-> 0]}
                   /\ \/ s \in {"acting", "sent"} /\ timer' = timer
                      \/ s = "sent" /\ timer' = FALSE
  BY DEF Page!Clicks, Page!TimerFires, Page!Ask, Page!authVars, Page!streamVars, Page!notes
<1>3. PICK n, s : /\ asked' = asked \cup
                         {[n |-> n, of |-> who, kind |-> "list", at |-> s, version |-> 0]}
                  /\ s \in {"acting", "sent"} /\ (timer' = timer \/ s = "sent")
  BY <1>2
<1>4. PICK b : b = [n |-> n, of |-> who, kind |-> "list", at |-> s, version |-> 0]
  OBVIOUS
<1>5. /\ b = [n |-> b.n, of |-> b.of, kind |-> b.kind, at |-> b.at, version |-> b.version]
      /\ b.of = who /\ b.kind = "list" /\ b.at = s /\ b.version = 0
  BY <1>4
<1>6. asked' = asked \cup {b}
  BY <1>3, <1>4
<1>7. PageTypes'
  BY <1>1, <1>2 DEF PageTypes
<1>8. \A r \in asked' : Asked(r)'
  BY <1>1, <1>2, <1>3, <1>5, <1>6 DEF PageInv, Asked
<1>9. BootAlone'
  <2>1. \A r \in asked' : r.kind # "boot"
    BY <1>1, <1>5, <1>6 DEF PageInv, Asked
  <2> QED
    BY <1>1, <1>2, <2>1, NotAUser DEF BootAlone
<1>10. WillBeTold'
  <2> SUFFICES ASSUME ~ (untold[who] = TRUE) PROVE Coming'
    BY <1>2 DEF WillBeTold
  <2>1. Coming
    BY <1>1, NotAUser DEF WillBeTold
  <2>2. s = "sent" => Answer(b)'
    BY <1>2, <1>5 DEF Answer
  <2>3. \A r \in asked : Answer(r) => r \in asked' /\ Answer(r)'
    BY <1>2, <1>6 DEF Answer
  <2>4. CASE s = "sent"
    BY <1>6, <2>2, <2>4 DEF Coming
  <2>5. CASE timer' = timer
    BY <1>2, <2>1, <2>3, <2>5 DEF Coming
  <2> QED
    BY <1>3, <2>4, <2>5
<1>11. LatestShown'
  BY <1>1, <1>2 DEF LatestShown, OnThePage
<1> QED
  BY <1>7, <1>8, <1>9, <1>10, <1>11 DEF PageInv

\* The stream opens, breaks with what is on it, is tried again; an event sets the timer.
LEMMA StreamKeeps ==
  ASSUME PageInv,
         \/ Page!StreamOpens \/ Page!StreamBreaks \/ Page!RetryTimer \/ Page!EventArrives
         \/ UNCHANGED Page!vars
  PROVE  PageInv'
<1>1. /\ UNCHANGED <<truth, due, session, who, screen, shown, asked, latest, overtaken>>
      /\ \/ events' = events \/ events # "off"
      /\ \/ event' = event /\ timer' = timer /\ untold' = untold
         \/ timer' = TRUE /\ event = TRUE /\ event' = FALSE /\ untold' = untold
         \/ event = TRUE /\ event' = FALSE /\ timer' = timer /\ untold' = [untold EXCEPT ![who] = TRUE]
         \/ event # TRUE /\ event' = FALSE /\ timer' = timer /\ untold' = untold
  BY DEF Page!StreamOpens, Page!StreamBreaks, Page!RetryTimer, Page!EventArrives, Page!vars,
         Page!authVars, Page!streamVars, Page!notes
<1>2. PageTypes /\ BootAlone /\ WillBeTold /\ LatestShown
  BY DEF PageInv
<1>3. event = TRUE => who \in PageUsers
  BY <1>2 DEF PageTypes, BootAlone
<1>4. untold' \in [PageUsers -> BOOLEAN] /\ \A u \in PageUsers : untold'[u] = untold[u] \/ untold'[u] = TRUE
  BY <1>1, <1>2, <1>3 DEF PageTypes
<1>5. PageTypes'
  BY <1>1, <1>2, <1>4 DEF PageTypes
<1>6. \A r \in asked' : Asked(r)'
  BY <1>1 DEF PageInv, Asked
<1>7. BootAlone'
  <2>1. ASSUME NEW r \in asked, r.kind = "boot", r.at = "answered"
        PROVE  untold'[r.of] \/ due[r.of] # {} \/ r.version = truth[r.of]
    <3>1. r.of \in PageUsers /\ (untold[r.of] \/ due[r.of] # {} \/ r.version = truth[r.of])
      BY <1>2, <2>1 DEF PageInv, Asked, BootAlone
    <3> QED
      BY <1>4, <3>1
  <2>2. who = None => event' = FALSE /\ timer' = FALSE /\ events' = "off" /\ latest' = 0
    BY <1>1, <1>2 DEF BootAlone
  <2> QED
    BY <1>1, <1>2, <2>1, <2>2 DEF BootAlone
<1>8. WillBeTold'
  <2> SUFFICES ASSUME who # None, ~ (untold'[who] = TRUE) PROVE Coming'
    BY <1>1 DEF WillBeTold
  <2>1. who \in PageUsers /\ untold[who] # TRUE /\ Coming
    BY <1>2, <1>4 DEF WillBeTold, PageTypes
  <2>2. \A q \in asked : Answer(q) => q \in asked' /\ Answer(q)'
    BY <1>1 DEF Answer
  <2>3. untold' # [untold EXCEPT ![who] = TRUE] \/ event # TRUE
    BY <1>2, <2>1 DEF PageTypes
  <2>4. (event' = TRUE \/ timer' = TRUE) \/ (event' = event /\ timer' = timer)
        \/ (event # TRUE /\ timer' = timer)
    BY <1>1, <2>3
  <2> QED
    BY <1>1, <2>1, <2>2, <2>4 DEF Coming
<1>9. LatestShown'
  BY <1>1, <1>2 DEF LatestShown, OnThePage
<1> QED
  BY <1>5, <1>6, <1>7, <1>8, <1>9 DEF PageInv

\* A console at rest shows what the gateway has, except for what it cannot know.
THEOREM ServicesConsole == Spec => []RestIsCurrent
<1>1. Page!Init => PageInv
  <2> SUFFICES ASSUME Page!Init PROVE PageInv
    OBVIOUS
  <2>1. /\ truth = [u \in PageUsers |-> 0] /\ session = None /\ who = None /\ screen = "auth"
        /\ shown = [of |-> None, version |-> 0] /\ asked = {} /\ events = "off"
        /\ event = FALSE /\ timer = FALSE /\ latest = 0 /\ overtaken = FALSE
        /\ untold = [u \in PageUsers |-> FALSE] /\ due = [u \in PageUsers |-> {}]
    BY DEF Page!Init, Page!Empty
  <2>2. PageTypes
    BY <2>1 DEF PageTypes
  <2> QED
    BY <2>1, <2>2 DEF PageInv, BootAlone, WillBeTold, LatestShown, OnThePage
<1>2. PageInv /\ [Page!Next]_(Page!vars) => PageInv'
  <2> SUFFICES ASSUME PageInv, [Page!Next]_(Page!vars) PROVE PageInv'
    OBVIOUS
  <2>1. ASSUME NEW u \in PageUsers,
               \/ Page!TunnelRegistered(u) \/ Page!TunnelCloses(u) \/ Page!RedirectSwept(u)
               \/ Page!EntryFiled(u) \/ Page!BindFails(u) \/ Page!AdminDeletes(u)
               \/ Page!OtherActs(u) \/ Page!OtherDone(u)
               \/ Page!doLogin(u) \/ Page!doRegister(u)
        PROVE  PageInv'
    BY <2>1, GatewayKeeps, SignsInKeeps
  <2>2. CASE Page!Load \/ Page!doLogout
    BY <2>2, LeavesKeeps
  <2>3. ASSUME NEW r \in asked,
               \/ Page!Acts(r) \/ Page!ActDone(r) \/ Page!Answers(r)
               \/ Page!Renders(r) \/ Page!Enters(r) \/ Page!Fails(r)
        PROVE  PageInv'
    BY <2>3, ActsKeeps, AnswersKeeps, RendersKeeps, EntersKeeps, FailsKeeps
  <2>4. CASE (\E s \in {"acting", "sent"} : Page!Clicks(s)) \/ Page!TimerFires
    BY <2>4, AsksKeeps
  <2>5. CASE \/ Page!StreamOpens \/ Page!StreamBreaks \/ Page!RetryTimer \/ Page!EventArrives
             \/ UNCHANGED Page!vars
    BY <2>5, StreamKeeps
  <2> QED
    BY <2>1, <2>2, <2>3, <2>4, <2>5 DEF Page!Next
<1>3. PageInv => RestIsCurrent
  <2> SUFFICES ASSUME PageInv, Page!AtRest, ~ untold[who]
               PROVE  latest = truth[who] /\ (~overtaken => shown = Page!List(who))
    BY DEF RestIsCurrent, Page!RestIsCurrent
  <2>1. /\ who # None /\ asked = {} /\ who \in PageUsers /\ due[who] = {}
        /\ event # TRUE /\ timer # TRUE /\ untold[who] # TRUE
    BY DEF Page!AtRest, PageInv, PageTypes
  <2>2. latest = truth[who]
    BY <2>1 DEF PageInv, WillBeTold, Coming
  <2>3. ~overtaken => shown = OnThePage(who, latest)
    BY DEF PageInv, LatestShown
  <2> QED
    BY <2>2, <2>3 DEF Page!List, OnThePage
<1> QED
  BY <1>1, <1>2, <1>3, PageSpec, PTL DEF Page!Spec

-----------------------------------------------------------------------------
(***************************************************************************)
(* Persistent services.  What makes a list that a command writes safe is   *)
(* what it knows of each name that left a trace in the operating system:   *)
(* it keeps the name on its list, or another command that is at work on    *)
(* the name will write it, or has since the list was read (behind), or the *)
(* name is excused (Known).  A command that removed the units of a name    *)
(* does not hold it any longer, although it has still to take it off the   *)
(* list: two commands that remove a name do not cover for each other.      *)
(***************************************************************************)

\* The services behave as PublishedServices says, with two editions.
LEMMA UnitsSpec == Spec => Units!Init /\ [][Units!TwoEditions]_(Units!vars)
<1>1. Init => Units!Init
  BY DEF Init
<1>2. [Next]_vars => [Units!TwoEditions]_(Units!vars)
  BY DEF Next, vars, unitVars, Units!vars, Units!osVars, Units!notes
<1> QED
  BY <1>1, <1>2, PTL DEF Spec

Commands == [cmd : {"none", "install", "uninstall", "all"},
             at : {"off", "unit", "enable", "start", "remove", "reread", "write", "fill"},
             todo : SUBSET ServiceNames, list : SUBSET ServiceNames]

UnitTypes ==
  /\ platform \in {"linux", "darwin", "win32"} /\ registry \in SUBSET ServiceNames
  /\ unit \in [ServiceNames -> {"absent", "written", "enabled"}]
  /\ service \in [ServiceNames -> {"stopped", "up", "waiting", "dropped", "reopened"}]
  /\ manager \in [Managers -> Commands] /\ behind \in [Managers -> SUBSET ServiceNames]
  /\ excused \in SUBSET ServiceNames

\* What the system runs, would run, or would run if it was told to.
Trace(n) ==
  \/ unit[n] = "enabled" \/ service[n] # "stopped"
  \/ platform = "linux" /\ unit[n] = "written"

\* A command is at work on the units of a name.
Holds(m, n) ==
  n \in manager[m].todo /\ (manager[m].cmd = "install" \/ manager[m].at = "remove")
HeldBy(n) == \E m \in Managers : Holds(m, n)

\* A name that the command will write because it read it.
Keeps(m, n) ==
  /\ n \in manager[m].list
  /\ \/ manager[m].cmd = "install"
     \/ manager[m].cmd = "uninstall" /\ (n \notin manager[m].todo \/ manager[m].at = "remove")

Covered(n)  == Trace(n) => n \in registry \/ n \in excused \/ HeldBy(n)
Known(m, n) == manager[m].at # "off" /\ Trace(n) =>
                 n \in excused \/ n \in behind[m] \/ HeldBy(n) \/ Keeps(m, n)
\* Of the commands that remove, one has a name and one has them all.
OneName(m)  ==
  /\ manager[m].cmd = "uninstall" => \E n \in ServiceNames : manager[m].todo = {n}
  /\ manager[m].at = "remove" => manager[m].cmd # "install"

UnitsInv ==
  /\ UnitTypes
  /\ \A n \in ServiceNames : Covered(n)
  /\ \A m \in Managers, n \in ServiceNames : Known(m, n)
  /\ \A m \in Managers : OneName(m)

\* A command goes on to its next step.
LEMMA GoesOnTo ==
  ASSUME UnitTypes, NEW m \in Managers, NEW to \in {"unit", "enable", "start", "write", "fill"},
         Units!Moves(m, to)
  PROVE  /\ manager' \in [Managers -> Commands] /\ manager'[m].at = to
         /\ manager'[m].cmd = manager[m].cmd /\ manager'[m].todo = manager[m].todo
         /\ manager'[m].list = manager[m].list
         /\ \A o \in Managers : o # m => manager'[o] = manager[o]
<1>1. manager' = [manager EXCEPT ![m] = [manager[m] EXCEPT !.at = to]]
  BY DEF Units!Moves
<1>2. manager \in [Managers -> Commands] /\ manager[m] \in Commands
  BY DEF UnitTypes
<1>3. [manager[m] EXCEPT !.at = to] \in Commands
  BY <1>2 DEF Commands
<1>4. manager'[m] = [manager[m] EXCEPT !.at = to] /\ \A o \in Managers : o # m => manager'[o] = manager[o]
  BY <1>1, <1>2
<1>5. manager' \in [Managers -> Commands]
  BY <1>1, <1>2, <1>3
<1> QED
  BY <1>2, <1>4, <1>5 DEF Commands

\* A command ends.
LEMMA GoesOff ==
  ASSUME UnitTypes, NEW m \in Managers, Units!Moves(m, "off")
  PROVE  /\ manager' \in [Managers -> Commands]
         /\ manager'[m] = [cmd |-> "none", at |-> "off", todo |-> {}, list |-> {}]
         /\ \A o \in Managers : o # m => manager'[o] = manager[o]
<1>1. manager' = [manager EXCEPT ![m] = [cmd |-> "none", at |-> "off", todo |-> {}, list |-> {}]]
  BY DEF Units!Moves, Units!Off
<1>2. [cmd |-> "none", at |-> "off", todo |-> {}, list |-> {}] \in Commands
  BY DEF Commands
<1> QED
  BY <1>1, <1>2 DEF UnitTypes

\* What the user and the system do with a unit makes no new trace.
LEMMA SystemKeeps ==
  ASSUME UnitsInv, Units!SystemStep \/ UNCHANGED Units!vars
  PROVE  UnitsInv'
<1>1. UnitTypes
  BY DEF UnitsInv
<1>2. UNCHANGED <<platform, registry, unit, manager, behind, excused>>
  BY DEF Units!SystemStep, Units!vars, Units!osVars, Units!notes, Units!StartService,
         Units!StopService, Units!RestartService, Units!Exits, Units!TunnelRemoved,
         Units!Restarts, Units!InstallInfrastructure, Units!Reboot, Units!Login
<1> DEFINE Fades ==
      /\ service' \in [ServiceNames -> {"stopped", "up", "waiting", "dropped", "reopened"}]
      /\ \A n \in ServiceNames : service'[n] # "stopped" => Trace(n)
<1>3. ASSUME NEW n \in ServiceNames,
             \/ Units!StartService(n) \/ Units!StopService(n) \/ Units!RestartService(n)
             \/ Units!Exits(n) \/ Units!TunnelRemoved(n) \/ Units!Restarts(n)
      PROVE  Fades
  <2>1. /\ Trace(n)
        /\ \E s \in {"stopped", "up", "waiting", "dropped", "reopened"} :
             service' = [service EXCEPT ![n] = s]
    BY <1>1, <1>3
       DEF UnitTypes, Trace, Units!StartService, Units!StopService, Units!RestartService,
           Units!Exits, Units!TunnelRemoved, Units!Restarts, Units!StopSystemd, Units!StopLaunchd,
           Units!StopWindows, Units!Down, Units!Up, Units!Runs
  <2> QED
    BY <1>1, <2>1 DEF UnitTypes, Trace
<1>4. ASSUME Units!Reboot PROVE Fades
  <2>1. service' = [n \in ServiceNames |->
          IF unit[n] = "enabled" /\ n \in early THEN Units!Up(service[n]) ELSE "stopped"]
    BY <1>4 DEF Units!Reboot
  <2>2. \A n \in ServiceNames : Units!Up(service[n]) \in {"up", "reopened"}
    BY DEF Units!Up
  <2>3. \A n \in ServiceNames :
          /\ service'[n] \in {"stopped", "up", "reopened"}
          /\ service'[n] # "stopped" => unit[n] = "enabled"
    BY <2>1, <2>2
  <2>4. service' \in [ServiceNames -> {"stopped", "up", "waiting", "dropped", "reopened"}]
    BY <2>1, <2>3
  <2> QED
    BY <2>3, <2>4 DEF Trace
<1>5. ASSUME Units!Login PROVE Fades
  <2>1. service' = [n \in ServiceNames |->
          IF unit[n] = "enabled" /\ n \notin early THEN "up" ELSE service[n]]
    BY <1>5 DEF Units!Login
  <2>2. \A n \in ServiceNames :
          service[n] \in {"stopped", "up", "waiting", "dropped", "reopened"}
    BY <1>1 DEF UnitTypes
  <2>3. \A n \in ServiceNames :
          /\ service'[n] \in {"stopped", "up", "waiting", "dropped", "reopened"}
          /\ service'[n] # "stopped" => unit[n] = "enabled" \/ service[n] # "stopped"
    BY <2>1, <2>2
  <2>4. service' \in [ServiceNames -> {"stopped", "up", "waiting", "dropped", "reopened"}]
    BY <2>1, <2>3
  <2> QED
    BY <2>3, <2>4 DEF Trace
<1>6. ASSUME Units!InstallInfrastructure \/ UNCHANGED Units!vars PROVE Fades
  <2>1. service' = service
    BY <1>6 DEF Units!InstallInfrastructure, Units!vars, Units!osVars
  <2> QED
    BY <1>1, <2>1 DEF UnitTypes, Trace
<1> HIDE DEF Fades
<1>7. Fades
  BY <1>3, <1>4, <1>5, <1>6 DEF Units!SystemStep
<1> USE DEF Fades
<1>8. UnitTypes'
  BY <1>1, <1>2, <1>7 DEF UnitTypes
<1>9. \A n \in ServiceNames : Trace(n)' => Trace(n)
  BY <1>2, <1>7 DEF Trace
<1>10. /\ \A n \in ServiceNames : HeldBy(n)' <=> HeldBy(n)
       /\ \A m \in Managers, n \in ServiceNames : Keeps(m, n)' <=> Keeps(m, n)
  BY <1>2 DEF HeldBy, Holds, Keeps
<1>11. \A n \in ServiceNames : Covered(n)'
  BY <1>2, <1>9, <1>10 DEF UnitsInv, Covered
<1>12. \A m \in Managers, n \in ServiceNames : Known(m, n)'
  BY <1>2, <1>9, <1>10 DEF UnitsInv, Known
<1>13. \A m \in Managers : OneName(m)'
  BY <1>2 DEF UnitsInv, OneName
<1> QED
  BY <1>8, <1>11, <1>12, <1>13 DEF UnitsInv

\* The steps of an installation leave traces of a name that the command holds.
LEMMA InstallKeeps ==
  ASSUME UnitsInv, NEW m \in Managers, NEW n \in ServiceNames,
         NEW to \in {"enable", "start", "write"}, Units!Installs(m, n), Units!Moves(m, to),
         UNCHANGED <<platform, registry, behind, excused>>,
         \E u \in {"written", "enabled", unit[n]} : unit' = [unit EXCEPT ![n] = u],
         service' \in {service, [service EXCEPT ![n] = "up"]},
         manager[m].at # "off"
  PROVE  UnitsInv'
<1>1. UnitTypes /\ manager[m].cmd = "install" /\ manager[m].todo = {n}
  BY DEF UnitsInv, Units!Installs
<1>2. /\ manager' \in [Managers -> Commands] /\ manager'[m].at = to
      /\ manager'[m].cmd = manager[m].cmd /\ manager'[m].todo = manager[m].todo
      /\ manager'[m].list = manager[m].list
      /\ \A o \in Managers : o # m => manager'[o] = manager[o]
  BY <1>1, GoesOnTo
<1>3. /\ unit' \in [ServiceNames -> {"absent", "written", "enabled"}]
      /\ \A k \in ServiceNames : k # n => unit'[k] = unit[k]
  BY <1>1 DEF UnitTypes
<1>4. /\ service' \in [ServiceNames -> {"stopped", "up", "waiting", "dropped", "reopened"}]
      /\ \A k \in ServiceNames : k # n => service'[k] = service[k]
  BY <1>1 DEF UnitTypes
<1>5. UnitTypes'
  BY <1>1, <1>2, <1>3, <1>4 DEF UnitTypes
<1>6. HeldBy(n)'
  BY <1>1, <1>2 DEF HeldBy, Holds
<1>7. \A k \in ServiceNames : k # n => (Trace(k)' <=> Trace(k))
  BY <1>3, <1>4 DEF Trace
<1>8. \A k \in ServiceNames, o \in Managers : Holds(o, k) => Holds(o, k)'
  BY <1>1, <1>2 DEF Holds
<1>9. \A k \in ServiceNames, o \in Managers : Keeps(o, k) => Keeps(o, k)'
  BY <1>1, <1>2 DEF Keeps
<1>10. \A k \in ServiceNames : HeldBy(k) => HeldBy(k)'
  BY <1>8 DEF HeldBy
<1>11. \A k \in ServiceNames : Covered(k)'
  BY <1>6, <1>7, <1>10 DEF UnitsInv, Covered
<1>12. ASSUME NEW o \in Managers, NEW k \in ServiceNames PROVE Known(o, k)'
  <2>1. manager'[o].at # "off" => manager[o].at # "off"
    BY <1>2
  <2> QED
    BY <1>6, <1>7, <1>9, <1>10, <2>1 DEF UnitsInv, Known
<1>13. \A o \in Managers : OneName(o)'
  BY <1>1, <1>2 DEF UnitsInv, OneName
<1> QED
  BY <1>5, <1>11, <1>12, <1>13 DEF UnitsInv

\* A command begins, with the list as it is, or with none if the file does not parse.
LEMMA BeginsKeeps ==
  ASSUME UnitsInv, NEW m \in Managers,
         NEW cmd, NEW a, NEW todo, Units!Begins(m, cmd, a, todo),
         \/ cmd = "install" /\ a = "unit" /\ \E n \in ServiceNames : todo = {n}
         \/ cmd = "uninstall" /\ a = "remove" /\ \E n \in ServiceNames : todo = {n}
         \/ cmd = "all" /\ a = "remove" /\ todo = registry /\ ~ torn
  PROVE  UnitsInv'
<1>1. /\ UnitTypes /\ manager[m] = [cmd |-> "none", at |-> "off", todo |-> {}, list |-> {}]
      /\ manager' = [manager EXCEPT ![m] =
           [cmd |-> cmd, at |-> a, todo |-> todo, list |-> IF torn THEN {} ELSE registry]]
      /\ behind' = [behind EXCEPT ![m] = IF torn THEN ServiceNames ELSE {}]
      /\ UNCHANGED <<platform, registry, unit, service, excused>>
  BY DEF UnitsInv, Units!Begins, Units!Off, Units!Registry, Units!osVars
<1>2. [cmd |-> cmd, at |-> a, todo |-> todo, list |-> IF torn THEN {} ELSE registry] \in Commands
  BY <1>1 DEF UnitTypes, Commands
<1>3. /\ manager' \in [Managers -> Commands]
      /\ manager'[m] = [cmd |-> cmd, at |-> a, todo |-> todo, list |-> IF torn THEN {} ELSE registry]
      /\ \A o \in Managers : o # m => manager'[o] = manager[o]
  BY <1>1, <1>2 DEF UnitTypes
<1>4. /\ behind' \in [Managers -> SUBSET ServiceNames]
      /\ behind'[m] = IF torn THEN ServiceNames ELSE {}
      /\ \A o \in Managers : o # m => behind'[o] = behind[o]
  BY <1>1 DEF UnitTypes
<1>5. UnitTypes'
  BY <1>1, <1>3, <1>4 DEF UnitTypes
<1>6. \A n \in ServiceNames : Trace(n)' <=> Trace(n)
  BY <1>1 DEF Trace
<1>7. \A n \in ServiceNames, o \in Managers : Holds(o, n) => Holds(o, n)'
  BY <1>1, <1>3 DEF Holds
<1>8. \A n \in ServiceNames : HeldBy(n) => HeldBy(n)'
  BY <1>7 DEF HeldBy
<1>9. \A n \in ServiceNames : Covered(n)'
  BY <1>1, <1>6, <1>8 DEF UnitsInv, Covered
<1>10. ASSUME NEW n \in ServiceNames, Trace(n), ~ torn, n \in registry
       PROVE  HeldBy(n)' \/ Keeps(m, n)'
  <2>1. CASE cmd = "all"
    <3>1. Holds(m, n)'
      BY <1>3, <1>10, <2>1 DEF Holds
    <3> QED
      BY <3>1 DEF HeldBy
  <2>2. CASE cmd # "all"
    BY <1>3, <1>10, <2>2 DEF Keeps
  <2> QED
    BY <2>1, <2>2
<1>11. ASSUME NEW n \in ServiceNames PROVE Known(m, n)'
  <2> SUFFICES ASSUME Trace(n)
               PROVE  n \in excused' \/ n \in behind'[m] \/ HeldBy(n)' \/ Keeps(m, n)'
    BY <1>6 DEF Known
  <2>1. n \in registry \/ n \in excused \/ HeldBy(n)
    BY DEF UnitsInv, Covered
  <2> QED
    BY <1>1, <1>4, <1>8, <1>10, <2>1
<1>12. ASSUME NEW o \in Managers, o # m, NEW n \in ServiceNames PROVE Known(o, n)'
  <2>1. Keeps(o, n)' <=> Keeps(o, n)
    BY <1>3, <1>12 DEF Keeps
  <2>2. manager'[o] = manager[o] /\ behind'[o] = behind[o]
    BY <1>3, <1>4, <1>12
  <2> QED
    BY <1>1, <1>6, <1>8, <2>1, <2>2 DEF UnitsInv, Known
<1>13. \A o \in Managers : OneName(o)'
  BY <1>3 DEF UnitsInv, OneName
<1> QED
  BY <1>5, <1>9, <1>11, <1>12, <1>13 DEF UnitsInv

\* A command ends before it has written: its names are excused.
LEMMA EndsKeeps ==
  ASSUME UnitsInv, NEW m \in Managers, Units!Moves(m, "off"),
         UNCHANGED <<platform, registry, unit, service>>,
         excused' = excused \cup manager[m].todo,
         behind' \in {behind, [behind EXCEPT ![m] = {}]}
  PROVE  UnitsInv'
<1>1. UnitTypes /\ manager[m].todo \in SUBSET ServiceNames
  BY DEF UnitsInv, UnitTypes, Commands
<1>2. /\ manager' \in [Managers -> Commands]
      /\ manager'[m] = [cmd |-> "none", at |-> "off", todo |-> {}, list |-> {}]
      /\ \A o \in Managers : o # m => manager'[o] = manager[o]
  BY <1>1, GoesOff
<1>3. /\ behind' \in [Managers -> SUBSET ServiceNames]
      /\ \A o \in Managers : o # m => behind'[o] = behind[o]
  BY <1>1 DEF UnitTypes
<1>4. UnitTypes'
  BY <1>1, <1>2, <1>3 DEF UnitTypes
<1>5. \A n \in ServiceNames : Trace(n)' <=> Trace(n)
  BY DEF Trace
<1>6. ASSUME NEW n \in ServiceNames PROVE HeldBy(n) => HeldBy(n)' \/ n \in excused'
  <2>1. ASSUME NEW o \in Managers, Holds(o, n) PROVE Holds(o, n)' \/ n \in manager[m].todo
    BY <1>2, <2>1 DEF Holds
  <2> QED
    BY <2>1 DEF HeldBy
<1>7. \A n \in ServiceNames : Covered(n)'
  BY <1>5, <1>6 DEF UnitsInv, Covered
<1>8. ASSUME NEW o \in Managers, NEW n \in ServiceNames PROVE Known(o, n)'
  <2>1. CASE o = m
    BY <1>2, <2>1 DEF Known
  <2>2. CASE o # m
    <3>1. (Keeps(o, n)' <=> Keeps(o, n)) /\ manager'[o] = manager[o] /\ behind'[o] = behind[o]
      BY <1>2, <1>3, <2>2 DEF Keeps
    <3> QED
      BY <1>5, <1>6, <3>1 DEF UnitsInv, Known
  <2> QED
    BY <2>1, <2>2
<1>9. \A o \in Managers : OneName(o)'
  BY <1>2 DEF UnitsInv, OneName
<1> QED
  BY <1>4, <1>7, <1>8, <1>9 DEF UnitsInv

\* Removing the units of a name leaves no trace of it, or excuses it.
LEMMA UnitRemoved ==
  ASSUME UnitTypes, NEW n \in ServiceNames, Units!RemovePlatformService(n), platform' = platform
  PROVE  /\ unit' \in [ServiceNames -> {"absent", "written", "enabled"}]
         /\ service' \in [ServiceNames -> {"stopped", "up", "waiting", "dropped", "reopened"}]
         /\ excused' \in SUBSET ServiceNames /\ excused \subseteq excused'
         /\ \A k \in ServiceNames : k # n => unit'[k] = unit[k] /\ service'[k] = service[k]
         /\ Trace(n)' => n \in excused'
<1>1. /\ \E u \in {"absent", unit[n]} : unit' = [unit EXCEPT ![n] = u]
      /\ \E s \in {"stopped", service[n]} : service' = [service EXCEPT ![n] = s]
      /\ excused' \in {excused, excused \cup {n}}
      /\ \/ platform \in {"linux", "darwin"} /\ unit'[n] = "absent"
         \/ platform = "win32"
      /\ \/ n \in excused'
         \/ service'[n] = "stopped" /\ unit'[n] # "enabled"
  <2>1. CASE platform = "linux"
    <3>1. Units!RemoveSystemd(n)
      BY <2>1 DEF Units!RemovePlatformService
    <3> QED
      BY <2>1, <3>1 DEF UnitTypes, Units!RemoveSystemd
  <2>2. CASE platform = "darwin"
    <3>1. Units!RemoveLaunchd(n)
      BY <2>2 DEF Units!RemovePlatformService
    <3> QED
      BY <2>2, <3>1 DEF UnitTypes, Units!RemoveLaunchd, Units!osVars
  <2>3. CASE platform = "win32"
    <3>1. Units!RemoveWindows(n)
      BY <2>3 DEF Units!RemovePlatformService
    <3> QED
      BY <2>3, <3>1 DEF UnitTypes, Units!RemoveWindows
  <2> QED
    BY <2>1, <2>2, <2>3 DEF UnitTypes
<1>2. /\ unit' \in [ServiceNames -> {"absent", "written", "enabled"}]
      /\ \A k \in ServiceNames : k # n => unit'[k] = unit[k]
  BY <1>1 DEF UnitTypes
<1>3. /\ service' \in [ServiceNames -> {"stopped", "up", "waiting", "dropped", "reopened"}]
      /\ \A k \in ServiceNames : k # n => service'[k] = service[k]
  BY <1>1 DEF UnitTypes
<1>4. excused' \in SUBSET ServiceNames /\ excused \subseteq excused'
  BY <1>1 DEF UnitTypes
<1>5. Trace(n)' => n \in excused'
  BY <1>1 DEF Trace
<1> QED
  BY <1>2, <1>3, <1>4, <1>5

\* A command removes one of its names.
LEMMA RemoveKeeps ==
  ASSUME UnitsInv, NEW m \in Managers, NEW n \in ServiceNames, Units!RemoveUnit(m, n)
  PROVE  UnitsInv'
<1> DEFINE one  == manager[m].cmd = "uninstall"
           left == IF one THEN manager[m].todo ELSE manager[m].todo \ {n}
           kept == IF one THEN manager[m].list ELSE {}
           to   == IF one THEN "reread" ELSE IF manager[m].todo = {n} THEN "write" ELSE "remove"
           next == [manager[m] EXCEPT !.list = kept, !.todo = left, !.at = to]
<1>1. /\ manager[m].at = "remove" /\ n \in manager[m].todo
      /\ Units!RemovePlatformService(n)
      /\ UNCHANGED <<platform, registry, behind>>
  BY DEF Units!RemoveUnit
<1>2. UnitTypes /\ manager[m] \in Commands
  BY DEF UnitsInv, UnitTypes
<1>3. /\ next \in Commands /\ next.cmd = manager[m].cmd
      /\ next.at = to /\ next.todo = left /\ next.list = kept
  <2>1. left \in SUBSET ServiceNames /\ kept \in SUBSET ServiceNames /\ to \in {"reread", "write", "remove"}
    BY <1>2 DEF Commands
  <2> HIDE DEF left, kept, to
  <2> QED
    BY <1>2, <2>1 DEF Commands
<1>4. manager' = [manager EXCEPT ![m] = next]
  <2>1. manager' = [manager EXCEPT ![m].list = kept, ![m].todo = left, ![m].at = to]
    BY <1>2 DEF Units!RemoveUnit, UnitTypes, Commands
  <2> HIDE DEF left, kept, to
  <2> QED
    BY <1>2, <2>1 DEF UnitTypes
<1>5. /\ manager' \in [Managers -> Commands] /\ manager'[m] = next
      /\ \A o \in Managers : o # m => manager'[o] = manager[o]
  <2> HIDE DEF next
  <2> QED
    BY <1>2, <1>3, <1>4 DEF UnitTypes
<1>6. /\ unit' \in [ServiceNames -> {"absent", "written", "enabled"}]
      /\ service' \in [ServiceNames -> {"stopped", "up", "waiting", "dropped", "reopened"}]
      /\ excused' \in SUBSET ServiceNames /\ excused \subseteq excused'
      /\ \A k \in ServiceNames : k # n => unit'[k] = unit[k] /\ service'[k] = service[k]
      /\ Trace(n)' => n \in excused'
  BY <1>1, <1>2, UnitRemoved
<1>7. UnitTypes'
  BY <1>1, <1>2, <1>5, <1>6 DEF UnitTypes
<1>8. \A k \in ServiceNames : k # n => (Trace(k)' <=> Trace(k))
  BY <1>1, <1>6 DEF Trace
<1>9. manager[m].cmd = "uninstall" => manager[m].todo = {n}
  BY <1>1 DEF UnitsInv, OneName
<1>10. /\ manager'[m].cmd = manager[m].cmd
       /\ one => /\ manager'[m].at = "reread" /\ manager'[m].todo = manager[m].todo
                 /\ manager'[m].list = manager[m].list
       /\ ~ one => /\ manager'[m].at = IF manager[m].todo = {n} THEN "write" ELSE "remove"
                   /\ manager'[m].todo = manager[m].todo \ {n}
  BY <1>3, <1>5
<1> HIDE DEF next
<1>11. \A o \in Managers, k \in ServiceNames : k # n /\ Holds(o, k) => Holds(o, k)'
  BY <1>5, <1>9, <1>10 DEF Holds
<1>12. \A k \in ServiceNames : k # n /\ HeldBy(k) => HeldBy(k)'
  BY <1>11 DEF HeldBy
<1>13. \A k \in ServiceNames : Covered(k)'
  BY <1>1, <1>6, <1>8, <1>12 DEF UnitsInv, Covered
<1>14. ASSUME NEW o \in Managers, NEW k \in ServiceNames, k # n PROVE Keeps(o, k) => Keeps(o, k)' \/ HeldBy(k)'
  <2>1. CASE o # m
    BY <1>5, <2>1 DEF Keeps
  <2>2. CASE o = m /\ manager[m].cmd = "uninstall"
    BY <1>9, <1>10, <1>14, <2>2 DEF Keeps
  <2>3. CASE o = m /\ manager[m].cmd # "uninstall"
    BY <1>1, <2>3 DEF UnitsInv, OneName, Keeps
  <2> QED
    BY <2>1, <2>2, <2>3
<1>15. ASSUME NEW o \in Managers, NEW k \in ServiceNames PROVE Known(o, k)'
  <2>1. manager'[o].at # "off" => manager[o].at # "off"
    BY <1>1, <1>5
  <2>2. CASE k = n
    BY <1>6, <2>2 DEF Known
  <2>3. CASE k # n
    BY <1>1, <1>6, <1>8, <1>12, <1>14, <2>1, <2>3 DEF UnitsInv, Known
  <2> QED
    BY <2>2, <2>3
<1>16. \A o \in Managers : OneName(o)'
  <2>1. OneName(m)'
    BY <1>1, <1>9, <1>10 DEF UnitsInv, OneName
  <2> QED
    BY <1>5, <2>1 DEF UnitsInv, OneName
<1> QED
  BY <1>7, <1>13, <1>15, <1>16 DEF UnitsInv

\* A command that removes one name reads the list again.
LEMMA ReadAgainKeeps ==
  ASSUME UnitsInv, NEW m \in Managers, Units!ReadAgain(m)
  PROVE  UnitsInv'
<1> DEFINE list == IF torn THEN {} ELSE registry
           next == [manager[m] EXCEPT !.list = list, !.at = "write"]
<1>1. /\ manager[m].at = "reread" /\ manager' = [manager EXCEPT ![m].list = list, ![m].at = "write"]
      /\ behind' = [behind EXCEPT ![m] = IF torn THEN ServiceNames ELSE behind[m]]
      /\ UNCHANGED <<platform, registry, unit, service, excused>>
  BY DEF Units!ReadAgain, Units!Registry, Units!osVars
<1>2. UnitTypes /\ manager[m] \in Commands /\ list \in SUBSET ServiceNames
  BY DEF UnitsInv, UnitTypes
<1>3. manager' = [manager EXCEPT ![m] = next]
  <2> HIDE DEF list
  <2> QED
    BY <1>1, <1>2 DEF UnitTypes, Commands
<1>4. /\ next \in Commands /\ next.cmd = manager[m].cmd /\ next.at = "write"
      /\ next.todo = manager[m].todo /\ next.list = list
  <2> HIDE DEF list
  <2> QED
    BY <1>2 DEF Commands
<1> HIDE DEF next
<1>5. /\ manager' \in [Managers -> Commands] /\ manager'[m] = next
      /\ \A o \in Managers : o # m => manager'[o] = manager[o]
  BY <1>2, <1>3, <1>4 DEF UnitTypes
<1>6. /\ behind' \in [Managers -> SUBSET ServiceNames]
      /\ behind'[m] = IF torn THEN ServiceNames ELSE behind[m]
      /\ \A o \in Managers : o # m => behind'[o] = behind[o]
  BY <1>1, <1>2 DEF UnitTypes
<1>7. UnitTypes'
  BY <1>1, <1>2, <1>5, <1>6 DEF UnitTypes
<1>8. \A n \in ServiceNames : Trace(n)' <=> Trace(n)
  BY <1>1 DEF Trace
<1>9. \A n \in ServiceNames, o \in Managers : Holds(o, n)' <=> Holds(o, n)
  BY <1>1, <1>4, <1>5 DEF Holds
<1>10. \A n \in ServiceNames : HeldBy(n)' <=> HeldBy(n)
  BY <1>9 DEF HeldBy
<1>11. \A n \in ServiceNames : Covered(n)'
  BY <1>1, <1>8, <1>10 DEF UnitsInv, Covered
<1>12. ASSUME NEW n \in ServiceNames PROVE Known(m, n)'
  <2> SUFFICES ASSUME Trace(n), n \notin excused, ~ HeldBy(n), ~ torn, n \notin behind[m]
               PROVE  Keeps(m, n)'
    BY <1>1, <1>6, <1>8, <1>10 DEF Known
  <2>1. n \in registry
    BY DEF UnitsInv, Covered
  <2>2. Keeps(m, n)
    BY <1>1 DEF UnitsInv, Known
  <2> QED
    BY <1>1, <1>4, <1>5, <2>1, <2>2 DEF Keeps
<1>13. ASSUME NEW o \in Managers, o # m, NEW n \in ServiceNames PROVE Known(o, n)'
  <2>1. (Keeps(o, n)' <=> Keeps(o, n)) /\ manager'[o] = manager[o] /\ behind'[o] = behind[o]
    BY <1>5, <1>6, <1>13 DEF Keeps
  <2> QED
    BY <1>1, <1>8, <1>10, <2>1 DEF UnitsInv, Known
<1>14. \A o \in Managers : OneName(o)'
  BY <1>4, <1>5 DEF UnitsInv, OneName
<1> QED
  BY <1>7, <1>11, <1>12, <1>13, <1>14 DEF UnitsInv

\* The file is truncated: what it held is still what the others know.
LEMMA TruncateKeeps ==
  ASSUME UnitsInv, NEW m \in Managers, Units!Truncate(m)
  PROVE  UnitsInv'
<1>1. /\ UnitTypes /\ manager[m].at = "write" /\ Units!Moves(m, "fill")
      /\ UNCHANGED <<platform, registry, unit, service, behind, excused>>
  BY DEF UnitsInv, Units!Truncate, Units!osVars, Units!notes
<1>2. /\ manager' \in [Managers -> Commands] /\ manager'[m].at = "fill"
      /\ manager'[m].cmd = manager[m].cmd /\ manager'[m].todo = manager[m].todo
      /\ manager'[m].list = manager[m].list
      /\ \A o \in Managers : o # m => manager'[o] = manager[o]
  BY <1>1, GoesOnTo
<1>3. UnitTypes'
  BY <1>1, <1>2 DEF UnitTypes
<1>4. /\ \A n \in ServiceNames : Trace(n)' <=> Trace(n)
      /\ \A n \in ServiceNames, o \in Managers : Holds(o, n)' <=> Holds(o, n)
      /\ \A n \in ServiceNames, o \in Managers : Keeps(o, n)' <=> Keeps(o, n)
  BY <1>1, <1>2 DEF Trace, Holds, Keeps
<1>5. \A n \in ServiceNames : HeldBy(n)' <=> HeldBy(n)
  BY <1>4 DEF HeldBy
<1>6. \A n \in ServiceNames : Covered(n)'
  BY <1>1, <1>4, <1>5 DEF UnitsInv, Covered
<1>7. ASSUME NEW o \in Managers, NEW n \in ServiceNames PROVE Known(o, n)'
  <2>1. manager'[o].at # "off" => manager[o].at # "off"
    BY <1>1, <1>2
  <2> QED
    BY <1>1, <1>4, <1>5, <2>1 DEF UnitsInv, Known
<1>8. \A o \in Managers : OneName(o)'
  BY <1>2 DEF UnitsInv, OneName
<1> QED
  BY <1>3, <1>6, <1>7, <1>8 DEF UnitsInv

\* The file is filled: the command knew each name that left a trace.
LEMMA FillKeeps ==
  ASSUME UnitsInv, NEW m \in Managers, Units!Fill(m)
  PROVE  UnitsInv'
<1> DEFINE adds == IF manager[m].cmd = "install" THEN manager[m].todo ELSE {}
<1>1. /\ manager[m].at = "fill" /\ registry' = Units!Written(m) /\ Units!Moves(m, "off")
      /\ behind' = [o \in Managers |-> IF o = m THEN {} ELSE behind[o] \cup adds]
      /\ excused' = (excused \cup behind[m]) \ adds
      /\ UNCHANGED <<platform, unit, service>>
  BY DEF Units!Fill, Units!osVars
<1>2. UnitTypes /\ manager[m] \in Commands /\ adds \in SUBSET ServiceNames
  BY DEF UnitsInv, UnitTypes, Commands
<1>3. /\ manager[m].cmd = "install" => Units!Written(m) = manager[m].list \cup manager[m].todo
      /\ manager[m].cmd = "uninstall" => Units!Written(m) = manager[m].list \ manager[m].todo
      /\ Units!Written(m) \in SUBSET ServiceNames
  BY <1>2 DEF Units!Written, Commands
<1>4. /\ adds \subseteq registry'
      /\ manager[m].cmd = "install" => manager[m].list \subseteq registry' /\ adds = manager[m].todo
  BY <1>1, <1>3
<1> HIDE DEF adds
<1>5. /\ manager' \in [Managers -> Commands]
      /\ manager'[m] = [cmd |-> "none", at |-> "off", todo |-> {}, list |-> {}]
      /\ \A o \in Managers : o # m => manager'[o] = manager[o]
  BY <1>1, <1>2, GoesOff
<1>6. /\ behind' \in [Managers -> SUBSET ServiceNames]
      /\ \A o \in Managers : o # m => behind'[o] = behind[o] \cup adds
  BY <1>1, <1>2 DEF UnitTypes
<1>7. UnitTypes'
  BY <1>1, <1>2, <1>3, <1>5, <1>6 DEF UnitTypes
<1>8. \A n \in ServiceNames : Trace(n)' <=> Trace(n)
  BY <1>1 DEF Trace
<1>9. ASSUME NEW n \in ServiceNames PROVE HeldBy(n) => HeldBy(n)' \/ n \in adds
  <2>1. ASSUME NEW o \in Managers, Holds(o, n) PROVE Holds(o, n)' \/ n \in adds
    BY <1>1, <1>4, <1>5, <2>1 DEF Holds
  <2> QED
    BY <2>1 DEF HeldBy
<1>10. ASSUME NEW n \in ServiceNames PROVE Covered(n)'
  <2> SUFFICES ASSUME Trace(n) PROVE n \in registry' \/ n \in excused' \/ HeldBy(n)'
    BY <1>8 DEF Covered
  <2>1. n \in excused \/ n \in behind[m] \/ HeldBy(n) \/ Keeps(m, n)
    BY <1>1 DEF UnitsInv, Known
  <2>2. Keeps(m, n) => n \in registry'
    BY <1>1, <1>3, <1>4 DEF Keeps
  <2> QED
    BY <1>1, <1>4, <1>9, <2>1, <2>2
<1>11. ASSUME NEW o \in Managers, NEW n \in ServiceNames PROVE Known(o, n)'
  <2>1. CASE o = m
    BY <1>5, <2>1 DEF Known
  <2>2. CASE o # m
    <3>1. (Keeps(o, n)' <=> Keeps(o, n)) /\ manager'[o] = manager[o]
      BY <1>5, <2>2 DEF Keeps
    <3>2. n \in excused => n \in excused' \/ n \in behind'[o]
      BY <1>1, <1>6, <2>2
    <3> QED
      BY <1>6, <1>8, <1>9, <2>2, <3>1, <3>2 DEF UnitsInv, Known
  <2> QED
    BY <2>1, <2>2
<1>12. \A o \in Managers : OneName(o)'
  BY <1>5 DEF UnitsInv, OneName
<1> QED
  BY <1>7, <1>10, <1>11, <1>12 DEF UnitsInv

\* Every step of a command keeps the invariant.
LEMMA ManagerKeeps ==
  ASSUME UnitsInv, NEW m \in Managers, Units!ManagerStep(m)
  PROVE  UnitsInv'
<1>1. ASSUME NEW n \in ServiceNames, Units!Install(m, n) \/ Units!Uninstall(m, n)
      PROVE  UnitsInv'
  <2>1. Units!Begins(m, "install", "unit", {n}) \/ Units!Begins(m, "uninstall", "remove", {n})
    BY <1>1 DEF Units!Install, Units!Uninstall
  <2> QED
    BY <2>1, BeginsKeeps
<1>2. CASE Units!UninstallAll(m)
  <2>1. Units!Begins(m, "all", "remove", registry) /\ ~ torn
    BY <1>2 DEF Units!UninstallAll, Units!Registry
  <2> QED
    BY <2>1, BeginsKeeps
<1>3. ASSUME NEW n \in ServiceNames,
             \/ Units!WriteUnit(m, n) \/ Units!EnableSystemd(m, n) \/ Units!StartSystemd(m, n)
             \/ Units!InstallLaunchd(m, n) \/ Units!CreateTask(m, n) \/ Units!RunTask(m, n)
      PROVE  UnitsInv'
  <2>1. /\ Units!Installs(m, n) /\ manager[m].at # "off"
        /\ Units!Moves(m, "enable") \/ Units!Moves(m, "start") \/ Units!Moves(m, "write")
        /\ UNCHANGED <<platform, registry, behind, excused>>
        /\ \E u \in {"written", "enabled", unit[n]} : unit' = [unit EXCEPT ![n] = u]
        /\ service' \in {service, [service EXCEPT ![n] = "up"]}
    <3>1. unit = [unit EXCEPT ![n] = unit[n]]
      BY DEF UnitsInv, UnitTypes
    <3> QED
      BY <1>3, <3>1 DEF Units!WriteUnit, Units!EnableSystemd, Units!StartSystemd,
         Units!InstallLaunchd, Units!CreateTask, Units!RunTask, Units!notes
  <2> QED
    BY <2>1, InstallKeeps
<1>4. ASSUME NEW n \in ServiceNames, Units!SpawnFails(m, n) PROVE UnitsInv'
  <2>1. /\ Units!Moves(m, "off") /\ UNCHANGED <<platform, registry, unit, service, behind>>
        /\ excused' = excused \cup manager[m].todo
    BY <1>4 DEF Units!SpawnFails, Units!Installs, Units!osVars
  <2> QED
    BY <2>1, EndsKeeps
<1>5. CASE Units!Killed(m)
  <2>1. /\ Units!Moves(m, "off") /\ UNCHANGED <<platform, registry, unit, service>>
        /\ excused' = excused \cup manager[m].todo /\ behind' = [behind EXCEPT ![m] = {}]
    BY <1>5 DEF Units!Killed, Units!osVars
  <2> QED
    BY <2>1, EndsKeeps
<1>6. ASSUME NEW n \in ServiceNames, Units!RemoveUnit(m, n) PROVE UnitsInv'
  BY <1>6, RemoveKeeps
<1>7. CASE Units!ReadAgain(m)
  BY <1>7, ReadAgainKeeps
<1>8. CASE Units!Truncate(m)
  BY <1>8, TruncateKeeps
<1>9. CASE Units!Fill(m)
  BY <1>9, FillKeeps
<1> QED
  BY <1>1, <1>2, <1>3, <1>4, <1>5, <1>6, <1>7, <1>8, <1>9 DEF Units!ManagerStep

\* The published edition starts a service without linger, which is no part of the
\* invariant.
StartsAlone(m, n) ==
  /\ Units!Installs(m, n) /\ manager[m].at = "start" /\ Units!Moves(m, "write")
  /\ service' = [service EXCEPT ![n] = "up"]
  /\ UNCHANGED <<platform, registry, unit, behind, excused>>

\* Every step of a command of the published edition keeps the invariant.
LEMMA PublishedKeeps ==
  ASSUME UnitsInv, NEW m \in Managers, Units!PublishedStep(m)
  PROVE  UnitsInv'
<1>1. ASSUME NEW n \in ServiceNames, StartsAlone(m, n) PROVE UnitsInv'
  <2>1. /\ Units!Installs(m, n) /\ manager[m].at = "start" /\ Units!Moves(m, "write")
        /\ service' = [service EXCEPT ![n] = "up"]
        /\ UNCHANGED <<platform, registry, unit, behind, excused>>
    BY <1>1 DEF StartsAlone
  <2>2. unit = [unit EXCEPT ![n] = unit[n]]
    BY DEF UnitsInv, UnitTypes
  <2> QED
    BY <2>1, <2>2, InstallKeeps
<1>2. CASE Units!ManagerStep(m)
  BY <1>2, ManagerKeeps
<1>3. Units!ManagerStep(m) \/ \E n \in ServiceNames : StartsAlone(m, n)
  <2>1. CASE Units!PublishedUninstallAll(m) \/ Units!PublishedWriteRegistry(m) \/ Units!Killed(m)
    BY <2>1 DEF Units!PublishedUninstallAll, Units!PublishedWriteRegistry, Units!ManagerStep
  <2>2. ASSUME NEW n \in ServiceNames, Units!PublishedInstallSystemd(m, n)
        PROVE  Units!ManagerStep(m) \/ StartsAlone(m, n)
    BY <2>2 DEF Units!PublishedInstallSystemd, Units!ManagerStep, StartsAlone, Units!notes
  <2>3. ASSUME NEW n \in ServiceNames,
               \/ Units!PublishedInstall(m, n) \/ Units!PublishedSpawnFails(m, n)
               \/ Units!PublishedInstallLaunchd(m, n) \/ Units!PublishedInstallWindows(m, n)
               \/ Units!PublishedUninstall(m, n) \/ Units!PublishedRemoveUnit(m, n)
        PROVE  Units!ManagerStep(m)
    BY <2>3 DEF Units!PublishedInstall, Units!PublishedSpawnFails, Units!PublishedInstallLaunchd,
       Units!PublishedInstallWindows, Units!PublishedUninstall, Units!PublishedRemoveUnit,
       Units!ManagerStep
  <2> QED
    BY <2>1, <2>2, <2>3 DEF Units!PublishedStep
<1> QED
  BY <1>1, <1>2, <1>3

\* At the start every service that has a unit is listed, and no command is at work.
LEMMA UnitsInit == Units!Init => UnitsInv
<1> SUFFICES ASSUME Units!Init PROVE UnitsInv
  OBVIOUS
<1>1. /\ platform \in {"linux", "darwin", "win32"} /\ registry \in SUBSET ServiceNames
      /\ unit = [n \in ServiceNames |-> IF n \in registry THEN "enabled" ELSE "absent"]
      /\ service = [n \in ServiceNames |-> IF n \in registry THEN "up" ELSE "stopped"]
      /\ manager = [m \in Managers |-> [cmd |-> "none", at |-> "off", todo |-> {}, list |-> {}]]
      /\ behind = [m \in Managers |-> {}] /\ excused = {}
  BY DEF Units!Init, Units!Off
<1>2. [cmd |-> "none", at |-> "off", todo |-> {}, list |-> {}] \in Commands
  BY DEF Commands
<1>3. UnitTypes
  BY <1>1, <1>2 DEF UnitTypes
<1>4. \A n \in ServiceNames : Covered(n)
  BY <1>1 DEF Covered, Trace
<1>5. \A m \in Managers, n \in ServiceNames : Known(m, n)
  BY <1>1 DEF Known
<1>6. \A m \in Managers : OneName(m)
  BY <1>1 DEF OneName
<1> QED
  BY <1>3, <1>4, <1>5, <1>6 DEF UnitsInv

\* Every step of either edition, of the user and of the system keeps the invariant.
LEMMA UnitsStep == UnitsInv /\ [Units!TwoEditions]_(Units!vars) => UnitsInv'
<1> SUFFICES ASSUME UnitsInv, [Units!TwoEditions]_(Units!vars) PROVE UnitsInv'
  OBVIOUS
<1>1. ASSUME NEW m \in Managers \ NewManagers, Units!ManagerStep(m) PROVE UnitsInv'
  BY <1>1, ManagerKeeps
<1>2. ASSUME NEW m \in NewManagers, Units!PublishedStep(m) PROVE UnitsInv'
  <2>1. m \in Managers
    BY ServicesAssumption DEF Units!UnitsAssumption
  <2> QED
    BY <1>2, <2>1, PublishedKeeps
<1>3. ASSUME NEW n \in ServiceNames,
             Units!PublishedStart(n) \/ Units!PublishedStop(n) \/ Units!PublishedRestart(n)
      PROVE  UnitsInv'
  <2>1. Units!SystemStep
    BY <1>3 DEF Units!PublishedStart, Units!PublishedStop, Units!PublishedRestart,
       Units!SystemStep
  <2> QED
    BY <2>1, SystemKeeps
<1>4. CASE Units!SystemStep \/ UNCHANGED Units!vars
  BY <1>4, SystemKeeps
<1> QED
  BY <1>1, <1>2, <1>3, <1>4 DEF Units!TwoEditions

\* What the operating system runs, or would run at the next boot, is in services.json
\* or a command is at work on it, for any number of commands of both editions at the
\* same time, whichever are killed and whichever calls fail (service.ts: installService,
\* uninstallService, writeRegistry).
THEOREM ServicesUnits == Spec => []UnitsListed
<1>1. UnitsInv => UnitsListed
  <2> SUFFICES ASSUME UnitsInv, NEW n \in ServiceNames, unit[n] = "enabled" \/ Units!Runs(n)
               PROVE  \/ torn \/ n \in registry \/ n \in excused
                      \/ \E m \in Managers : n \in manager[m].todo
    BY DEF UnitsListed, Units!UnitsListed
  <2>1. Trace(n)
    BY DEF Trace, Units!Runs
  <2> QED
    BY <2>1 DEF UnitsInv, Covered, HeldBy, Holds
<1> QED
  BY <1>1, UnitsInit, UnitsStep, UnitsSpec, PTL

-----------------------------------------------------------------------------
(***************************************************************************)
(* The door of a public port.  The times of the last connections that the  *)
(* limiter allowed are a log, which the bucket sums up: of a bucket that   *)
(* counts, the log tells when its window began, and of those before it     *)
(* that all but the last ConnLimit - 1 came a window's length before;      *)
(* when a bucket is over, evicted or not, that is true of now.             *)
(***************************************************************************)

\* The door behaves as PublicDoor says.
LEMMA DoorSpec == Spec => Door!Init /\ [][Door!Next]_(Door!vars)
<1>1. Init => Door!Init
  BY DEF Init
<1>2. [Next]_vars => [Door!Next]_(Door!vars)
  BY DEF Next, vars, doorVars, Door!vars, Door!tunnelVars, Door!limitVars
<1> QED
  BY <1>1, <1>2, PTL DEF Spec

\* A log is in order, ends by time, and has a window between its ends when it is full.
LogRight(log, time) ==
  /\ log \in Seq(Nat) /\ Len(log) <= 2 * ConnLimit
  /\ \A i, j \in 1..Len(log) : i <= j => log[i] <= log[j]
  /\ \A i \in 1..Len(log) : log[i] <= time
  /\ Len(log) = 2 * ConnLimit => log[1] + Window <= log[2 * ConnLimit]

\* A window that began at or after the given time has room.
Quiet(log, time) ==
  \A i \in 1..Len(log) : i + ConnLimit <= Len(log) + 1 => log[i] + Window <= time

\* The last count entries are in the window that ends at reset.
Filled(log, count, reset) ==
  /\ count \in 1..ConnLimit /\ count <= Len(log)
  /\ log[Len(log) - count + 1] + Window = reset
  /\ \A i \in 1..Len(log) : i + count + ConnLimit <= Len(log) + 1 => log[i] + 2 * Window <= reset

\* What the assumption says of the numbers.
LEMMA DoorConstants ==
  /\ Window \in Nat /\ Window > 0 /\ Day \in Nat /\ ConnLimit \in Nat /\ ConnLimit > 0
  /\ MaxTokens \in Nat /\ None \notin Door!Tokens
  BY ServicesAssumption DEF Door!DoorAssumption

\* The log with one more entry.
LEMMA LatestFacts ==
  ASSUME NEW log \in Seq(Nat), Len(log) <= 2 * ConnLimit, now \in Nat
  PROVE  /\ Door!Latest(log) \in Seq(Nat)
         /\ \E k \in 0..1 :
              /\ k = 1 => Len(log) = 2 * ConnLimit
              /\ Len(Door!Latest(log)) + k = Len(log) + 1
              /\ Len(Door!Latest(log)) >= 1 /\ Len(Door!Latest(log)) <= 2 * ConnLimit
              /\ Door!Latest(log)[Len(log) + 1 - k] = now
              /\ \A i \in 1..(Len(log) - k) : Door!Latest(log)[i] = log[i + k]
<1>1. CASE Len(log) < 2 * ConnLimit
  <2> DEFINE all == Append(log, now)
  <2>1. Door!Latest(log) = all
    BY <1>1 DEF Door!Latest, Door!Span
  <2>2. /\ all \in Seq(Nat) /\ Len(all) = Len(log) + 1 /\ all[Len(log) + 1] = now
        /\ \A i \in 1..Len(log) : all[i] = log[i]
    OBVIOUS
  <2> HIDE DEF all
  <2>3. /\ Len(all) + 0 = Len(log) + 1 /\ Len(all) >= 1 /\ Len(all) <= 2 * ConnLimit
        /\ all[Len(log) + 1 - 0] = now
        /\ \A i \in 1..(Len(log) - 0) : all[i] = log[i + 0]
    BY <1>1, <2>2, DoorConstants
  <2>4. 0 = 1 => Len(log) = 2 * ConnLimit
    OBVIOUS
  <2> QED
    BY <2>1, <2>2, <2>3, <2>4
<1>2. CASE Len(log) = 2 * ConnLimit
  <2> DEFINE tail == Tail(log)
             all  == Append(tail, now)
  <2>1. log # <<>> /\ Len(log) \in Nat /\ Len(log) > 0
    BY <1>2, DoorConstants
  <2>2. /\ tail \in Seq(Nat) /\ Len(tail) = Len(log) - 1
        /\ \A i \in 1..(Len(log) - 1) : tail[i] = log[i + 1]
    BY <2>1
  <2>3. Door!Latest(log) = all
    BY <1>2, DoorConstants DEF Door!Latest, Door!Span
  <2> HIDE DEF tail
  <2>4. /\ all \in Seq(Nat) /\ Len(all) = Len(tail) + 1 /\ all[Len(tail) + 1] = now
        /\ \A i \in 1..Len(tail) : all[i] = tail[i]
    BY <2>2
  <2> HIDE DEF all
  <2>5. /\ Len(all) + 1 = Len(log) + 1 /\ Len(all) >= 1 /\ Len(all) <= 2 * ConnLimit
        /\ all[Len(log) + 1 - 1] = now
        /\ \A i \in 1..(Len(log) - 1) : all[i] = log[i + 1]
    BY <1>2, <2>1, <2>2, <2>4
  <2> QED
    BY <1>2, <2>3, <2>4, <2>5
<1> QED
  BY <1>1, <1>2, DoorConstants

\* A connection in a new window, when the last one is over.
LEMMA LatestInNew ==
  ASSUME now \in Nat, NEW log, LogRight(log, now), Quiet(log, now)
  PROVE  LogRight(Door!Latest(log), now) /\ Filled(Door!Latest(log), 1, now + Window)
<1> DEFINE new == Door!Latest(log)
<1>1. log \in Seq(Nat) /\ Len(log) <= 2 * ConnLimit /\ Len(log) \in Nat
  BY DEF LogRight
<1>2. PICK k \in 0..1 :
        /\ k = 1 => Len(log) = 2 * ConnLimit
        /\ new \in Seq(Nat) /\ Len(new) + k = Len(log) + 1
        /\ Len(new) >= 1 /\ Len(new) <= 2 * ConnLimit /\ new[Len(log) + 1 - k] = now
        /\ \A i \in 1..(Len(log) - k) : new[i] = log[i + k]
  BY <1>1, LatestFacts
<1> HIDE DEF new
<1>3. /\ Len(new) \in Nat /\ Len(new) >= 1 /\ k \in Nat /\ k <= 1
      /\ Len(new) = Len(log) + 1 - k /\ new[Len(new)] = now
  BY <1>1, <1>2
<1>4. ASSUME NEW i \in 1..Len(new), i # Len(new)
      PROVE  i + k \in 1..Len(log) /\ new[i] = log[i + k]
  <2>1. i \in 1..(Len(log) - k)
    BY <1>1, <1>3, <1>4
  <2>2. i + k \in 1..Len(log)
    BY <1>1, <1>3, <2>1
  <2> QED
    BY <1>2, <2>1, <2>2
<1>5. \A i \in 1..Len(new) : new[i] <= now
  <2> SUFFICES ASSUME NEW i \in 1..Len(new) PROVE new[i] <= now
    OBVIOUS
  <2>1. CASE i = Len(new)
    BY <1>3, <2>1
  <2>2. CASE i # Len(new)
    BY <1>4, <2>2 DEF LogRight
  <2> QED
    BY <2>1, <2>2
<1>6. ASSUME NEW i \in 1..Len(new), NEW j \in 1..Len(new), i <= j PROVE new[i] <= new[j]
  <2>1. CASE j = Len(new)
    BY <1>3, <1>5, <2>1
  <2>2. CASE j # Len(new)
    <3>1. i # Len(new)
      BY <1>3, <1>6, <2>2
    <3>2. /\ i + k \in 1..Len(log) /\ new[i] = log[i + k]
          /\ j + k \in 1..Len(log) /\ new[j] = log[j + k] /\ i + k <= j + k
      BY <1>3, <1>4, <1>6, <2>2, <3>1
    <3> QED
      BY <3>2 DEF LogRight
  <2> QED
    BY <2>1, <2>2
<1>7. \A i \in 1..Len(new) : i + ConnLimit + 1 <= Len(new) + 1 => new[i] + Window <= now
  <2> SUFFICES ASSUME NEW i \in 1..Len(new), i + ConnLimit + 1 <= Len(new) + 1
               PROVE  new[i] + Window <= now
    OBVIOUS
  <2>1. i # Len(new)
    BY <1>3, DoorConstants
  <2>2. i + k \in 1..Len(log) /\ new[i] = log[i + k]
    BY <1>4, <2>1
  <2>3. (i + k) + ConnLimit <= Len(log) + 1
    BY <1>1, <1>3, DoorConstants
  <2> QED
    BY <2>2, <2>3 DEF Quiet
<1>8. Len(new) = 2 * ConnLimit => new[1] + Window <= new[2 * ConnLimit]
  <2> SUFFICES ASSUME Len(new) = 2 * ConnLimit PROVE new[1] + Window <= now
    BY <1>3
  <2>1. 1 \in 1..Len(new) /\ 1 + ConnLimit + 1 <= Len(new) + 1
    BY DoorConstants
  <2> QED
    BY <1>7, <2>1
<1>9. LogRight(new, now)
  BY <1>2, <1>5, <1>6, <1>8 DEF LogRight
<1>10. Filled(new, 1, now + Window)
  <2>1. 1 \in 1..ConnLimit /\ 1 <= Len(new) /\ Len(new) - 1 + 1 = Len(new)
    BY <1>3, DoorConstants
  <2>2. \A i \in 1..Len(new) : i + 1 + ConnLimit <= Len(new) + 1 => new[i] + 2 * Window <= now + Window
    <3> SUFFICES ASSUME NEW i \in 1..Len(new), i + 1 + ConnLimit <= Len(new) + 1
                 PROVE  new[i] + 2 * Window <= now + Window
      OBVIOUS
    <3>1. i + ConnLimit + 1 <= Len(new) + 1
      BY <1>3, DoorConstants
    <3>2. new[i] + Window <= now /\ new[i] \in Nat
      BY <1>2, <1>7, <3>1
    <3> QED
      BY <3>2, DoorConstants
  <2> QED
    BY <1>3, <2>1, <2>2 DEF Filled
<1> QED
  BY <1>9, <1>10 DEF new

\* A connection in a window that has room.
LEMMA LatestInOld ==
  ASSUME now \in Nat, NEW log, LogRight(log, now), NEW count, NEW reset \in Nat,
         Filled(log, count, reset), count < ConnLimit
  PROVE  LogRight(Door!Latest(log), now) /\ Filled(Door!Latest(log), count + 1, reset)
<1> DEFINE new == Door!Latest(log)
<1>1. log \in Seq(Nat) /\ Len(log) <= 2 * ConnLimit /\ Len(log) \in Nat
  BY DEF LogRight
<1>2. PICK k \in 0..1 :
        /\ k = 1 => Len(log) = 2 * ConnLimit
        /\ new \in Seq(Nat) /\ Len(new) + k = Len(log) + 1
        /\ Len(new) >= 1 /\ Len(new) <= 2 * ConnLimit /\ new[Len(log) + 1 - k] = now
        /\ \A i \in 1..(Len(log) - k) : new[i] = log[i + k]
  BY <1>1, LatestFacts
<1> HIDE DEF new
<1>3. /\ Len(new) \in Nat /\ Len(new) >= 1 /\ k \in Nat /\ k <= 1
      /\ Len(new) = Len(log) + 1 - k /\ new[Len(new)] = now
  BY <1>1, <1>2
<1>4. ASSUME NEW i \in 1..Len(new), i # Len(new)
      PROVE  i + k \in 1..Len(log) /\ new[i] = log[i + k]
  <2>1. i \in 1..(Len(log) - k)
    BY <1>1, <1>3, <1>4
  <2>2. i + k \in 1..Len(log)
    BY <1>1, <1>3, <2>1
  <2> QED
    BY <1>2, <2>1, <2>2
<1>5. \A i \in 1..Len(new) : new[i] <= now
  <2> SUFFICES ASSUME NEW i \in 1..Len(new) PROVE new[i] <= now
    OBVIOUS
  <2>1. CASE i = Len(new)
    BY <1>3, <2>1
  <2>2. CASE i # Len(new)
    BY <1>4, <2>2 DEF LogRight
  <2> QED
    BY <2>1, <2>2
<1>6. ASSUME NEW i \in 1..Len(new), NEW j \in 1..Len(new), i <= j PROVE new[i] <= new[j]
  <2>1. CASE j = Len(new)
    BY <1>3, <1>5, <2>1
  <2>2. CASE j # Len(new)
    <3>1. i # Len(new)
      BY <1>3, <1>6, <2>2
    <3>2. /\ i + k \in 1..Len(log) /\ new[i] = log[i + k]
          /\ j + k \in 1..Len(log) /\ new[j] = log[j + k] /\ i + k <= j + k
      BY <1>3, <1>4, <1>6, <2>2, <3>1
    <3> QED
      BY <3>2 DEF LogRight
  <2> QED
    BY <2>1, <2>2
<1>7. /\ count \in Nat /\ count >= 1 /\ count <= Len(log) /\ count + 1 <= ConnLimit
      /\ log[Len(log) - count + 1] + Window = reset
      /\ log[Len(log) - count + 1] \in Nat /\ log[Len(log) - count + 1] <= now
  BY <1>1, DoorConstants DEF Filled, LogRight
<1>8. new[Len(new) - (count + 1) + 1] = log[Len(log) - count + 1] /\ count + 1 <= Len(new)
  <2> DEFINE first == Len(new) - (count + 1) + 1
  <2>1. first \in Int /\ first + k = Len(log) - count + 1 /\ first < Len(new)
    BY <1>1, <1>3, <1>7
  <2>2. count + 1 <= Len(new)
    BY <1>1, <1>2, <1>3, <1>7, DoorConstants
  <2>3. first \in 1..Len(new) /\ first # Len(new)
    BY <1>3, <1>7, <2>1, <2>2
  <2> HIDE DEF first
  <2>4. new[first] = log[first + k]
    BY <1>4, <2>3
  <2> QED
    BY <2>1, <2>2, <2>4 DEF first
<1>9. \A i \in 1..Len(new) :
        i + (count + 1) + ConnLimit <= Len(new) + 1 => new[i] + 2 * Window <= reset
  <2> SUFFICES ASSUME NEW i \in 1..Len(new), i + (count + 1) + ConnLimit <= Len(new) + 1
               PROVE  new[i] + 2 * Window <= reset
    OBVIOUS
  <2>1. i # Len(new)
    BY <1>3, <1>7, DoorConstants
  <2>2. i + k \in 1..Len(log) /\ new[i] = log[i + k]
    BY <1>4, <2>1
  <2>3. (i + k) + count + ConnLimit <= Len(log) + 1
    BY <1>1, <1>2, <1>3, <1>7, DoorConstants
  <2> QED
    BY <2>2, <2>3 DEF Filled
<1>10. Filled(new, count + 1, reset)
  <2>1. new[Len(new) - (count + 1) + 1] + Window = reset
    BY <1>7, <1>8
  <2>2. count + 1 \in 1..ConnLimit /\ count + 1 <= Len(new)
    BY <1>7, <1>8, DoorConstants
  <2> QED
    BY <1>9, <2>1, <2>2 DEF Filled
<1>11. Len(new) = 2 * ConnLimit => new[1] + Window <= new[2 * ConnLimit]
  <2> SUFFICES ASSUME Len(new) = 2 * ConnLimit PROVE new[1] + Window <= now
    BY <1>3
  <2>1. 1 \in 1..Len(new) /\ 1 + (count + 1) + ConnLimit <= Len(new) + 1
    BY <1>7, DoorConstants
  <2>2. new[1] + 2 * Window <= reset /\ new[1] \in Nat
    BY <1>2, <1>9, <2>1
  <2> QED
    BY <1>7, <2>2, DoorConstants
<1>12. LogRight(new, now)
  BY <1>2, <1>5, <1>6, <1>11 DEF LogRight
<1> QED
  BY <1>10, <1>12 DEF new

\* When its window is over there is room for another.
LEMMA FilledIsQuiet ==
  ASSUME NEW time \in Nat, NEW log, LogRight(log, time), NEW count, NEW reset \in Nat,
         Filled(log, count, reset), NEW later \in Nat, reset <= later
  PROVE  Quiet(log, later)
<1> SUFFICES ASSUME NEW i \in 1..Len(log), i + ConnLimit <= Len(log) + 1
             PROVE  log[i] + Window <= later
  BY DEF Quiet
<1>1. log \in Seq(Nat) /\ Len(log) \in Nat
  BY DEF LogRight
<1>2. count \in 1..ConnLimit /\ count <= Len(log) /\ log[Len(log) - count + 1] + Window = reset
  BY DEF Filled
<1>3. Len(log) - count + 1 \in 1..Len(log) /\ i <= Len(log) - count + 1
  BY <1>1, <1>2, DoorConstants
<1>4. log[i] <= log[Len(log) - count + 1] /\ log[i] \in Nat /\ log[Len(log) - count + 1] \in Nat
  BY <1>1, <1>3 DEF LogRight
<1> QED
  BY <1>2, <1>4, DoorConstants

Buckets == [count : Nat, resetAt : Nat]

DoorTypes ==
  /\ now \in Nat /\ now > 0 /\ minted \in Nat
  /\ tunnel \in [at : {"off", "binding", "on"}, token : Door!Tokens \cup {None}]
  /\ DOMAIN ipAccess \subseteq Door!Tokens
  /\ ipAccess \in [DOMAIN ipAccess -> [Ips -> Nat]]
  /\ redirect \in {None} \cup
       [connected : BOOLEAN, link : Door!Tokens \cup {None}, since : Nat]
  /\ conns \in [buckets : [Ips -> Buckets], lastSweep : Nat]
  /\ recent \in [Ips -> Seq(Nat)]
  /\ visit \in [Door!Tokens -> [Ips -> Nat]]

\* The token of the tunnel is alive, and a redirect that says "connected" leads to it.
TunnelRight ==
  /\ tunnel.token # None => tunnel.at # "off" /\ tunnel.token \in DOMAIN ipAccess
  /\ redirect # None /\ redirect.connected => tunnel.at = "on" /\ redirect.link = tunnel.token

\* An address is let in for a day from its last visit.
Invited ==
  \A t \in DOMAIN ipAccess, ip \in Ips :
    ipAccess[t][ip] > 0 => visit[t][ip] > 0 /\ ipAccess[t][ip] <= visit[t][ip] + Day

LimiterRight ==
  \A ip \in Ips :
    /\ LogRight(recent[ip], now)
    /\ IF conns.buckets[ip].resetAt <= now THEN Quiet(recent[ip], now)
       ELSE Filled(recent[ip], conns.buckets[ip].count, conns.buckets[ip].resetAt)

DoorInv == DoorTypes /\ TunnelRight /\ Invited /\ Door!OnlyInvited /\ LimiterRight

\* Time passes: windows end.
LEMMA TickKeeps ==
  ASSUME DoorInv, Door!Tick
  PROVE  DoorInv'
<1>1. /\ now' = now + 1
      /\ UNCHANGED <<tunnel, minted, ipAccess, redirect, conns, recent, visit, pass>>
  BY DEF Door!Tick, Door!tunnelVars, Door!limitVars
<1>2. DoorTypes
  BY DEF DoorInv
<1>3. DoorTypes'
  BY <1>1, <1>2 DEF DoorTypes
<1>4. TunnelRight' /\ Invited' /\ Door!OnlyInvited'
  BY <1>1 DEF DoorInv, TunnelRight, Invited, Door!OnlyInvited
<1>5. ASSUME NEW ip \in Ips
      PROVE  /\ LogRight(recent[ip], now + 1)
             /\ IF conns.buckets[ip].resetAt <= now + 1 THEN Quiet(recent[ip], now + 1)
                ELSE Filled(recent[ip], conns.buckets[ip].count, conns.buckets[ip].resetAt)
  <2> DEFINE log == recent[ip]
             bucket == conns.buckets[ip]
  <2>1. LogRight(log, now) /\ log \in Seq(Nat) /\ now \in Nat /\ now + 1 \in Nat
    BY <1>2 DEF DoorInv, LimiterRight, DoorTypes
  <2>2. bucket.count \in Nat /\ bucket.resetAt \in Nat
    BY <1>2 DEF DoorTypes, Buckets
  <2>3. IF bucket.resetAt <= now THEN Quiet(log, now) ELSE Filled(log, bucket.count, bucket.resetAt)
    BY DEF DoorInv, LimiterRight
  <2> HIDE DEF log, bucket
  <2>4. LogRight(log, now + 1)
    BY <2>1 DEF LogRight
  <2>5. CASE bucket.resetAt <= now
    <3>1. Quiet(log, now + 1)
      BY <2>1, <2>3, <2>5, DoorConstants DEF Quiet
    <3> QED
      BY <2>1, <2>2, <2>4, <2>5, <3>1 DEF log, bucket
  <2>6. CASE ~ bucket.resetAt <= now
    <3>1. Filled(log, bucket.count, bucket.resetAt)
      BY <2>3, <2>6
    <3>2. bucket.resetAt <= now + 1 => Quiet(log, now + 1)
      BY <2>1, <2>2, <3>1, FilledIsQuiet
    <3> QED
      BY <2>4, <3>1, <3>2 DEF log, bucket
  <2> QED
    BY <2>5, <2>6
<1>6. LimiterRight'
  BY <1>1, <1>5 DEF LimiterRight
<1> QED
  BY <1>3, <1>4, <1>6 DEF DoorInv

\* The limiter takes a connection, after it has evicted the buckets that are over.
LEMMA TakeKeeps ==
  ASSUME DoorInv, NEW ip \in Ips, conns' = Door!Take(ip), UNCHANGED now,
         recent' = IF Door!Allowed(ip) THEN [recent EXCEPT ![ip] = Door!Latest(recent[ip])]
                   ELSE recent
  PROVE  /\ conns' \in [buckets : [Ips -> Buckets], lastSweep : Nat]
         /\ recent' \in [Ips -> Seq(Nat)] /\ LimiterRight'
<1> DEFINE old == conns.buckets[ip]
           new == IF old.resetAt <= now THEN [count |-> 1, resetAt |-> now + Window]
                  ELSE IF old.count < ConnLimit
                         THEN [count |-> old.count + 1, resetAt |-> old.resetAt]
                  ELSE old
<1>1. DoorTypes /\ now \in Nat /\ conns \in [buckets : [Ips -> Buckets], lastSweep : Nat]
  BY DEF DoorInv, DoorTypes
<1>2. /\ Door!Swept \in [buckets : [Ips -> Buckets], lastSweep : Nat]
      /\ \A k \in Ips : \/ Door!Swept.buckets[k] = conns.buckets[k]
                        \/ /\ conns.buckets[k].resetAt <= now
                           /\ Door!Swept.buckets[k] = [count |-> 0, resetAt |-> 0]
  <2>1. CASE Door!Due
    <3> DEFINE left == [k \in Ips |-> IF conns.buckets[k].resetAt <= now
                                      THEN [count |-> 0, resetAt |-> 0] ELSE conns.buckets[k]]
    <3>1. Door!Swept = [buckets |-> left, lastSweep |-> now]
      BY <2>1 DEF Door!Swept, Door!NoBucket
    <3>2. left \in [Ips -> Buckets]
      BY <1>1 DEF Buckets
    <3> QED
      BY <1>1, <3>1, <3>2
  <2>2. CASE ~ Door!Due
    BY <1>1, <2>2 DEF Door!Swept
  <2> QED
    BY <2>1, <2>2
<1> DEFINE swept == Door!Swept
<1>3. swept.buckets[ip] \in Buckets /\ old \in Buckets /\ old.resetAt \in Nat /\ old.count \in Nat
  BY <1>1, <1>2 DEF Buckets
<1>4. /\ swept.buckets[ip].resetAt <= now <=> old.resetAt <= now
      /\ old.resetAt <= now \/ swept.buckets[ip] = old
  BY <1>1, <1>2
<1>5. new \in Buckets
  <2> HIDE DEF old
  <2> QED
    BY <1>1, <1>3, DoorConstants DEF Buckets
<1>6. conns' = [swept EXCEPT !.buckets[ip] = new]
  <2> DEFINE was == swept.buckets[ip]
  <2>1. conns' = [swept EXCEPT !.buckets[ip] =
          IF was.resetAt <= now THEN [count |-> 1, resetAt |-> now + Window]
          ELSE IF was.count < ConnLimit THEN [count |-> was.count + 1, resetAt |-> was.resetAt]
          ELSE was]
    BY DEF Door!Take
  <2> HIDE DEF swept, old
  <2>2. new = IF was.resetAt <= now THEN [count |-> 1, resetAt |-> now + Window]
              ELSE IF was.count < ConnLimit THEN [count |-> was.count + 1, resetAt |-> was.resetAt]
              ELSE was
    <3>1. CASE old.resetAt <= now
      BY <1>4, <3>1
    <3>2. CASE ~ old.resetAt <= now
      <4>1. was = old
        BY <1>4, <3>2
      <4> QED
        BY <1>4, <3>2, <4>1
    <3> QED
      BY <3>1, <3>2
  <2> HIDE DEF new
  <2> QED
    BY <2>1, <2>2
<1>7. Door!Allowed(ip) <=> old.resetAt <= now \/ old.count < ConnLimit
  BY <1>4 DEF Door!Allowed
<1> HIDE DEF new, old, swept
<1>8. /\ conns' \in [buckets : [Ips -> Buckets], lastSweep : Nat]
      /\ conns'.buckets[ip] = new
      /\ \A k \in Ips : k # ip => conns'.buckets[k] = swept.buckets[k]
  BY <1>2, <1>5, <1>6 DEF swept
<1>9. /\ LogRight(recent[ip], now) /\ recent[ip] \in Seq(Nat) /\ Len(recent[ip]) <= 2 * ConnLimit
      /\ IF old.resetAt <= now THEN Quiet(recent[ip], now)
         ELSE Filled(recent[ip], old.count, old.resetAt)
  BY DEF DoorInv, LimiterRight, LogRight, old
<1>10. Door!Latest(recent[ip]) \in Seq(Nat)
  BY <1>1, <1>9, LatestFacts
<1>11. /\ recent' \in [Ips -> Seq(Nat)]
       /\ \A k \in Ips : k # ip => recent'[k] = recent[k]
       /\ recent'[ip] = IF Door!Allowed(ip) THEN Door!Latest(recent[ip]) ELSE recent[ip]
  BY <1>1, <1>10 DEF DoorTypes
<1>12. /\ LogRight(recent'[ip], now)
       /\ IF new.resetAt <= now THEN Quiet(recent'[ip], now)
          ELSE Filled(recent'[ip], new.count, new.resetAt)
  <2>1. CASE old.resetAt <= now
    <3>1. new.count = 1 /\ new.resetAt = now + Window /\ ~ new.resetAt <= now
      BY <1>1, <2>1, DoorConstants DEF new
    <3>2. recent'[ip] = Door!Latest(recent[ip]) /\ Quiet(recent[ip], now)
      BY <1>7, <1>9, <1>11, <2>1
    <3> QED
      BY <1>1, <1>9, <3>1, <3>2, LatestInNew
  <2>2. CASE ~ old.resetAt <= now /\ old.count < ConnLimit
    <3>1. new.count = old.count + 1 /\ new.resetAt = old.resetAt
      BY <2>2 DEF new
    <3>2. recent'[ip] = Door!Latest(recent[ip]) /\ Filled(recent[ip], old.count, old.resetAt)
      BY <1>7, <1>9, <1>11, <2>2
    <3> QED
      BY <1>1, <1>3, <1>9, <2>2, <3>1, <3>2, LatestInOld
  <2>3. CASE ~ old.resetAt <= now /\ ~ old.count < ConnLimit
    BY <1>7, <1>9, <1>11, <2>3 DEF new
  <2> QED
    BY <2>1, <2>2, <2>3
<1>13. ASSUME NEW k \in Ips, k # ip
       PROVE  /\ LogRight(recent[k], now)
              /\ IF swept.buckets[k].resetAt <= now THEN Quiet(recent[k], now)
                 ELSE Filled(recent[k], swept.buckets[k].count, swept.buckets[k].resetAt)
  <2>1. /\ LogRight(recent[k], now)
        /\ IF conns.buckets[k].resetAt <= now THEN Quiet(recent[k], now)
           ELSE Filled(recent[k], conns.buckets[k].count, conns.buckets[k].resetAt)
    BY DEF DoorInv, LimiterRight
  <2> QED
    BY <1>1, <1>2, <2>1 DEF swept
<1>14. LimiterRight'
  BY <1>8, <1>11, <1>12, <1>13 DEF LimiterRight
<1> QED
  BY <1>8, <1>11, <1>14

\* The limiter's state and the clock are as they were.
LEMMA LimiterStays ==
  ASSUME DoorInv, UNCHANGED <<now, conns, recent>>
  PROVE  LimiterRight'
  BY DEF DoorInv, LimiterRight

\* A registration mints a token, or has none.
LEMMA RegisterKeeps ==
  ASSUME DoorInv, Door!Register
  PROVE  DoorInv'
<1>1. DoorTypes /\ TunnelRight /\ Invited /\ Door!OnlyInvited
  BY DEF DoorInv
<1>2. tunnel.at = "off" /\ UNCHANGED <<now, conns, recent, visit, pass>>
  BY DEF Door!Register, Door!limitVars
<1>3. /\ minted' \in Nat
      /\ tunnel' \in [at : {"off", "binding", "on"}, token : Door!Tokens \cup {None}]
      /\ tunnel'.at = "binding"
      /\ DOMAIN ipAccess' \subseteq Door!Tokens
      /\ ipAccess' \in [DOMAIN ipAccess' -> [Ips -> Nat]]
      /\ tunnel'.token # None => tunnel'.token \in DOMAIN ipAccess'
      /\ \A t \in DOMAIN ipAccess', ip \in Ips :
           ipAccess'[t][ip] > 0 => t \in DOMAIN ipAccess /\ ipAccess'[t][ip] = ipAccess[t][ip]
  <2>1. CASE /\ minted < MaxTokens /\ minted' = minted + 1
             /\ tunnel' = [at |-> "binding", token |-> minted + 1]
             /\ ipAccess' = [t \in DOMAIN ipAccess \cup {minted + 1} |->
                  IF t = minted + 1 THEN [ip \in Ips |-> 0] ELSE ipAccess[t]]
    <3>1. minted \in Nat /\ minted + 1 \in Nat /\ minted + 1 \in Door!Tokens
      BY <1>1, <2>1, DoorConstants DEF DoorTypes, Door!Tokens
    <3> DEFINE none == [ip \in Ips |-> 0]
               token == minted + 1
    <3>2. none \in [Ips -> Nat] /\ \A ip \in Ips : none[ip] = 0
      OBVIOUS
    <3>3. ipAccess' = [t \in DOMAIN ipAccess \cup {token} |-> IF t = token THEN none ELSE ipAccess[t]]
      BY <2>1
    <3> HIDE DEF none, token
    <3>4. DOMAIN ipAccess' = DOMAIN ipAccess \cup {token} /\ token \in Door!Tokens
      BY <3>1, <3>3 DEF token
    <3>5. \A t \in DOMAIN ipAccess' : IF t = token THEN ipAccess'[t] = none
                                      ELSE t \in DOMAIN ipAccess /\ ipAccess'[t] = ipAccess[t]
      BY <3>3
    <3>6. \A t \in DOMAIN ipAccess' : ipAccess'[t] \in [Ips -> Nat]
      BY <1>1, <3>2, <3>5 DEF DoorTypes
    <3>7. ipAccess' \in [DOMAIN ipAccess' -> [Ips -> Nat]]
      BY <3>3, <3>6
    <3>8. \A t \in DOMAIN ipAccess', ip \in Ips :
            ipAccess'[t][ip] > 0 => t \in DOMAIN ipAccess /\ ipAccess'[t][ip] = ipAccess[t][ip]
      BY <3>2, <3>5
    <3>9. tunnel' = [at |-> "binding", token |-> token] /\ minted' = token /\ token \in Nat
      BY <2>1, <3>1 DEF token
    <3> QED
      BY <1>1, <3>4, <3>7, <3>8, <3>9 DEF DoorTypes
  <2>2. CASE tunnel' = [at |-> "binding", token |-> None] /\ UNCHANGED <<minted, ipAccess>>
    BY <1>1, <2>2 DEF DoorTypes
  <2> QED
    BY <2>1, <2>2 DEF Door!Register
<1>4. /\ redirect' \in {None} \cup
           [connected : BOOLEAN, link : Door!Tokens \cup {None}, since : Nat]
      /\ redirect' # None => ~ redirect'.connected
  <2>1. CASE redirect' = None
    BY <2>1
  <2>2. CASE redirect' # None
    <3>1. PICK link \in {redirect.link, tunnel'.token} :
            redirect' = [redirect EXCEPT !.connected = FALSE, !.since = 0, !.link = link]
      BY <2>2 DEF Door!Register
    <3>2. redirect # None
      BY <2>2 DEF Door!Register
    <3>3. /\ redirect \in [connected : BOOLEAN, link : Door!Tokens \cup {None}, since : Nat]
          /\ link \in Door!Tokens \cup {None}
      BY <1>1, <1>3, <3>2 DEF DoorTypes
    <3> QED
      BY <3>1, <3>3
  <2> QED
    BY <2>1, <2>2
<1>5. DoorTypes'
  BY <1>1, <1>2, <1>3, <1>4 DEF DoorTypes
<1>6. TunnelRight'
  BY <1>3, <1>4 DEF TunnelRight
<1>7. Invited'
  BY <1>1, <1>2, <1>3 DEF Invited
<1>8. Door!OnlyInvited'
  BY <1>1, <1>2 DEF Door!OnlyInvited
<1> QED
  BY <1>2, <1>5, <1>6, <1>7, <1>8, LimiterStays DEF DoorInv

\* The port is bound, taken, or gone; the redirect follows, or is swept.
LEMMA PortKeeps ==
  ASSUME DoorInv, Door!Bound \/ Door!BindFails \/ Door!Disconnects \/ Door!RedirectSweep
  PROVE  DoorInv'
<1>1. DoorTypes /\ TunnelRight /\ Invited /\ Door!OnlyInvited
  BY DEF DoorInv
<1>2. UNCHANGED <<now, minted, conns, recent, visit, pass>>
  BY DEF Door!Bound, Door!BindFails, Door!Disconnects, Door!RedirectSweep, Door!limitVars
<1> DEFINE Redirects == [connected : BOOLEAN, link : Door!Tokens \cup {None}, since : Nat]
<1>3. /\ tunnel \in [at : {"off", "binding", "on"}, token : Door!Tokens \cup {None}]
      /\ redirect \in {None} \cup Redirects /\ now \in Nat
      /\ DOMAIN ipAccess \subseteq Door!Tokens
      /\ ipAccess \in [DOMAIN ipAccess -> [Ips -> Nat]]
  BY <1>1 DEF DoorTypes
<1>4. /\ tunnel' \in [at : {"off", "binding", "on"}, token : Door!Tokens \cup {None}]
      /\ redirect' \in {None} \cup Redirects
      /\ TunnelRight'
      /\ ipAccess' = ipAccess \/ ipAccess' = Door!Without(tunnel.token)
  <2>1. CASE Door!Bound
    <3>1. /\ tunnel.at = "binding" /\ tunnel' = [tunnel EXCEPT !.at = "on"]
          /\ redirect' = [connected |-> TRUE, link |-> tunnel.token, since |-> now]
          /\ ipAccess' = ipAccess
      BY <2>1 DEF Door!Bound
    <3>2. tunnel'.at = "on" /\ tunnel'.token = tunnel.token /\ redirect'.link = tunnel.token
      BY <1>3, <3>1
    <3>3. redirect' \in Redirects
      BY <1>3, <3>1
    <3> QED
      BY <1>1, <1>3, <3>1, <3>2, <3>3 DEF TunnelRight
  <2>2. CASE Door!BindFails
    <3>1. /\ tunnel.at = "binding" /\ tunnel' = [at |-> "off", token |-> None]
          /\ redirect' = redirect /\ ipAccess' = Door!Without(tunnel.token)
      BY <2>2 DEF Door!BindFails
    <3> QED
      BY <1>1, <1>3, <3>1 DEF TunnelRight
  <2>3. CASE Door!Disconnects
    <3>1. /\ tunnel' = [at |-> "off", token |-> None]
          /\ ipAccess' = Door!Without(tunnel.token)
          /\ \/ redirect' = None
             \/ redirect # None /\ redirect' = [redirect EXCEPT !.connected = FALSE, !.since = now]
      BY <2>3 DEF Door!Disconnects
    <3>2. redirect' # None => redirect' \in Redirects /\ ~ redirect'.connected
      BY <1>3, <3>1
    <3> QED
      BY <3>1, <3>2 DEF TunnelRight
  <2>4. CASE Door!RedirectSweep
    <3>1. redirect' = None /\ UNCHANGED <<tunnel, ipAccess>>
      BY <2>4 DEF Door!RedirectSweep
    <3> QED
      BY <1>1, <1>3, <3>1 DEF TunnelRight
  <2> QED
    BY <2>1, <2>2, <2>3, <2>4
<1>5. /\ DOMAIN ipAccess' \subseteq DOMAIN ipAccess
      /\ ipAccess' \in [DOMAIN ipAccess' -> [Ips -> Nat]]
      /\ \A t \in DOMAIN ipAccess' : ipAccess'[t] = ipAccess[t]
  <2>1. CASE ipAccess' = ipAccess
    BY <1>3, <2>1
  <2>2. CASE ipAccess' = Door!Without(tunnel.token)
    <3>1. ipAccess' = [u \in DOMAIN ipAccess \ {tunnel.token} |-> ipAccess[u]]
      BY <2>2 DEF Door!Without
    <3>2. \A u \in DOMAIN ipAccess : ipAccess[u] \in [Ips -> Nat]
      BY <1>3
    <3> QED
      BY <3>1, <3>2
  <2> QED
    BY <1>4, <2>1, <2>2
<1>6. DoorTypes'
  BY <1>1, <1>2, <1>3, <1>4, <1>5 DEF DoorTypes
<1>7. Invited'
  BY <1>1, <1>2, <1>5 DEF Invited
<1>8. Door!OnlyInvited'
  BY <1>1, <1>2 DEF Door!OnlyInvited
<1> QED
  BY <1>2, <1>4, <1>6, <1>7, <1>8, LimiterStays DEF DoorInv

\* An address opens the link, and is let in for a day; those whose day is over go.
LEMMA LinkKeeps ==
  ASSUME DoorInv, NEW ip \in Ips, NEW t \in Door!Tokens, Door!AccessLink(ip, t)
  PROVE  DoorInv'
<1>1. DoorTypes /\ TunnelRight /\ Invited /\ Door!OnlyInvited
  BY DEF DoorInv
<1> DEFINE let == [i \in Ips |-> IF i = ip THEN now + Day
                                 ELSE IF now > ipAccess[t][i] THEN 0 ELSE ipAccess[t][i]]
           been == [visit[t] EXCEPT ![ip] = now]
<1>2. /\ t \in DOMAIN ipAccess /\ UNCHANGED <<now, tunnel, minted, redirect, conns, recent, pass>>
      /\ ipAccess' = [ipAccess EXCEPT ![t] = let] /\ visit' = [visit EXCEPT ![t][ip] = now]
  BY DEF Door!AccessLink, Door!limitVars
<1>3. /\ now \in Nat /\ now > 0 /\ now + Day \in Nat
      /\ ipAccess \in [DOMAIN ipAccess -> [Ips -> Nat]] /\ ipAccess[t] \in [Ips -> Nat]
      /\ visit \in [Door!Tokens -> [Ips -> Nat]] /\ visit[t] \in [Ips -> Nat]
  BY <1>1, <1>2, DoorConstants DEF DoorTypes
<1>4. let \in [Ips -> Nat] /\ been \in [Ips -> Nat] /\ visit' = [visit EXCEPT ![t] = been]
  BY <1>2, <1>3
<1>5. \A i \in Ips : /\ let[i] > 0 => let[i] = (IF i = ip THEN now + Day ELSE ipAccess[t][i])
                     /\ been[i] = (IF i = ip THEN now ELSE visit[t][i])
  BY <1>3
<1> HIDE DEF let, been
<1>6. /\ DOMAIN ipAccess' = DOMAIN ipAccess /\ ipAccess' \in [DOMAIN ipAccess' -> [Ips -> Nat]]
      /\ visit' \in [Door!Tokens -> [Ips -> Nat]]
      /\ ipAccess'[t] = let /\ visit'[t] = been
      /\ \A u \in DOMAIN ipAccess : u # t => ipAccess'[u] = ipAccess[u] /\ visit'[u] = visit[u]
  <2>1. DOMAIN ipAccess \subseteq Door!Tokens
    BY <1>1 DEF DoorTypes
  <2> QED
    BY <1>2, <1>3, <1>4, <2>1
<1>7. DoorTypes'
  BY <1>1, <1>2, <1>6 DEF DoorTypes
<1>8. TunnelRight' /\ Door!OnlyInvited'
  BY <1>1, <1>2, <1>6 DEF TunnelRight, Door!OnlyInvited
<1>9. Invited'
  <2> SUFFICES ASSUME NEW u \in DOMAIN ipAccess, NEW i \in Ips, ipAccess'[u][i] > 0
               PROVE  visit'[u][i] > 0 /\ ipAccess'[u][i] <= visit'[u][i] + Day
    BY <1>6 DEF Invited
  <2>1. CASE u # t
    BY <1>1, <1>6, <2>1 DEF Invited
  <2>2. CASE u = t /\ i = ip
    BY <1>3, <1>5, <1>6, <2>2, DoorConstants
  <2>3. CASE u = t /\ i # ip
    BY <1>1, <1>2, <1>5, <1>6, <2>3 DEF Invited
  <2> QED
    BY <2>1, <2>2, <2>3
<1> QED
  BY <1>2, <1>7, <1>8, <1>9, LimiterStays DEF DoorInv

\* A connection comes in.
LEMMA ConnectionKeeps ==
  ASSUME DoorInv, NEW ip \in Ips, Door!Connection(ip)
  PROVE  DoorInv'
<1>1. DoorTypes /\ TunnelRight /\ Invited /\ Door!OnlyInvited
  BY DEF DoorInv
<1>2. /\ conns' = Door!Take(ip) /\ UNCHANGED <<now, tunnel, minted, ipAccess, redirect, visit>>
      /\ recent' = IF Door!Allowed(ip) THEN [recent EXCEPT ![ip] = Door!Latest(recent[ip])]
                   ELSE recent
      /\ pass' = IF Door!Allowed(ip) /\ Door!Whitelisted(ip)
                   THEN [at |-> now, visited |-> IF tunnel.token = None THEN now
                                                 ELSE visit[tunnel.token][ip]]
                   ELSE pass
  BY DEF Door!Connection, Door!tunnelVars
<1>3. /\ conns' \in [buckets : [Ips -> Buckets], lastSweep : Nat]
      /\ recent' \in [Ips -> Seq(Nat)] /\ LimiterRight'
  BY <1>2, TakeKeeps
<1>4. DoorTypes' /\ TunnelRight' /\ Invited'
  BY <1>1, <1>2, <1>3 DEF DoorTypes, TunnelRight, Invited
<1>5. Door!OnlyInvited'
  <2>1. CASE ~ (Door!Allowed(ip) /\ Door!Whitelisted(ip))
    BY <1>1, <1>2, <2>1 DEF Door!OnlyInvited
  <2>2. CASE Door!Allowed(ip) /\ Door!Whitelisted(ip)
    <3>1. now \in Nat /\ now > 0 /\ now <= now + Day
      BY <1>1, DoorConstants DEF DoorTypes
    <3>2. CASE tunnel.token = None
      <4>1. pass' = [at |-> now, visited |-> now]
        BY <1>2, <2>2, <3>2
      <4> QED
        BY <3>1, <4>1 DEF Door!OnlyInvited
    <3>3. CASE tunnel.token # None
      <4>1. pass' = [at |-> now, visited |-> visit[tunnel.token][ip]]
        BY <1>2, <2>2, <3>3
      <4>2. tunnel.token \in DOMAIN ipAccess /\ now <= ipAccess[tunnel.token][ip]
        BY <1>1, <2>2, <3>3 DEF TunnelRight, Door!Whitelisted, Door!AllowedUntil
      <4>3. /\ ipAccess[tunnel.token][ip] \in Nat /\ visit[tunnel.token][ip] \in Nat
        BY <1>1, <4>2 DEF DoorTypes
      <4>4. /\ visit[tunnel.token][ip] > 0
            /\ ipAccess[tunnel.token][ip] <= visit[tunnel.token][ip] + Day
        BY <1>1, <3>1, <4>2, <4>3 DEF Invited
      <4>5. now <= visit[tunnel.token][ip] + Day
        BY <3>1, <4>2, <4>3, <4>4, DoorConstants
      <4> QED
        BY <4>1, <4>4, <4>5 DEF Door!OnlyInvited
    <3> QED
      BY <3>2, <3>3
  <2> QED
    BY <2>1, <2>2
<1> QED
  BY <1>3, <1>4, <1>5 DEF DoorInv

\* At the start nothing is let in and nothing is logged.
LEMMA DoorInit == Door!Init => DoorInv
<1> SUFFICES ASSUME Door!Init PROVE DoorInv
  OBVIOUS
<1>1. /\ now = 1 /\ tunnel = [at |-> "off", token |-> None] /\ minted = 0
      /\ ipAccess = [t \in {} |-> 0] /\ redirect = None
      /\ conns = [buckets |-> [k \in Ips |-> [count |-> 0, resetAt |-> 0]], lastSweep |-> 0]
      /\ recent = [ip \in Ips |-> <<>>]
      /\ visit = [t \in Door!Tokens |-> [ip \in Ips |-> 0]] /\ pass = None
  BY DEF Door!Init, Door!NewLimiter, Door!NoBucket
<1>2. DoorTypes
  BY <1>1 DEF DoorTypes, Buckets
<1>3. TunnelRight /\ Invited /\ Door!OnlyInvited
  BY <1>1 DEF TunnelRight, Invited, Door!OnlyInvited
<1>4. LimiterRight
  <2>1. LogRight(<<>>, 1) /\ Quiet(<<>>, 1)
    BY DoorConstants DEF LogRight, Quiet
  <2>2. \A ip \in Ips : recent[ip] = <<>> /\ conns.buckets[ip].resetAt = 0
    BY <1>1
  <2> QED
    BY <1>1, <2>1, <2>2 DEF LimiterRight
<1> QED
  BY <1>2, <1>3, <1>4 DEF DoorInv

\* Only addresses that opened the link of this registration within a day pass a guarded
\* port, no time of a window's length sees twice the limit of connections, and a
\* redirect that says "connected" leads to a link that works (rate-limit.ts: take;
\* server.ts: /l/:token, /r/:token, bindTcpTunnel).
THEOREM ServicesDoor == Spec => []DoorHolds
<1>1. DoorInv => DoorHolds
  <2> SUFFICES ASSUME DoorInv PROVE Door!OnlyInvited /\ Door!WithinRate /\ Door!RedirectLeads
    BY DEF DoorHolds, Door!DoorHolds
  <2>1. Door!WithinRate
    BY DEF DoorInv, LimiterRight, LogRight, Door!WithinRate, Door!Span
  <2>2. Door!RedirectLeads
    BY DEF DoorInv, TunnelRight, Door!RedirectLeads, Door!RedirectPage
  <2> QED
    BY <2>1, <2>2 DEF DoorInv
<1>2. DoorInv /\ [Door!Next]_(Door!vars) => DoorInv'
  <2> SUFFICES ASSUME DoorInv, [Door!Next]_(Door!vars) PROVE DoorInv'
    OBVIOUS
  <2>1. CASE UNCHANGED Door!vars
    BY <2>1 DEF DoorInv, DoorTypes, TunnelRight, Invited, LimiterRight, Door!OnlyInvited,
       Door!vars, Door!tunnelVars, Door!limitVars
  <2>2. CASE Door!Tick
    BY <2>2, TickKeeps
  <2>3. CASE Door!Register
    BY <2>3, RegisterKeeps
  <2>4. CASE Door!Bound \/ Door!BindFails \/ Door!Disconnects \/ Door!RedirectSweep
    BY <2>4, PortKeeps
  <2>5. ASSUME NEW ip \in Ips, Door!Connection(ip) PROVE DoorInv'
    BY <2>5, ConnectionKeeps
  <2>6. ASSUME NEW ip \in Ips, NEW t \in Door!Tokens, Door!AccessLink(ip, t) PROVE DoorInv'
    BY <2>6, LinkKeeps
  <2> QED
    BY <2>1, <2>2, <2>3, <2>4, <2>5, <2>6 DEF Door!Next
<1> QED
  BY <1>1, <1>2, DoorInit, DoorSpec, PTL

-----------------------------------------------------------------------------
(***************************************************************************)
(* Requests of the API.  Each keeps its place between its queries: what it *)
(* made has its number, so that nobody else makes it, and what it found to *)
(* delete was made by a request that makes nothing any more, so that it    *)
(* does not come back (DeletedRight).  An answer that was given stays      *)
(* among the saved ones, no older than the answer (KeptRight).             *)
(***************************************************************************)

\* The requests behave as ApiRequests says.
LEMMA ApiSpec == Spec => Api!Init /\ [][Api!Next]_(Api!vars)
<1>1. Init => Api!Init
  BY DEF Init
<1>2. [Next]_vars => [Api!Next]_(Api!vars)
  BY DEF Next, vars, apiVars, Api!vars
<1> QED
  BY <1>1, <1>2, PTL DEF Spec

RowData == Reserved \cup Mappings \cup BOOLEAN \cup {None} \cup {w.data : w \in Stock \cup Sessions}
AllRows == Api!Rows(Requests \cup {0}, RowData)
AllArgs == (UNION {Api!Args(op) : op \in Api!Ops}) \cup {None}
ApiCalls ==
  [at : {"unsent", "resolving", "working", "storing", "auditing", "answered"},
   by : Callers \cup {None}, op : Api!Ops \cup {None}, arg : AllArgs, key : IdemKeys \cup {None},
   answer : {None, "refused", "replay", "done"}, seen : SUBSET AllRows, age : Nat]
Answers == [user : Api!Users, op : Api!Ops, key : IdemKeys, rows : SUBSET AllRows, age : Nat]

ApiTypes == req \in [Requests -> ApiCalls] /\ rows \in SUBSET AllRows /\ saved \in SUBSET Answers

MakingOps == Api!Creates \cup {"register"}
Ended(r)  == req[r].at \in {"auditing", "answered"}
Over(r)   == req[r].at = "auditing" \/ Api!Done(r)

SentRight(r) ==
  /\ req[r].at # "unsent" =>
       /\ req[r].by \in Callers /\ req[r].op \in Api!Ops /\ req[r].arg \in Api!Args(req[r].op)
       /\ req[r].op \notin Api!Idempotent => req[r].key = None
  /\ req[r].at \in {"working", "storing", "auditing"} => Api!MayAsk(req[r].by, req[r].op)

RowsRight ==
  \A w \in rows : w.id \in Requests =>
    Over(w.id) /\ req[w.id].op \in MakingOps /\ w.owner = req[w.id].by.user

MadeRight(r) ==
  Over(r) /\ req[r].op \in MakingOps =>
    \/ \E w \in rows : w.id = r /\ w.owner = req[r].by.user
    \/ \E q \in Requests : req[q].op \in Api!Deletes /\ req[q].arg = r /\ Ended(q)

DeletedRight(r) ==
  req[r].op \in Api!Deletes /\ (req[r].at = "storing" \/ Over(r)) =>
    /\ req[r].arg \in Requests => Ended(req[r].arg)
    /\ Over(r) => Api!At(r) = {}

Mine(r, seen) == \A w \in seen : w.owner = req[r].by.user

SeenRight(r) ==
  /\ req[r].at = "auditing" => Mine(r, req[r].seen)
  /\ req[r].at = "answered" => req[r].by.admin \/ Mine(r, req[r].seen)

RequestRight(r) == SentRight(r) /\ MadeRight(r) /\ DeletedRight(r) /\ SeenRight(r)

SavedRight == \A e \in saved : \A w \in e.rows : w.owner = e.user

KeptRight(r) ==
  Api!Done(r) /\ req[r].key # None /\ req[r].age <= ReplyTtl =>
    \E e \in saved : /\ e.user = req[r].by.user /\ e.op = req[r].op /\ e.key = req[r].key
                     /\ e.age <= req[r].age

ApiInv ==
  /\ ApiTypes /\ RowsRight /\ SavedRight
  /\ \A r \in Requests : RequestRight(r)
  /\ \A r \in Requests : KeptRight(r)

\* What the assumption says of the constants.
LEMMA ApiConstants ==
  /\ 0 \notin Requests /\ ReplyTtl \in Nat
  /\ Stock \subseteq AllRows /\ Sessions \subseteq AllRows
  /\ \A w \in Stock : w.id = 0
<1>1. /\ 0 \notin Requests /\ ReplyTtl \in Nat
      /\ \A w \in Stock \cup Sessions : w \in Api!Rows({0}, {w.data})
  BY ServicesAssumption DEF Api!RequestsAssumption, Api!Old
<1>2. ASSUME NEW w \in Stock \cup Sessions PROVE w \in AllRows /\ w.id = 0
  <2>1. w \in Api!Rows({0}, {w.data}) /\ w.data \in RowData
    BY <1>1 DEF RowData
  <2> QED
    BY <2>1 DEF AllRows, Api!Rows
<1> QED
  BY <1>1, <1>2

\* A request moves on.
Moved(r, a, c, s) ==
  /\ req' \in [Requests -> ApiCalls]
  /\ req'[r].at = a /\ req'[r].answer = c /\ req'[r].seen = s
  /\ req'[r].by = req[r].by /\ req'[r].op = req[r].op /\ req'[r].arg = req[r].arg
  /\ req'[r].key = req[r].key /\ req'[r].age = req[r].age
  /\ \A q \in Requests : q # r => req'[q] = req[q]

Places == {"unsent", "resolving", "working", "storing", "auditing", "answered"}

\* It goes on to its next query.
LEMMA GoesMoves ==
  ASSUME ApiTypes, NEW r \in Requests, NEW a \in Places, NEW s \in SUBSET AllRows, Api!Goes(r, a, s)
  PROVE  Moved(r, a, req[r].answer, s)
<1>1. req' = [req EXCEPT ![r].at = a, ![r].seen = s]
  BY DEF Api!Goes
<1>2. req \in [Requests -> ApiCalls] /\ req[r] \in ApiCalls
  BY DEF ApiTypes
<1> DEFINE next == [req[r] EXCEPT !.at = a, !.seen = s]
<1>3. req' = [req EXCEPT ![r] = next]
  BY <1>1, <1>2
<1>4. /\ next \in ApiCalls /\ next.at = a /\ next.seen = s
      /\ next.by = req[r].by /\ next.op = req[r].op /\ next.arg = req[r].arg
      /\ next.key = req[r].key /\ next.answer = req[r].answer /\ next.age = req[r].age
  BY <1>2 DEF ApiCalls, Places
<1> HIDE DEF next
<1>5. req' \in [Requests -> ApiCalls] /\ req'[r] = next /\ \A q \in Requests : q # r => req'[q] = req[q]
  BY <1>2, <1>3, <1>4
<1> QED
  BY <1>4, <1>5 DEF Moved

\* It is answered.
LEMMA AnswerMoves ==
  ASSUME ApiTypes, NEW r \in Requests, NEW c \in {"refused", "replay", "done"},
         NEW s \in SUBSET AllRows, Api!MyAnswer(r, c, s)
  PROVE  Moved(r, "answered", c, s)
<1>1. req' = [req EXCEPT ![r].at = "answered", ![r].answer = c, ![r].seen = s]
  BY DEF Api!MyAnswer
<1>2. req \in [Requests -> ApiCalls] /\ req[r] \in ApiCalls
  BY DEF ApiTypes
<1> DEFINE next == [req[r] EXCEPT !.at = "answered", !.answer = c, !.seen = s]
<1>3. req' = [req EXCEPT ![r] = next]
  BY <1>1, <1>2
<1>4. /\ next \in ApiCalls /\ next.at = "answered" /\ next.seen = s /\ next.answer = c
      /\ next.by = req[r].by /\ next.op = req[r].op /\ next.arg = req[r].arg
      /\ next.key = req[r].key /\ next.age = req[r].age
  BY <1>2 DEF ApiCalls
<1> HIDE DEF next
<1>5. req' \in [Requests -> ApiCalls] /\ req'[r] = next /\ \A q \in Requests : q # r => req'[q] = req[q]
  BY <1>2, <1>3, <1>4
<1> QED
  BY <1>4, <1>5 DEF Moved

\* Two rows that differ in their data at most.
Alike(v, w) == v.table = w.table /\ v.id = w.id /\ v.owner = w.owner

\* What a request may do to the rows when it moves to a, with answer c: make its own,
\* or delete what it was asked to delete.
RowsMove(r, a, c) ==
  /\ rows' \in SUBSET AllRows
  /\ \A w \in rows' :
       \/ \E v \in rows : Alike(v, w)
       \/ /\ w.id = r /\ w.owner = req[r].by.user /\ req[r].op \in MakingOps
          /\ req[r].at # "auditing" /\ (a = "auditing" \/ (a = "answered" /\ c = "done"))
  /\ \A v \in rows :
       \/ \E w \in rows' : Alike(v, w)
       \/ req[r].op \in Api!Deletes /\ v.id = req[r].arg /\ a \in {"auditing", "answered"}

\* What it must have done when its work is over, and found before it deletes.
WorkDone(r, a, c) ==
  LET over == a = "auditing" \/ (a = "answered" /\ c = "done")
  IN /\ over /\ req[r].op \in MakingOps =>
          \E w \in rows' : w.id = r /\ w.owner = req[r].by.user
     /\ req[r].op \in Api!Deletes /\ (a = "storing" \/ over) =>
          /\ req[r].arg \in Requests => Ended(req[r].arg)
          /\ over => ~ \E w \in rows' : w.table = Api!Table(req[r].op) /\ w.id = req[r].arg

\* A step of a request leaves every request right.
LEMMA RequestsKeep ==
  ASSUME ApiInv, NEW r \in Requests, NEW a, NEW c, NEW s, Moved(r, a, c, s),
         req[r].at \in {"resolving", "working", "storing", "auditing"},
         a \in {"working", "storing", "auditing", "answered"},
         req[r].at = "auditing" => a = "answered" /\ c = "done" /\ rows' = rows,
         req[r].at # "auditing" => WorkDone(r, a, c),
         a # "answered" => Api!MayAsk(req[r].by, req[r].op),
         RowsMove(r, a, c),
         a = "auditing" => Mine(r, s),
         a = "answered" => req[r].by.admin \/ Mine(r, s)
  PROVE  RowsRight' /\ \A q \in Requests : RequestRight(q)'
<1>1. /\ req'[r].at = a /\ req'[r].answer = c /\ req'[r].seen = s
      /\ req'[r].by = req[r].by /\ req'[r].op = req[r].op /\ req'[r].arg = req[r].arg
      /\ req'[r].key = req[r].key
      /\ \A q \in Requests : q # r => req'[q] = req[q]
  BY DEF Moved
<1>2. /\ \A q \in Requests : q # r => (Ended(q)' <=> Ended(q)) /\ (Over(q)' <=> Over(q))
      /\ \A q \in Requests : Ended(q) => Ended(q)'
      /\ Over(r) <=> req[r].at = "auditing"
      /\ Over(r)' <=> (a = "auditing" \/ (a = "answered" /\ c = "done"))
      /\ Over(r) => Over(r)'
      /\ Ended(r)' <=> a \in {"auditing", "answered"}
  BY <1>1 DEF Ended, Over, Api!Done
<1>3. \A q \in Requests : /\ req'[q].op = req[q].op /\ req'[q].arg = req[q].arg
                          /\ req'[q].by = req[q].by /\ req'[q].key = req[q].key
  BY <1>1
<1>4. /\ \A w \in rows : w.id \in Requests =>
           Over(w.id) /\ req[w.id].op \in MakingOps /\ w.owner = req[w.id].by.user
      /\ \A q \in Requests : SentRight(q) /\ MadeRight(q) /\ DeletedRight(q) /\ SeenRight(q)
  BY DEF ApiInv, RowsRight, RequestRight
<1>5. RowsRight'
  <2> SUFFICES ASSUME NEW w \in rows', w.id \in Requests
               PROVE  Over(w.id)' /\ req'[w.id].op \in MakingOps /\ w.owner = req'[w.id].by.user
    BY DEF RowsRight
  <2>1. CASE \E v \in rows : Alike(v, w)
    BY <1>2, <1>3, <1>4, <2>1 DEF Alike
  <2>2. CASE ~ \E v \in rows : Alike(v, w)
    BY <1>2, <1>3, <2>2 DEF RowsMove
  <2> QED
    BY <2>1, <2>2
<1>6. ASSUME NEW q \in Requests PROVE SentRight(q)'
  <2>1. CASE q = r
    BY <1>1, <1>4, <2>1 DEF SentRight
  <2>2. CASE q # r
    BY <1>1, <1>4, <2>2 DEF SentRight
  <2> QED
    BY <2>1, <2>2
<1>7. ASSUME NEW q \in Requests PROVE MadeRight(q)'
  <2> SUFFICES ASSUME Over(q)', req[q].op \in MakingOps
               PROVE  \/ \E w \in rows' : w.id = q /\ w.owner = req[q].by.user
                      \/ \E p \in Requests : req[p].op \in Api!Deletes /\ req[p].arg = q /\ Ended(p)'
    BY <1>3 DEF MadeRight
  <2>1. CASE q = r /\ req[r].at # "auditing"
    BY <1>2, <2>1 DEF WorkDone
  <2>2. CASE ~ (q = r /\ req[r].at # "auditing")
    <3>1. Over(q)
      BY <1>2, <2>2
    <3>2. CASE \E w \in rows : w.id = q /\ w.owner = req[q].by.user
      <4>1. PICK w \in rows : w.id = q /\ w.owner = req[q].by.user
        BY <3>2
      <4>2. CASE \E v \in rows' : Alike(w, v)
        BY <4>1, <4>2 DEF Alike
      <4>3. CASE ~ \E v \in rows' : Alike(w, v)
        BY <1>2, <4>1, <4>3 DEF RowsMove
      <4> QED
        BY <4>2, <4>3
    <3>3. CASE \E p \in Requests : req[p].op \in Api!Deletes /\ req[p].arg = q /\ Ended(p)
      BY <1>2, <3>3
    <3> QED
      BY <1>4, <3>1, <3>2, <3>3 DEF MadeRight
  <2> QED
    BY <2>1, <2>2
<1>8. ASSUME NEW q \in Requests PROVE DeletedRight(q)'
  <2> SUFFICES ASSUME req[q].op \in Api!Deletes, req'[q].at = "storing" \/ Over(q)'
               PROVE  /\ req[q].arg \in Requests => Ended(req[q].arg)'
                      /\ Over(q)' => ~ \E w \in rows' : w.table = Api!Table(req[q].op) /\ w.id = req[q].arg
    BY <1>3 DEF DeletedRight, Api!At
  <2>1. CASE q = r /\ req[r].at # "auditing"
    BY <1>1, <1>2, <2>1 DEF WorkDone
  <2>2. CASE ~ (q = r /\ req[r].at # "auditing")
    <3>1. (req'[q].at = "storing" => req[q].at = "storing") /\ (Over(q)' => Over(q))
      BY <1>1, <1>2, <2>2
    <3>2. /\ req[q].arg \in Requests => Ended(req[q].arg)
          /\ Over(q) => ~ \E w \in rows : w.table = Api!Table(req[q].op) /\ w.id = req[q].arg
      BY <1>4, <3>1 DEF DeletedRight, Api!At
    <3>3. ASSUME Over(q)', NEW w \in rows', w.table = Api!Table(req[q].op), w.id = req[q].arg
          PROVE  FALSE
      <4>1. ~ \E v \in rows : Alike(v, w)
        BY <3>1, <3>2, <3>3 DEF Alike
      <4>2. w.id = r /\ req[r].at # "auditing"
        BY <4>1 DEF RowsMove
      <4>3. Ended(r)
        BY <3>2, <3>3, <4>2
      <4> QED
        BY <4>2, <4>3 DEF Ended
    <3>4. req[q].arg \in Requests => Ended(req[q].arg)'
      <4>1. \A p \in Requests : Ended(p) => Ended(p)'
        BY <1>2
      <4>2. ASSUME NEW p \in Requests, p = req[q].arg PROVE Ended(req[q].arg)'
        <5>1. Ended(p)'
          BY <3>2, <4>1, <4>2
        <5> QED
          BY <1>3, <4>2, <5>1 DEF Ended
      <4> QED
        BY <4>2
    <3> QED
      BY <3>3, <3>4
  <2> QED
    BY <2>1, <2>2
<1>9. ASSUME NEW q \in Requests PROVE SeenRight(q)'
  <2>1. CASE q = r
    BY <1>1, <2>1 DEF SeenRight, Mine
  <2>2. CASE q # r
    BY <1>1, <1>4, <2>2 DEF SeenRight, Mine
  <2> QED
    BY <2>1, <2>2
<1> QED
  BY <1>5, <1>6, <1>7, <1>8, <1>9 DEF RequestRight

\* As long as the rows stay nothing is made or deleted.
LEMMA RowsStay ==
  ASSUME ApiTypes, rows' = rows, NEW r, NEW a, NEW c
  PROVE  RowsMove(r, a, c)
  BY DEF RowsMove, ApiTypes, Alike

\* A step that saves no response keeps the saved ones, if it is not the end of work
\* whose response is to be saved.
LEMMA AnswersStay ==
  ASSUME ApiInv, NEW r \in Requests, NEW a, NEW c, NEW s, Moved(r, a, c, s), saved' = saved,
         a = "answered" /\ c = "done" => req[r].key = None
  PROVE  saved' \in SUBSET Answers /\ SavedRight' /\ \A q \in Requests : KeptRight(q)'
<1>1. saved' \in SUBSET Answers /\ SavedRight'
  BY DEF ApiInv, ApiTypes, SavedRight
<1>2. ASSUME NEW q \in Requests PROVE KeptRight(q)'
  <2>1. CASE q = r
    BY <2>1 DEF Moved, KeptRight, Api!Done
  <2>2. CASE q # r
    <3>1. KeptRight(q) /\ req'[q] = req[q]
      BY <2>2 DEF ApiInv, Moved
    <3> QED
      BY <3>1 DEF KeptRight, Api!Done
  <2> QED
    BY <2>1, <2>2
<1> QED
  BY <1>1, <1>2

\* A response is saved with the answer it belongs to.
LEMMA SavesKeep ==
  ASSUME ApiInv, NEW r \in Requests, NEW s \in SUBSET AllRows, Moved(r, "answered", "done", s),
         Api!Saves(r, s), Mine(r, s), req[r].at # "unsent", req[r].at # "answered"
  PROVE  saved' \in SUBSET Answers /\ SavedRight' /\ \A q \in Requests : KeptRight(q)'
<1> DEFINE me == [user |-> req[r].by.user, op |-> req[r].op, key |-> req[r].key, rows |-> s, age |-> 0]
<1>1. /\ SentRight(r) /\ req[r].by \in Callers /\ req[r].op \in Api!Ops /\ req[r] \in ApiCalls
      /\ saved \in SUBSET Answers
  BY DEF ApiInv, ApiTypes, RequestRight, SentRight
<1>2. req[r].by.user \in Api!Users /\ req[r].key \in IdemKeys \cup {None} /\ req[r].age \in Nat
  BY <1>1 DEF Api!Users, ApiCalls
<1>3. CASE req[r].key = None
  <2>1. saved' = saved
    BY <1>3 DEF Api!Saves
  <2> QED
    BY <1>3, <2>1, AnswersStay
<1>4. CASE req[r].key # None
  <2>1. me \in Answers
    BY <1>1, <1>2, <1>4 DEF Answers
  <2>2. saved' = {e \in saved : <<e.user, e.op, e.key>> # <<me.user, me.op, me.key>>} \cup {me}
    BY <1>4 DEF Api!Saves
  <2>3. /\ me.user = req[r].by.user /\ me.op = req[r].op /\ me.key = req[r].key
        /\ me.rows = s /\ me.age = 0
    OBVIOUS
  <2> HIDE DEF me
  <2>4. saved' \in SUBSET Answers
    BY <1>1, <2>1, <2>2
  <2>5. SavedRight'
    <3>1. \A w \in me.rows : w.owner = me.user
      BY <2>3 DEF Mine
    <3>2. \A e \in saved' : e = me \/ e \in saved
      BY <2>2
    <3> QED
      BY <3>1, <3>2 DEF ApiInv, SavedRight
  <2>6. ASSUME NEW q \in Requests PROVE KeptRight(q)'
    <3> SUFFICES ASSUME Api!Done(q)', req'[q].key # None, req'[q].age <= ReplyTtl
                 PROVE  \E e \in saved' : /\ e.user = req'[q].by.user /\ e.op = req'[q].op
                                          /\ e.key = req'[q].key /\ e.age <= req'[q].age
      BY DEF KeptRight
    <3>1. me \in saved'
      BY <2>2
    <3>2. CASE q = r
      <4>1. /\ req'[q].by = req[r].by /\ req'[q].op = req[r].op /\ req'[q].key = req[r].key
            /\ req'[q].age = req[r].age
        BY <3>2 DEF Moved
      <4>2. me.age <= req'[q].age
        BY <1>2, <2>3, <4>1
      <4> QED
        BY <2>3, <3>1, <4>1, <4>2
    <3>3. CASE q # r
      <4>1. req'[q] = req[q] /\ Api!Done(q)
        BY <3>3 DEF Moved, Api!Done
      <4>2. PICK e \in saved : /\ e.user = req[q].by.user /\ e.op = req[q].op
                               /\ e.key = req[q].key /\ e.age <= req[q].age
        BY <4>1 DEF ApiInv, KeptRight
      <4>3. CASE <<e.user, e.op, e.key>> # <<me.user, me.op, me.key>>
        BY <2>2, <4>1, <4>2, <4>3
      <4>4. CASE <<e.user, e.op, e.key>> = <<me.user, me.op, me.key>>
        <5>1. me.user = e.user /\ me.op = e.op /\ me.key = e.key
          BY <4>4
        <5>2. req[q].age \in Nat
          BY DEF ApiInv, ApiTypes, ApiCalls
        <5> QED
          BY <2>3, <3>1, <4>1, <4>2, <5>1, <5>2
      <4> QED
        BY <4>3, <4>4
    <3> QED
      BY <3>2, <3>3
  <2> QED
    BY <2>4, <2>5, <2>6
<1> QED
  BY <1>3, <1>4

\* A request that goes on, or is answered without a response to save, keeps everything.
LEMMA WorkKeeps ==
  ASSUME ApiInv, NEW r \in Requests, NEW a, NEW c, NEW s, Moved(r, a, c, s),
         req[r].at \in {"resolving", "working", "storing"},
         a \in {"working", "storing", "auditing", "answered"},
         WorkDone(r, a, c), RowsMove(r, a, c),
         a # "answered" => Api!MayAsk(req[r].by, req[r].op),
         a = "auditing" => Mine(r, s),
         a = "answered" => req[r].by.admin \/ Mine(r, s),
         a = "answered" /\ c = "done" => req[r].op \notin Api!Idempotent,
         saved' = saved
  PROVE  ApiInv'
<1>1. RowsRight' /\ \A q \in Requests : RequestRight(q)'
  BY RequestsKeep
<1>2. a = "answered" /\ c = "done" => req[r].key = None
  BY DEF ApiInv, RequestRight, SentRight
<1>3. saved' \in SUBSET Answers /\ SavedRight' /\ \A q \in Requests : KeptRight(q)'
  BY <1>2, AnswersStay
<1>4. req' \in [Requests -> ApiCalls] /\ rows' \in SUBSET AllRows
  BY DEF Moved, RowsMove
<1> QED
  BY <1>1, <1>3, <1>4 DEF ApiInv, ApiTypes

\* A request is sent.
LEMMA SendKeeps ==
  ASSUME ApiInv, NEW r \in Requests, req[r].at = "unsent",
         NEW caller \in Callers, NEW op \in Api!Ops, NEW key \in IdemKeys \cup {None},
         NEW arg \in Api!Args(op), Api!Send(r, caller, op, arg, key)
  PROVE  ApiInv'
<1> DEFINE call == [Api!Unsent EXCEPT !.at = "resolving", !.by = caller, !.op = op, !.arg = arg,
                                      !.key = key]
<1>1. req' = [req EXCEPT ![r] = call] /\ UNCHANGED <<rows, saved>>
      /\ (op \notin Api!Idempotent => key = None)
  BY DEF Api!Send
<1>2. call \in ApiCalls
  BY DEF ApiCalls, AllArgs, Api!Unsent
<1>3. ApiTypes /\ req \in [Requests -> ApiCalls]
  BY DEF ApiInv, ApiTypes
<1>4. /\ call.at = "resolving" /\ call.by = caller /\ call.op = op /\ call.arg = arg
      /\ call.key = key
  BY DEF Api!Unsent
<1> HIDE DEF call
<1>5. /\ req' \in [Requests -> ApiCalls] /\ req'[r] = call
      /\ \A q \in Requests : q # r => req'[q] = req[q]
  BY <1>1, <1>2, <1>3
<1>6. /\ \A q \in Requests : (Ended(q)' <=> Ended(q)) /\ (Over(q)' <=> Over(q))
      /\ ~ Over(r)
  BY <1>4, <1>5 DEF Ended, Over, Api!Done
<1>7. \A q \in Requests : q # r => (Ended(q) => req'[q] = req[q])
  BY <1>5
<1>8. ~ Ended(r)
  BY DEF Ended
<1>9. RowsRight'
  <2>1. \A w \in rows : w.id \in Requests =>
          Over(w.id) /\ req[w.id].op \in MakingOps /\ w.owner = req[w.id].by.user
    BY DEF ApiInv, RowsRight
  <2> QED
    BY <1>1, <1>5, <1>6, <2>1 DEF RowsRight
<1>10. ASSUME NEW q \in Requests PROVE SentRight(q)'
  <2>1. CASE q = r
    BY <1>1, <1>4, <1>5, <2>1 DEF SentRight
  <2>2. CASE q # r
    BY <1>5, <2>2 DEF ApiInv, RequestRight, SentRight
  <2> QED
    BY <2>1, <2>2
<1>11. ASSUME NEW q \in Requests PROVE MadeRight(q)'
  <2> SUFFICES ASSUME Over(q), q # r, req[q].op \in MakingOps
               PROVE  \/ \E w \in rows : w.id = q /\ w.owner = req[q].by.user
                      \/ \E p \in Requests : req'[p].op \in Api!Deletes /\ req'[p].arg = q /\ Ended(p)
    BY <1>1, <1>5, <1>6 DEF MadeRight
  <2>1. \/ \E w \in rows : w.id = q /\ w.owner = req[q].by.user
        \/ \E p \in Requests : req[p].op \in Api!Deletes /\ req[p].arg = q /\ Ended(p)
    BY DEF ApiInv, RequestRight, MadeRight
  <2> QED
    BY <1>7, <1>8, <2>1
<1>12. ASSUME NEW q \in Requests PROVE DeletedRight(q)'
  <2>1. CASE q = r
    BY <1>4, <1>5, <1>6, <2>1 DEF DeletedRight
  <2>2. CASE q # r
    <3>1. DeletedRight(q) /\ req'[q] = req[q]
      BY <1>5, <2>2 DEF ApiInv, RequestRight
    <3> QED
      BY <1>1, <1>6, <3>1 DEF DeletedRight, Api!At
  <2> QED
    BY <2>1, <2>2
<1>13. ASSUME NEW q \in Requests PROVE SeenRight(q)'
  <2>1. CASE q = r
    BY <1>4, <1>5, <2>1 DEF SeenRight
  <2>2. CASE q # r
    BY <1>5, <2>2 DEF ApiInv, RequestRight, SeenRight, Mine
  <2> QED
    BY <2>1, <2>2
<1>14. ASSUME NEW q \in Requests PROVE KeptRight(q)'
  <2>1. CASE q = r
    BY <1>4, <1>5, <2>1 DEF KeptRight, Api!Done
  <2>2. CASE q # r
    <3>1. KeptRight(q) /\ req'[q] = req[q]
      BY <1>5, <2>2 DEF ApiInv
    <3> QED
      BY <1>1, <3>1 DEF KeptRight, Api!Done
  <2> QED
    BY <2>1, <2>2
<1>15. ApiTypes' /\ SavedRight'
  BY <1>1, <1>5 DEF ApiInv, ApiTypes, SavedRight
<1> QED
  BY <1>9, <1>10, <1>11, <1>12, <1>13, <1>14, <1>15 DEF ApiInv, RequestRight

\* Time passes for the answers and for the saved responses.
LEMMA ApiTickKeeps ==
  ASSUME ApiInv, Api!Tick
  PROVE  ApiInv'
<1>1. /\ saved' = {[e EXCEPT !.age = e.age + 1] : e \in {d \in saved : d.age <= ReplyTtl}}
      /\ req' = [r \in Requests |->
           [req[r] EXCEPT !.age = IF req[r].at = "answered" /\ req[r].age <= ReplyTtl
                                  THEN req[r].age + 1 ELSE req[r].age]]
      /\ rows' = rows
  BY DEF Api!Tick
<1>2. ApiTypes
  BY DEF ApiInv
<1>3. ASSUME NEW r \in Requests
      PROVE  /\ req'[r] \in ApiCalls
             /\ req'[r].at = req[r].at /\ req'[r].by = req[r].by /\ req'[r].op = req[r].op
             /\ req'[r].arg = req[r].arg /\ req'[r].key = req[r].key
             /\ req'[r].answer = req[r].answer /\ req'[r].seen = req[r].seen
             /\ req'[r].age = IF req[r].at = "answered" /\ req[r].age <= ReplyTtl
                              THEN req[r].age + 1 ELSE req[r].age
  <2> DEFINE age == IF req[r].at = "answered" /\ req[r].age <= ReplyTtl
                    THEN req[r].age + 1 ELSE req[r].age
  <2>1. req[r] \in ApiCalls /\ req'[r] = [req[r] EXCEPT !.age = age]
    BY <1>1, <1>2 DEF ApiTypes
  <2>2. age \in Nat
    BY <2>1 DEF ApiCalls
  <2> HIDE DEF age
  <2>3. /\ req'[r] \in ApiCalls /\ req'[r].age = age
        /\ req'[r].at = req[r].at /\ req'[r].by = req[r].by /\ req'[r].op = req[r].op
        /\ req'[r].arg = req[r].arg /\ req'[r].key = req[r].key
        /\ req'[r].answer = req[r].answer /\ req'[r].seen = req[r].seen
    BY <2>1, <2>2 DEF ApiCalls
  <2> QED
    BY <2>3 DEF age
<1>4. ASSUME NEW e \in saved
      PROVE  LET f == [e EXCEPT !.age = e.age + 1]
             IN  /\ f \in Answers /\ f.user = e.user /\ f.op = e.op /\ f.key = e.key
                 /\ f.rows = e.rows /\ f.age = e.age + 1
  <2>1. e \in Answers
    BY <1>2 DEF ApiTypes
  <2> QED
    BY <2>1 DEF Answers
<1>5. ApiTypes'
  <2>1. saved' \in SUBSET Answers
    BY <1>1, <1>4
  <2>2. req' \in [Requests -> ApiCalls]
    BY <1>1, <1>3
  <2> QED
    BY <1>1, <1>2, <2>1, <2>2 DEF ApiTypes
<1>6. SavedRight'
  <2> SUFFICES ASSUME NEW f \in saved', NEW w \in f.rows PROVE w.owner = f.user
    BY DEF SavedRight
  <2>1. PICK e \in saved : f = [e EXCEPT !.age = e.age + 1]
    BY <1>1
  <2>2. f.user = e.user /\ f.rows = e.rows
    BY <1>4, <2>1
  <2> QED
    BY <2>2 DEF ApiInv, SavedRight
<1>7. \A r \in Requests : (Ended(r)' <=> Ended(r)) /\ (Over(r)' <=> Over(r))
  BY <1>3 DEF Ended, Over, Api!Done
<1>8. RowsRight'
  <2>1. \A w \in rows : w.id \in Requests =>
          Over(w.id) /\ req[w.id].op \in MakingOps /\ w.owner = req[w.id].by.user
    BY DEF ApiInv, RowsRight
  <2> QED
    BY <1>1, <1>3, <1>7, <2>1 DEF RowsRight
<1>9. ASSUME NEW r \in Requests PROVE RequestRight(r)'
  <2>1. SentRight(r) /\ MadeRight(r) /\ DeletedRight(r) /\ SeenRight(r)
    BY DEF ApiInv, RequestRight
  <2>2. SentRight(r)' /\ SeenRight(r)'
    BY <1>3, <2>1 DEF SentRight, SeenRight, Mine
  <2>3. MadeRight(r)'
    BY <1>1, <1>3, <1>7, <2>1 DEF MadeRight
  <2>4. DeletedRight(r)'
    <3> SUFFICES ASSUME req[r].op \in Api!Deletes, req[r].at = "storing" \/ Over(r)
                 PROVE  /\ req[r].arg \in Requests => Ended(req[r].arg)'
                        /\ Over(r) => Api!At(r) = {}
      BY <1>1, <1>3, <1>7 DEF DeletedRight, Api!At
    <3>1. /\ req[r].arg \in Requests => Ended(req[r].arg)
          /\ Over(r) => Api!At(r) = {}
      BY <2>1 DEF DeletedRight
    <3>2. ASSUME NEW p \in Requests, p = req[r].arg PROVE Ended(req[r].arg)'
      <4>1. req'[p].at = req[p].at
        BY <1>3
      <4>2. req'[r].arg = req[r].arg
        BY <1>3
      <4> QED
        BY <3>1, <3>2, <4>1, <4>2 DEF Ended
    <3> QED
      BY <3>1, <3>2
  <2> QED
    BY <2>2, <2>3, <2>4 DEF RequestRight
<1>10. ASSUME NEW r \in Requests PROVE KeptRight(r)'
  <2> SUFFICES ASSUME Api!Done(r), req[r].key # None, req'[r].age <= ReplyTtl
               PROVE  \E e \in saved' : /\ e.user = req[r].by.user /\ e.op = req[r].op
                                        /\ e.key = req[r].key /\ e.age <= req'[r].age
    BY <1>3 DEF KeptRight, Api!Done
  <2>1. req[r].age \in Nat /\ ReplyTtl \in Nat
    BY <1>2, ApiConstants DEF ApiTypes, ApiCalls
  <2>2. req'[r].age = req[r].age + 1 /\ req[r].age < ReplyTtl
    BY <1>3, <2>1 DEF Api!Done
  <2>3. PICK e \in saved : /\ e.user = req[r].by.user /\ e.op = req[r].op
                           /\ e.key = req[r].key /\ e.age <= req[r].age
    BY <2>1, <2>2 DEF ApiInv, KeptRight
  <2>4. e.age \in Nat /\ e.age <= ReplyTtl /\ e.age + 1 <= req'[r].age
    BY <1>2, <2>1, <2>2, <2>3 DEF ApiTypes, Answers
  <2> DEFINE f == [e EXCEPT !.age = e.age + 1]
  <2>5. f \in saved'
    BY <1>1, <2>4
  <2>6. f.user = e.user /\ f.op = e.op /\ f.key = e.key /\ f.age = e.age + 1
    BY <1>4
  <2> HIDE DEF f
  <2> QED
    BY <2>3, <2>4, <2>5, <2>6
<1> QED
  BY <1>5, <1>6, <1>8, <1>9, <1>10 DEF ApiInv

\* A request passes the door, is refused, or gets a saved response.
LEMMA DoorStepsKeep ==
  ASSUME ApiInv, NEW r \in Requests, Api!Refused(r) \/ Api!Replayed(r) \/ Api!Admitted(r)
  PROVE  ApiInv'
<1>1. ApiTypes /\ UNCHANGED <<rows, saved>>
  BY DEF ApiInv, Api!Refused, Api!Replayed, Api!Admitted
<1>2. CASE Api!Refused(r)
  <2>1. Moved(r, "answered", "refused", {})
    BY <1>1, <1>2, AnswerMoves DEF Api!Refused
  <2>2. RowsMove(r, "answered", "refused") /\ WorkDone(r, "answered", "refused") /\ Mine(r, {})
    BY <1>1, RowsStay DEF WorkDone, Mine
  <2>3. req[r].at \in {"resolving", "working", "storing"}
    BY <1>2 DEF Api!Refused
  <2> QED
    BY <1>1, <2>1, <2>2, <2>3, WorkKeeps
<1>3. CASE Api!Replayed(r)
  <2>1. PICK e \in Api!Replay(r) : Api!MyAnswer(r, "replay", e.rows)
    BY <1>3 DEF Api!Replayed
  <2>2. e \in saved /\ e.user = req[r].by.user
    BY <2>1 DEF Api!Replay
  <2>3. e.rows \in SUBSET AllRows /\ Mine(r, e.rows)
    BY <1>1, <2>2 DEF ApiInv, ApiTypes, Answers, SavedRight, Mine
  <2>4. Moved(r, "answered", "replay", e.rows)
    BY <1>1, <2>1, <2>3, AnswerMoves
  <2>5. RowsMove(r, "answered", "replay") /\ WorkDone(r, "answered", "replay")
    BY <1>1, RowsStay DEF WorkDone
  <2>6. req[r].at \in {"resolving", "working", "storing"}
    BY <1>3 DEF Api!Replayed, Api!Open
  <2> QED
    BY <1>1, <2>3, <2>4, <2>5, <2>6, WorkKeeps
<1>4. CASE Api!Admitted(r)
  <2>1. Api!Goes(r, "working", {}) /\ req[r].at = "resolving" /\ Api!MayAsk(req[r].by, req[r].op)
    BY <1>4 DEF Api!Admitted, Api!Open
  <2> DEFINE c == req[r].answer
  <2>2. Moved(r, "working", c, {})
    BY <1>1, <2>1, GoesMoves DEF Places
  <2>3. RowsMove(r, "working", c) /\ WorkDone(r, "working", c)
    BY <1>1, RowsStay DEF WorkDone
  <2> HIDE DEF c
  <2> QED
    BY <1>1, <2>1, <2>2, <2>3, WorkKeeps
<1> QED
  BY <1>2, <1>3, <1>4

\* The audit log has the event: the response is saved and sent.
LEMMA AuditedKeeps ==
  ASSUME ApiInv, NEW r \in Requests, Api!Audited(r)
  PROVE  ApiInv'
<1> DEFINE s == req[r].seen
<1>1. /\ ApiTypes /\ rows' = rows /\ req[r].at = "auditing"
      /\ Api!MyAnswer(r, "done", s) /\ Api!Saves(r, s)
  BY DEF ApiInv, Api!Audited
<1>2. s \in SUBSET AllRows
  BY <1>1 DEF ApiTypes, ApiCalls
<1>3. Mine(r, s)
  BY <1>1 DEF ApiInv, RequestRight, SeenRight
<1> HIDE DEF s
<1>4. Moved(r, "answered", "done", s)
  BY <1>1, <1>2, AnswerMoves
<1>5. RowsMove(r, "answered", "done")
  BY <1>1, RowsStay
<1>6. RowsRight' /\ \A q \in Requests : RequestRight(q)'
  BY <1>1, <1>3, <1>4, <1>5, RequestsKeep
<1>7. saved' \in SUBSET Answers /\ SavedRight' /\ \A q \in Requests : KeptRight(q)'
  BY <1>1, <1>2, <1>3, <1>4, SavesKeep
<1>8. ApiTypes'
  BY <1>1, <1>4, <1>7 DEF ApiTypes, Moved
<1> QED
  BY <1>6, <1>7, <1>8 DEF ApiInv

\* An admin sets the state: nothing is awaited before the response is saved.
LEMMA SetStateKeeps ==
  ASSUME ApiInv, NEW r \in Requests, Api!SetState(r)
  PROVE  ApiInv'
<1>1. /\ ApiTypes /\ rows' = rows /\ req[r].at = "resolving" /\ req[r].op = "setState"
      /\ Api!MyAnswer(r, "done", {}) /\ Api!Saves(r, {})
  BY DEF ApiInv, Api!SetState, Api!Open
<1>2. Moved(r, "answered", "done", {})
  BY <1>1, AnswerMoves
<1>3. RowsMove(r, "answered", "done") /\ Mine(r, {})
  BY <1>1, RowsStay DEF Mine
<1>4. WorkDone(r, "answered", "done")
  BY <1>1 DEF WorkDone, MakingOps, Api!Creates, Api!Deletes
<1>5. RowsRight' /\ \A q \in Requests : RequestRight(q)'
  BY <1>1, <1>2, <1>3, <1>4, RequestsKeep
<1>6. saved' \in SUBSET Answers /\ SavedRight' /\ \A q \in Requests : KeptRight(q)'
  BY <1>1, <1>2, <1>3, SavesKeep
<1>7. ApiTypes'
  BY <1>1, <1>2, <1>6 DEF ApiTypes, Moved
<1> QED
  BY <1>5, <1>6, <1>7 DEF ApiInv

\* What a request found is looked for once more when it is stored.
LEMMA FoundKeeps ==
  ASSUME ApiInv, NEW r \in Requests,
         \/ Api!DeleteTunnelFound(r) \/ Api!DeleteKeyFound(r) \/ Api!CreateMappingListed(r)
         \/ Api!RegisterFree(r) \/ Api!PasswordChecked(r)
  PROVE  ApiInv'
<1> DEFINE c == req[r].answer
<1>1. /\ ApiTypes /\ UNCHANGED <<rows, saved>> /\ req[r].at = "working"
      /\ Api!Goes(r, "storing", {})
      /\ req[r].op \in Api!Deletes => \E w \in rows : w.id = req[r].arg
  BY DEF ApiInv, Api!DeleteTunnelFound, Api!DeleteKeyFound, Api!CreateMappingListed,
         Api!RegisterFree, Api!PasswordChecked, Api!Working, Api!Deletable, Api!At, Api!Deletes
<1>2. Moved(r, "storing", c, {})
  BY <1>1, GoesMoves DEF Places
<1>3. RowsMove(r, "storing", c) /\ Api!MayAsk(req[r].by, req[r].op)
  BY <1>1, RowsStay DEF ApiInv, RequestRight, SentRight
<1>4. req[r].op \in Api!Deletes /\ req[r].arg \in Requests => Ended(req[r].arg)
  BY <1>1 DEF ApiInv, RowsRight, Over, Ended, Api!Done
<1>5. WorkDone(r, "storing", c)
  BY <1>4 DEF WorkDone
<1> HIDE DEF c
<1> QED
  BY <1>1, <1>2, <1>3, <1>5, WorkKeeps

\* A request makes its row.
LEMMA MakesKeep ==
  ASSUME ApiInv, NEW r \in Requests,
         Api!CreateTunnel(r) \/ Api!CreateKey(r) \/ Api!CreateMapping(r) \/ Api!Register(r)
  PROVE  ApiInv'
<1>1. ApiTypes /\ SentRight(r) /\ saved' = saved
  BY DEF ApiInv, RequestRight, Api!CreateTunnel, Api!CreateKey, Api!CreateMapping, Api!Register
<1>2. /\ req[r].at \in {"working", "storing"} /\ req[r].op \in MakingOps
      /\ \E data \in RowData :
           /\ rows' = rows \cup {Api!Row(r, req[r].by.user, data)}
           /\ \/ Api!Goes(r, "auditing", {Api!Row(r, req[r].by.user, data)})
              \/ /\ req[r].op = "createMapping"
                 /\ Api!MyAnswer(r, "done", {Api!Row(r, req[r].by.user, data)})
  <2>1. CASE Api!CreateTunnel(r)
    <3>1. req[r].op = "createTunnel" /\ req[r].at = "working" /\ req[r].arg \in Reserved
      <4>1. req[r].op = "createTunnel" /\ req[r].at = "working"
        BY <2>1 DEF Api!CreateTunnel, Api!Working
      <4>2. req[r].arg \in Api!Args("createTunnel")
        BY <1>1, <4>1 DEF SentRight
      <4>3. Api!Args("createTunnel") = Reserved
        BY DEF Api!Args, Api!Deletes, Api!Passwords
      <4> QED
        BY <4>1, <4>2, <4>3
    <3>2. req[r].arg \in RowData
      BY <3>1 DEF RowData
    <3> QED
      BY <2>1, <3>1, <3>2 DEF Api!CreateTunnel, Api!Insert, MakingOps, Api!Creates
  <2>2. CASE Api!CreateKey(r)
    <3>1. None \in RowData
      BY DEF RowData
    <3> QED
      BY <2>2, <3>1 DEF Api!CreateKey, Api!Working, Api!Insert, MakingOps, Api!Creates
  <2>3. CASE Api!CreateMapping(r)
    <3>1. req[r].op = "createMapping" /\ req[r].at = "storing" /\ req[r].arg \in Mappings
      <4>1. req[r].op = "createMapping" /\ req[r].at = "storing"
        BY <2>3 DEF Api!CreateMapping, Api!Storing
      <4>2. req[r].arg \in Api!Args("createMapping")
        BY <1>1, <4>1 DEF SentRight
      <4>3. Api!Args("createMapping") = Mappings
        BY DEF Api!Args, Api!Deletes, Api!Passwords
      <4> QED
        BY <4>1, <4>2, <4>3
    <3>2. req[r].arg \in RowData
      BY <3>1 DEF RowData
    <3> QED
      BY <2>3, <3>1, <3>2 DEF Api!CreateMapping, Api!Insert, MakingOps, Api!Creates
  <2>4. CASE Api!Register(r)
    <3>1. FALSE \in RowData
      BY DEF RowData
    <3> QED
      BY <2>4, <3>1 DEF Api!Register, Api!Storing, Api!Insert, MakingOps
  <2> QED
    BY <2>1, <2>2, <2>3, <2>4
<1>3. PICK data \in RowData :
        /\ rows' = rows \cup {Api!Row(r, req[r].by.user, data)}
        /\ \/ Api!Goes(r, "auditing", {Api!Row(r, req[r].by.user, data)})
           \/ /\ req[r].op = "createMapping"
              /\ Api!MyAnswer(r, "done", {Api!Row(r, req[r].by.user, data)})
  BY <1>2
<1> DEFINE made == Api!Row(r, req[r].by.user, data)
<1>4. /\ made \in AllRows /\ made.id = r /\ made.owner = req[r].by.user
      /\ made.table = Api!Table(req[r].op)
  <2>1. req[r].by.user \in Api!Users
    BY <1>1, <1>2 DEF SentRight, Api!Users
  <2>2. Api!Table(req[r].op) \in {"tunnel", "key", "mapping", "user"}
    BY DEF Api!Table
  <2> QED
    BY <2>1, <2>2 DEF Api!Row, AllRows, Api!Rows
<1>5. rows' = rows \cup {made}
  BY <1>3
<1> HIDE DEF made
<1>6. req[r].op \notin Api!Deletes
  BY <1>2 DEF MakingOps, Api!Creates, Api!Deletes
<1>7. ASSUME NEW a, NEW c, a = "auditing" \/ (a = "answered" /\ c = "done")
      PROVE  RowsMove(r, a, c) /\ WorkDone(r, a, c)
  <2>1. rows' \in SUBSET AllRows
    BY <1>1, <1>4, <1>5 DEF ApiTypes
  <2>2. \A w \in rows : Alike(w, w)
    BY DEF Alike
  <2>3. RowsMove(r, a, c)
    BY <1>2, <1>4, <1>5, <1>7, <2>1, <2>2 DEF RowsMove
  <2>4. WorkDone(r, a, c)
    BY <1>4, <1>5, <1>6 DEF WorkDone
  <2> QED
    BY <2>3, <2>4
<1>8. Mine(r, {made}) /\ {made} \in SUBSET AllRows
  BY <1>4 DEF Mine
<1>9. Api!MayAsk(req[r].by, req[r].op)
  BY <1>1, <1>2 DEF SentRight
<1>10. CASE Api!Goes(r, "auditing", {made})
  <2> DEFINE c == req[r].answer
  <2>1. Moved(r, "auditing", c, {made})
    BY <1>1, <1>8, <1>10, GoesMoves DEF Places
  <2> HIDE DEF c
  <2> QED
    BY <1>1, <1>2, <1>7, <1>8, <1>9, <2>1, WorkKeeps
<1>11. CASE req[r].op = "createMapping" /\ Api!MyAnswer(r, "done", {made})
  <2>1. Moved(r, "answered", "done", {made})
    BY <1>1, <1>8, <1>11, AnswerMoves
  <2>2. req[r].op \notin Api!Idempotent
    BY <1>11 DEF Api!Idempotent
  <2> QED
    BY <1>1, <1>2, <1>7, <1>8, <2>1, <2>2, WorkKeeps
<1> QED
  BY <1>3, <1>10, <1>11 DEF made

\* A request deletes what it was asked to.
LEMMA DeletesKeep ==
  ASSUME ApiInv, NEW r \in Requests,
         Api!DeleteTunnel(r) \/ Api!DeleteKey(r) \/ Api!DeleteMapping(r)
  PROVE  ApiInv'
<1>1. /\ ApiTypes /\ SentRight(r) /\ saved' = saved /\ req[r].op \in Api!Deletes
      /\ req[r].at \in {"working", "storing"}
      /\ rows' = rows \ Api!At(r)
      /\ \/ req[r].at = "storing" /\ Api!Goes(r, "auditing", {})
         \/ /\ req[r].at = "working" /\ Api!At(r) # {} /\ req[r].op = "deleteMapping"
            /\ Api!MyAnswer(r, "done", {})
  BY DEF ApiInv, RequestRight, Api!DeleteTunnel, Api!DeleteKey, Api!DeleteMapping, Api!Storing,
         Api!Working, Api!Remove, Api!Deletes
<1>2. req[r].arg \in Requests => Ended(req[r].arg)
  <2>1. CASE req[r].at = "storing"
    BY <1>1, <2>1 DEF ApiInv, RequestRight, DeletedRight
  <2>2. CASE Api!At(r) # {}
    BY <2>2 DEF Api!At, ApiInv, RowsRight, Over, Ended, Api!Done
  <2> QED
    BY <1>1, <2>1, <2>2
<1>3. req[r].op \notin MakingOps
  BY <1>1 DEF MakingOps, Api!Creates, Api!Deletes
<1>4. ASSUME NEW a, NEW c, a = "auditing" \/ (a = "answered" /\ c = "done")
      PROVE  RowsMove(r, a, c) /\ WorkDone(r, a, c)
  <2>1. rows' \in SUBSET AllRows
    BY <1>1 DEF ApiTypes
  <2>2. \A w \in rows : Alike(w, w)
    BY DEF Alike
  <2>3. \A w \in rows : w \in rows' \/ (w.id = req[r].arg /\ a \in {"auditing", "answered"})
    BY <1>1, <1>4 DEF Api!At
  <2>4. RowsMove(r, a, c)
    BY <1>1, <2>1, <2>2, <2>3 DEF RowsMove
  <2>5. WorkDone(r, a, c)
    BY <1>1, <1>2, <1>3 DEF WorkDone, Api!At
  <2> QED
    BY <2>4, <2>5
<1>5. Mine(r, {}) /\ Api!MayAsk(req[r].by, req[r].op)
  BY <1>1 DEF Mine, SentRight
<1>6. CASE req[r].at = "storing" /\ Api!Goes(r, "auditing", {})
  <2> DEFINE c == req[r].answer
  <2>1. Moved(r, "auditing", c, {})
    BY <1>1, <1>6, GoesMoves DEF Places
  <2> HIDE DEF c
  <2> QED
    BY <1>1, <1>4, <1>5, <2>1, WorkKeeps
<1>7. CASE req[r].op = "deleteMapping" /\ Api!MyAnswer(r, "done", {})
  <2>1. Moved(r, "answered", "done", {})
    BY <1>1, <1>7, AnswerMoves
  <2>2. req[r].op \notin Api!Idempotent
    BY <1>7 DEF Api!Idempotent
  <2> QED
    BY <1>1, <1>4, <1>5, <2>1, <2>2, WorkKeeps
<1> QED
  BY <1>1, <1>6, <1>7

\* The endpoints that only read, or change what is not a row: what they answer.
LEMMA ReadsAnswer ==
  ASSUME ApiInv, NEW r \in Requests,
         \/ Api!UpdateMapping(r) \/ Api!ListTunnels(r) \/ Api!ListAllTunnels(r)
         \/ Api!ListKeys(r) \/ Api!ListMappings(r) \/ Api!ListUsers(r) \/ Api!ListDevices(r)
         \/ Api!Usage(r) \/ Api!Validate(r)
  PROVE  /\ req[r].at = "working" /\ req[r].op \in Api!Reads \cup {"updateMapping"}
         /\ UNCHANGED <<rows, saved>>
         /\ \E s \in SUBSET AllRows :
              Api!MyAnswer(r, "done", s) /\ (req[r].by.admin \/ Mine(r, s))
<1>1. /\ rows \in SUBSET AllRows /\ Sessions \subseteq AllRows
      /\ req[r].at = "working" => Api!MayAsk(req[r].by, req[r].op)
  BY ApiConstants DEF ApiInv, ApiTypes, RequestRight, SentRight
<1>2. CASE Api!UpdateMapping(r)
  <2>1. /\ req[r].at = "working" /\ req[r].op = "updateMapping" /\ UNCHANGED <<rows, saved>>
        /\ Api!MyAnswer(r, "done", Api!At(r))
    BY <1>2 DEF Api!UpdateMapping, Api!Working
  <2>2. req[r].by.admin /\ Api!At(r) \in SUBSET AllRows
    BY <1>1, <2>1 DEF Api!MayAsk, Api!AdminOnly, Api!At
  <2> QED
    BY <2>1, <2>2
<1>3. ASSUME NEW op \in Api!Reads, NEW s \in SUBSET AllRows, Api!Lists(r, op, s),
             op \in Api!AdminOnly \/ Mine(r, s)
      PROVE  /\ req[r].at = "working" /\ req[r].op \in Api!Reads
             /\ UNCHANGED <<rows, saved>>
             /\ Api!MyAnswer(r, "done", s) /\ (req[r].by.admin \/ Mine(r, s))
  <2>1. /\ req[r].at = "working" /\ req[r].op = op /\ UNCHANGED <<rows, saved>>
        /\ Api!MyAnswer(r, "done", s)
    BY <1>3 DEF Api!Lists, Api!Working
  <2> QED
    BY <1>1, <1>3, <2>1 DEF Api!MayAsk
<1>4. CASE Api!ListTunnels(r)
  <2>1. PICK there \in SUBSET Sessions :
          Api!Lists(r, "listTunnels", {w \in Api!In("tunnel") \cup there : Api!Own(w, r)})
    BY <1>4 DEF Api!ListTunnels
  <2> DEFINE s == {w \in Api!In("tunnel") \cup there : Api!Own(w, r)}
  <2>2. s \in SUBSET AllRows /\ Mine(r, s) /\ "listTunnels" \in Api!Reads
    BY <1>1 DEF Api!In, Api!Own, Mine, Api!Reads
  <2> HIDE DEF s
  <2> QED
    BY <1>3, <2>1, <2>2 DEF s
<1>5. CASE Api!ListAllTunnels(r)
  <2>1. PICK there \in SUBSET Sessions : Api!Lists(r, "listAllTunnels", Api!In("tunnel") \cup there)
    BY <1>5 DEF Api!ListAllTunnels
  <2>2. /\ Api!In("tunnel") \cup there \in SUBSET AllRows
        /\ "listAllTunnels" \in Api!Reads /\ "listAllTunnels" \in Api!AdminOnly
    BY <1>1 DEF Api!In, Api!Reads, Api!AdminOnly
  <2> QED
    BY <1>3, <2>1, <2>2
<1>6. CASE Api!ListKeys(r)
  <2> DEFINE s == {w \in Api!In("key") : Api!Own(w, r)}
  <2>1. s \in SUBSET AllRows /\ Mine(r, s) /\ "listKeys" \in Api!Reads /\ Api!Lists(r, "listKeys", s)
    BY <1>1, <1>6 DEF Api!In, Api!Own, Mine, Api!Reads, Api!ListKeys
  <2> HIDE DEF s
  <2> QED
    BY <1>3, <2>1
<1>7. CASE Api!ListMappings(r)
  <2>1. /\ Api!In("mapping") \in SUBSET AllRows /\ Api!Lists(r, "listMappings", Api!In("mapping"))
        /\ "listMappings" \in Api!Reads /\ "listMappings" \in Api!AdminOnly
    BY <1>1, <1>7 DEF Api!In, Api!Reads, Api!AdminOnly, Api!ListMappings
  <2> QED
    BY <1>3, <2>1
<1>8. CASE Api!ListUsers(r)
  <2>1. /\ Api!In("user") \in SUBSET AllRows /\ Api!Lists(r, "listUsers", Api!In("user"))
        /\ "listUsers" \in Api!Reads /\ "listUsers" \in Api!AdminOnly
    BY <1>1, <1>8 DEF Api!In, Api!Reads, Api!AdminOnly, Api!ListUsers
  <2> QED
    BY <1>3, <2>1
<1>9. CASE Api!ListDevices(r)
  <2> DEFINE s == {w \in Api!In("device") : Api!Own(w, r)}
  <2>1. s \in SUBSET AllRows /\ Mine(r, s) /\ "listDevices" \in Api!Reads /\ Api!Lists(r, "listDevices", s)
    BY <1>1, <1>9 DEF Api!In, Api!Own, Mine, Api!Reads, Api!ListDevices
  <2> HIDE DEF s
  <2> QED
    BY <1>3, <2>1
<1>10. CASE Api!Usage(r)
  <2> DEFINE s == Api!Metered(req[r].by.user)
  <2>1. s \in SUBSET AllRows /\ Mine(r, s) /\ "usage" \in Api!Reads /\ Api!Lists(r, "usage", s)
    BY <1>1, <1>10 DEF Api!In, Api!Metered, Mine, Api!Reads, Api!Usage
  <2> HIDE DEF s
  <2> QED
    BY <1>3, <2>1
<1>11. CASE Api!Validate(r)
  <2>1. Mine(r, {}) /\ "validate" \in Api!Reads /\ Api!Lists(r, "validate", {})
    BY <1>11 DEF Mine, Api!Reads, Api!Validate
  <2> QED
    BY <1>3, <2>1
<1> QED
  BY <1>2, <1>4, <1>5, <1>6, <1>7, <1>8, <1>9, <1>10, <1>11

\* They keep the invariant.
LEMMA ReadsKeep ==
  ASSUME ApiInv, NEW r \in Requests,
         \/ Api!UpdateMapping(r) \/ Api!ListTunnels(r) \/ Api!ListAllTunnels(r)
         \/ Api!ListKeys(r) \/ Api!ListMappings(r) \/ Api!ListUsers(r) \/ Api!ListDevices(r)
         \/ Api!Usage(r) \/ Api!Validate(r)
  PROVE  ApiInv'
<1>1. /\ ApiTypes /\ req[r].at = "working" /\ req[r].op \in Api!Reads \cup {"updateMapping"}
      /\ UNCHANGED <<rows, saved>>
  BY ReadsAnswer DEF ApiInv
<1>2. PICK s \in SUBSET AllRows :
        Api!MyAnswer(r, "done", s) /\ (req[r].by.admin \/ Mine(r, s))
  BY ReadsAnswer
<1>3. Moved(r, "answered", "done", s)
  BY <1>1, <1>2, AnswerMoves
<1>4. req[r].op \notin MakingOps \cup Api!Deletes \cup Api!Idempotent
  BY <1>1 DEF MakingOps, Api!Reads, Api!Creates, Api!Deletes, Api!Idempotent
<1>5. RowsMove(r, "answered", "done") /\ WorkDone(r, "answered", "done")
  BY <1>1, <1>4, RowsStay DEF WorkDone
<1> QED
  BY <1>1, <1>2, <1>3, <1>4, <1>5, WorkKeeps

\* A password is checked or changed, and the audit log comes next.
LEMMA PasswordsKeep ==
  ASSUME ApiInv, NEW r \in Requests, Api!Login(r) \/ Api!ChangePassword(r)
  PROVE  ApiInv'
<1> DEFINE c == req[r].answer
<1>1. /\ ApiTypes /\ req[r].at \in {"working", "storing"}
      /\ req[r].op \in {"login", "changePassword"} /\ UNCHANGED <<rows, saved>>
      /\ Api!MayAsk(req[r].by, req[r].op)
  BY DEF ApiInv, RequestRight, SentRight, Api!Login, Api!ChangePassword, Api!Working, Api!Storing
<1>2. PICK s \in {{}, Api!Account(req[r].by.user)} : Api!Goes(r, "auditing", s)
  BY DEF Api!Login, Api!ChangePassword
<1>3. s \in SUBSET AllRows /\ Mine(r, s)
  BY <1>1, <1>2 DEF ApiTypes, Mine, Api!Account, Api!In
<1>4. Moved(r, "auditing", c, s)
  BY <1>1, <1>2, <1>3, GoesMoves DEF Places
<1>5. RowsMove(r, "auditing", c) /\ WorkDone(r, "auditing", c)
  BY <1>1, RowsStay DEF WorkDone, MakingOps, Api!Creates, Api!Deletes
<1> HIDE DEF c
<1> QED
  BY <1>1, <1>3, <1>4, <1>5, WorkKeeps

\* An entitlement is turned over: the row of the user stays his.
LEMMA SubdomainKeeps ==
  ASSUME ApiInv, NEW r \in Requests, Api!SetSubdomain(r)
  PROVE  ApiInv'
<1> DEFINE mine == Api!Account(req[r].arg)
<1>1. /\ ApiTypes /\ req[r].at = "working" /\ req[r].op = "setSubdomain" /\ saved' = saved
      /\ rows' = (rows \ mine) \cup {[w EXCEPT !.data = ~ w.data] : w \in mine}
      /\ Api!MyAnswer(r, "done", {})
  BY DEF ApiInv, Api!SetSubdomain, Api!Working, Api!TurnOver
<1>2. mine \subseteq rows /\ rows \in SUBSET AllRows
  BY <1>1 DEF Api!Account, Api!In, ApiTypes
<1>3. ASSUME NEW w \in mine
      PROVE  LET v == [w EXCEPT !.data = ~ w.data] IN v \in AllRows /\ Alike(v, w) /\ Alike(w, v)
  <2>1. w \in AllRows
    BY <1>2
  <2>2. (~ w.data) \in RowData
    BY DEF RowData
  <2> DEFINE data == ~ w.data
  <2> HIDE DEF data
  <2>3. /\ [w EXCEPT !.data = data] \in AllRows
        /\ Alike([w EXCEPT !.data = data], w) /\ Alike(w, [w EXCEPT !.data = data])
    BY <2>1, <2>2 DEF AllRows, Api!Rows, Alike, data
  <2> QED
    BY <2>3 DEF data
<1> HIDE DEF mine
<1>4. rows' \in SUBSET AllRows
  BY <1>1, <1>2, <1>3
<1>5. \A w \in rows : Alike(w, w)
  BY DEF Alike
<1>6. ASSUME NEW w \in rows' PROVE \E v \in rows : Alike(v, w)
  BY <1>1, <1>2, <1>3, <1>5
<1>7. ASSUME NEW v \in rows PROVE \E w \in rows' : Alike(v, w)
  <2>1. CASE v \in mine
    BY <1>1, <1>3, <2>1
  <2>2. CASE v \notin mine
    BY <1>1, <1>5, <2>2
  <2> QED
    BY <2>1, <2>2
<1>8. RowsMove(r, "answered", "done")
  BY <1>4, <1>6, <1>7 DEF RowsMove
<1>9. WorkDone(r, "answered", "done") /\ Mine(r, {}) /\ req[r].op \notin Api!Idempotent
  BY <1>1 DEF WorkDone, Mine, MakingOps, Api!Creates, Api!Deletes, Api!Idempotent
<1>10. Moved(r, "answered", "done", {})
  BY <1>1, AnswerMoves
<1> QED
  BY <1>1, <1>8, <1>9, <1>10, WorkKeeps

\* At the start nothing was asked.
LEMMA ApiInit == Api!Init => ApiInv
<1> SUFFICES ASSUME Api!Init PROVE ApiInv
  OBVIOUS
<1>1. req = [r \in Requests |-> Api!Unsent] /\ rows = Stock /\ saved = {}
  BY DEF Api!Init
<1>2. Api!Unsent \in ApiCalls
  BY DEF ApiCalls, Api!Unsent, AllArgs
<1>3. \A r \in Requests : req[r].at = "unsent"
  BY <1>1 DEF Api!Unsent
<1>4. ApiTypes
  BY <1>1, <1>2, ApiConstants DEF ApiTypes
<1>5. RowsRight
  BY <1>1, ApiConstants DEF RowsRight
<1>6. \A r \in Requests : RequestRight(r) /\ KeptRight(r)
  BY <1>3 DEF RequestRight, SentRight, MadeRight, DeletedRight, SeenRight, KeptRight, Over,
              Api!Done
<1> QED
  BY <1>1, <1>4, <1>5, <1>6 DEF ApiInv, SavedRight

\* Every step keeps the invariant.
LEMMA ApiStep == ApiInv /\ [Api!Next]_(Api!vars) => ApiInv'
<1> SUFFICES ASSUME ApiInv, [Api!Next]_(Api!vars) PROVE ApiInv'
  OBVIOUS
<1>1. CASE UNCHANGED Api!vars
  BY <1>1 DEF Api!vars, ApiInv, ApiTypes, RowsRight, SavedRight, RequestRight, SentRight,
     MadeRight, DeletedRight, SeenRight, Mine, KeptRight, Over, Ended, Api!Done, Api!At
<1>2. CASE Api!Tick
  BY <1>2, ApiTickKeeps
<1>3. ASSUME NEW r \in Requests,
             Api!Refused(r) \/ Api!Replayed(r) \/ Api!Admitted(r) \/ Api!Audited(r)
      PROVE  ApiInv'
  BY <1>3, DoorStepsKeep, AuditedKeeps
<1>4. ASSUME NEW r \in Requests, Api!Works(r) PROVE ApiInv'
  BY <1>4, SetStateKeeps, FoundKeeps, MakesKeep, DeletesKeep, ReadsKeep, PasswordsKeep,
     SubdomainKeeps DEF Api!Works
<1>5. ASSUME NEW r \in Requests, req[r].at = "unsent",
             NEW caller \in Callers, NEW op \in Api!Ops, NEW key \in IdemKeys \cup {None},
             NEW arg \in Api!Args(op), Api!Send(r, caller, op, arg, key)
      PROVE  ApiInv'
  BY <1>5, SendKeeps
<1> QED
  BY <1>1, <1>2, <1>3, <1>4, <1>5 DEF Api!Next

\* An answer of the API tells what happened to the store: what it says was made or
\* deleted was, what was refused has made nothing, and the rows it shows are the
\* caller's own unless he is an admin, whatever other requests do between the queries of
\* his (the handlers of server.ts).
THEOREM ServicesAnswers == Spec => []AnswersTrue
<1>1. ApiInv => AnswersTrue
  <2> SUFFICES ASSUME ApiInv, NEW r \in Requests, req[r].at = "answered"
               PROVE  /\ Api!Made(r) /\ Api!Unmade(r)
                      /\ req[r].answer = "refused" => ~ \E w \in rows : w.id = r
                      /\ req[r].by.admin \/ \A w \in req[r].seen : w.owner = req[r].by.user
    BY DEF AnswersTrue, Api!AnswersTrue
  <2>1. MadeRight(r) /\ DeletedRight(r) /\ SeenRight(r) /\ RowsRight
    BY DEF ApiInv, RequestRight
  <2>2. Api!Made(r)
    BY <2>1 DEF MadeRight, MakingOps, Over, Ended, Api!Made
  <2>3. Api!Unmade(r)
    BY <2>1 DEF DeletedRight, Over, Api!Unmade
  <2>4. req[r].answer = "refused" => ~ \E w \in rows : w.id = r
    BY <2>1 DEF RowsRight, Over, Api!Done
  <2>5. req[r].by.admin \/ \A w \in req[r].seen : w.owner = req[r].by.user
    BY <2>1 DEF SeenRight, Mine
  <2> QED
    BY <2>2, <2>3, <2>4, <2>5
<1> QED
  BY <1>1, ApiInit, ApiStep, ApiSpec, PTL

\* A step of a request is no step of another one's.
LEMMA OthersStay ==
  ASSUME ApiTypes, NEW q \in Requests, NEW r \in Requests, q # r,
         \/ Api!Refused(q) \/ Api!Replayed(q) \/ Api!Admitted(q) \/ Api!Audited(q) \/ Api!Works(q)
         \/ \E c \in Callers, op \in Api!Ops, key \in IdemKeys \cup {None} :
              \E arg \in Api!Args(op) : Api!Send(q, c, op, arg, key)
  PROVE  req'[r] = req[r]
<1>1. req \in [Requests -> ApiCalls]
  BY DEF ApiTypes
<1>2. ASSUME NEW a, NEW s, Api!Goes(q, a, s) PROVE req'[r] = req[r]
  BY <1>1, <1>2 DEF Api!Goes
<1>3. ASSUME NEW c, NEW s, Api!MyAnswer(q, c, s) PROVE req'[r] = req[r]
  BY <1>1, <1>3 DEF Api!MyAnswer
<1>4. ASSUME NEW op, NEW s, Api!Lists(q, op, s) PROVE req'[r] = req[r]
  BY <1>3, <1>4 DEF Api!Lists
<1>5. CASE Api!Refused(q) \/ Api!Replayed(q) \/ Api!Audited(q)
  BY <1>3, <1>5 DEF Api!Refused, Api!Replayed, Api!Audited
<1>6. CASE Api!Admitted(q)
  BY <1>2, <1>6 DEF Api!Admitted
<1>7. CASE Api!CreateTunnel(q) \/ Api!DeleteTunnelFound(q) \/ Api!DeleteTunnel(q)
  BY <1>2, <1>7 DEF Api!CreateTunnel, Api!DeleteTunnelFound, Api!DeleteTunnel
<1>8. CASE Api!CreateKey(q) \/ Api!DeleteKeyFound(q) \/ Api!DeleteKey(q) \/ Api!CreateMappingListed(q)
  BY <1>2, <1>8 DEF Api!CreateKey, Api!DeleteKeyFound, Api!DeleteKey, Api!CreateMappingListed
<1>9. CASE \/ Api!CreateMapping(q) \/ Api!UpdateMapping(q) \/ Api!DeleteMapping(q)
           \/ Api!SetSubdomain(q) \/ Api!SetState(q)
  BY <1>3, <1>9 DEF Api!CreateMapping, Api!UpdateMapping, Api!DeleteMapping, Api!SetSubdomain, Api!SetState
<1>10. CASE \/ Api!RegisterFree(q) \/ Api!Register(q) \/ Api!Login(q)
            \/ Api!PasswordChecked(q) \/ Api!ChangePassword(q)
  BY <1>2, <1>10
  DEF Api!RegisterFree, Api!Register, Api!Login, Api!PasswordChecked, Api!ChangePassword
<1>11. CASE \/ Api!ListTunnels(q) \/ Api!ListAllTunnels(q) \/ Api!ListKeys(q) \/ Api!ListMappings(q)
            \/ Api!ListUsers(q) \/ Api!ListDevices(q) \/ Api!Usage(q) \/ Api!Validate(q)
  BY <1>4, <1>11
  DEF Api!ListTunnels, Api!ListAllTunnels, Api!ListKeys, Api!ListMappings, Api!ListUsers,
      Api!ListDevices, Api!Usage, Api!Validate
<1>12. ASSUME NEW c, NEW op, NEW key, NEW arg, Api!Send(q, c, op, arg, key) PROVE req'[r] = req[r]
  BY <1>1, <1>12 DEF Api!Send
<1> QED
  BY <1>5, <1>6, <1>7, <1>8, <1>9, <1>10, <1>11, <1>12 DEF Api!Works

\* A request that goes on after its caller is known, and is neither refused nor answered
\* from the saved responses, found none there.
LEMMA WorksWhenNew ==
  ASSUME ApiTypes, [Api!Next]_(Api!vars), NEW r \in Requests, req[r].at = "resolving",
         req'[r].at # "resolving", req'[r].answer \notin {"refused", "replay"}
  PROVE  Api!Replay(r) = {}
<1>1. req \in [Requests -> ApiCalls] /\ req[r] \in ApiCalls
  BY DEF ApiTypes
<1>2. ~ Api!Tick
  <2> SUFFICES ASSUME Api!Tick PROVE FALSE
    OBVIOUS
  <2>1. PICK n : req'[r] = [req[r] EXCEPT !.age = n]
    BY DEF Api!Tick
  <2>2. req'[r].at = req[r].at
    BY <1>1, <2>1 DEF ApiCalls
  <2> QED
    BY <2>2
<1>3. ~ UNCHANGED Api!vars
  BY DEF Api!vars
<1>4. PICK q \in Requests :
        \/ Api!Refused(q) \/ Api!Replayed(q) \/ Api!Admitted(q) \/ Api!Audited(q) \/ Api!Works(q)
        \/ /\ req[q].at = "unsent"
           /\ \E c \in Callers, op \in Api!Ops, key \in IdemKeys \cup {None} :
                \E arg \in Api!Args(op) : Api!Send(q, c, op, arg, key)
  BY <1>2, <1>3 DEF Api!Next
<1>5. q = r
  BY <1>4, OthersStay
<1>6. ASSUME NEW c \in {"refused", "replay"}, NEW s, Api!MyAnswer(r, c, s) PROVE FALSE
  <2>1. req'[r] = [req[r] EXCEPT !.at = "answered", !.answer = c, !.seen = s]
    BY <1>1, <1>6 DEF Api!MyAnswer
  <2>2. req'[r].answer = c
    BY <1>1, <2>1 DEF ApiCalls
  <2> QED
    BY <2>2
<1>7. ~ Api!Refused(r) /\ ~ Api!Replayed(r)
  BY <1>6 DEF Api!Refused, Api!Replayed
<1>8. ~ Api!Audited(r)
  BY DEF Api!Audited
<1>9. Api!Works(r) => Api!SetState(r)
  BY DEF Api!Works, Api!Working, Api!Storing, Api!Lists, Api!CreateTunnel, Api!DeleteTunnelFound,
     Api!DeleteTunnel, Api!CreateKey, Api!DeleteKeyFound, Api!DeleteKey, Api!CreateMappingListed,
     Api!CreateMapping, Api!UpdateMapping, Api!DeleteMapping, Api!SetSubdomain, Api!RegisterFree,
     Api!Register, Api!Login, Api!PasswordChecked, Api!ChangePassword, Api!ListTunnels,
     Api!ListAllTunnels, Api!ListKeys, Api!ListMappings, Api!ListUsers, Api!ListDevices, Api!Usage,
     Api!Validate
<1>10. Api!Admitted(r) \/ Api!SetState(r)
  BY <1>4, <1>5, <1>7, <1>8, <1>9
<1> QED
  BY <1>10 DEF Api!Admitted, Api!SetState

\* A retry is not work: a request that starts to work has no equal (same user, endpoint
\* and idempotency key) that was answered as done while responses are kept
\* (readIdempotencyReplay and writeIdempotencyReplay of server.ts).
THEOREM ServicesRetries == Spec => RetryIsReplayed
<1>1. ASSUME ApiInv, [Api!Next]_(Api!vars), NEW r \in Requests,
             req[r].at = "resolving", req'[r].at # "resolving",
             req'[r].answer \notin {"refused", "replay"}, req[r].key # None,
             NEW q \in Requests \ {r}, Api!Done(q), Api!Same(r, q), req[q].age <= ReplyTtl
      PROVE  FALSE
  <2>1. Api!Replay(r) = {}
    BY <1>1, WorksWhenNew DEF ApiInv
  <2>2. /\ req[q].key # None
        /\ req[r].by.user = req[q].by.user /\ req[r].op = req[q].op /\ req[r].key = req[q].key
    BY <1>1 DEF Api!Same
  <2>3. PICK e \in saved : /\ e.user = req[q].by.user /\ e.op = req[q].op /\ e.key = req[q].key
                           /\ e.age <= req[q].age
    BY <1>1, <2>2 DEF ApiInv, KeptRight
  <2>4. e.age \in Nat /\ req[q].age \in Nat /\ ReplyTtl \in Nat
    BY <1>1, ApiConstants DEF ApiInv, ApiTypes, Answers, ApiCalls
  <2>5. e.age <= ReplyTtl
    BY <1>1, <2>3, <2>4
  <2>6. e \in Api!Replay(r)
    BY <2>2, <2>3, <2>5 DEF Api!Replay
  <2> QED
    BY <2>1, <2>6
<1>2. ApiInv /\ [Api!Next]_(Api!vars) =>
        [\A r \in Requests :
           req[r].at = "resolving" /\ req'[r].at # "resolving"
             /\ req'[r].answer \notin {"refused", "replay"} /\ req[r].key # None =>
           ~ \E q \in Requests \ {r} : Api!Done(q) /\ Api!Same(r, q) /\ req[q].age <= ReplyTtl]_(Api!vars)
  BY <1>1
<1> QED
  BY <1>2, ApiInit, ApiStep, ApiSpec, PTL DEF RetryIsReplayed, Api!RetryIsReplayed
=============================================================================
