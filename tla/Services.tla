------------------------------ MODULE Services ------------------------------
(***************************************************************************)
(* Seven parts of the system that share no state in their models: API      *)
(* keys, API requests, the audit log, the console, the command line,       *)
(* persistent services, the door of a public port.                         *)
(* A behaviour is one of one part, chosen at the start; the variables of   *)
(* the others keep their first values.                                     *)
(***************************************************************************)
EXTENDS Naturals

CONSTANTS
  None,
  Parts,                                             \* the parts that may run
  KeyIds, Clients, Sockets,                          \* ApiKeys
  Requests, Callers, Reserved, Mappings, Stock,      \* ApiRequests
  Sessions, IdemKeys, ReplyTtl,
  Events, Strangers, MaxRetries, MemoryCap,          \* AuditTrail
  Earlier, PageLimit,
  PageUsers, MaxChanges, MaxAsked,                   \* Console
  Processes, NewProcesses,                           \* CommandLine; of the published edition
  ServiceNames, Managers, NewManagers, MaxCommands,  \* PersistentServices
  Ips, Window, Day, ConnLimit, MaxTokens, MaxTime    \* PublicDoor

VARIABLES
  part,   \* the part that runs
  row, roster, upserts, keySocket, byKey, byDevice, revokes, forgotten, sweep,
  req, rows, password, saved, apiMode,
  at, stored, memory, tries, accepted, letters, replay, overwritten, reader,
  truth, due, session, who, screen, shown, asked, events, event, timer, latest, untold, overtaken,
  config, sessions, configTorn, proc, listBehind, lost,
  platform, login, early, registry, torn, unit, service, manager, begun, behind,
  excused,
  now, tunnel, minted, ipAccess, redirect, conns, recent, visit, pass

keyVars   == <<row, roster, upserts, keySocket, byKey, byDevice, revokes, forgotten,
               sweep>>
apiVars   == <<req, rows, password, saved, apiMode>>
auditVars == <<at, stored, memory, tries, accepted, letters, replay, overwritten,
               reader>>
pageVars  == <<truth, due, session, who, screen, shown, asked, events, event, timer, latest,
               untold, overtaken>>
cliVars   == <<config, sessions, configTorn, proc, listBehind, lost>>
unitVars  == <<platform, login, early, registry, torn, unit, service, manager,
               begun, behind, excused>>
doorVars  == <<now, tunnel, minted, ipAccess, redirect, conns, recent, visit, pass>>

vars == <<part, keyVars, apiVars, auditVars, pageVars, cliVars, unitVars,
          doorVars>>

-----------------------------------------------------------------------------
Auth == INSTANCE ApiKeys WITH Keys <- KeyIds, socket <- keySocket

Api == INSTANCE ApiRequests WITH Names <- Reserved, Ttl <- ReplyTtl, mode <- apiMode

Audit == INSTANCE AuditTrail WITH Cap <- MemoryCap, Limit <- PageLimit

Page == INSTANCE Console WITH Users <- PageUsers, stream <- events

Cli == INSTANCE PublishedCommands WITH
         Published <- NewProcesses, torn <- configTorn, behind <- listBehind

Units == INSTANCE PublishedServices WITH Names <- ServiceNames, Published <- NewManagers

Door == INSTANCE PublicDoor

ASSUME ServicesAssumption ==
  /\ Auth!KeysAssumption /\ Api!RequestsAssumption /\ Audit!AuditAssumption
  /\ Page!ConsoleAssumption /\ Cli!CommandsAssumption /\ Units!UnitsAssumption
  /\ Door!DoorAssumption

-----------------------------------------------------------------------------
Init ==
  /\ part \in Parts
  /\ Auth!Init /\ Api!Init /\ Audit!Init /\ Page!Init /\ Cli!Init /\ Door!Init
  /\ part # "cli" => config = Cli!Blank
  /\ Units!Init /\ (part # "units" => platform = "linux" /\ registry = {})

Next ==
  \/ /\ part = "keys" /\ Auth!Next
     /\ UNCHANGED <<part, apiVars, auditVars, pageVars, cliVars, unitVars,
                    doorVars>>
  \/ /\ part = "api" /\ Api!Next
     /\ UNCHANGED <<part, keyVars, auditVars, pageVars, cliVars, unitVars,
                    doorVars>>
  \/ /\ part = "audit" /\ Audit!Next
     /\ UNCHANGED <<part, keyVars, apiVars, pageVars, cliVars, unitVars,
                    doorVars>>
  \/ /\ part = "page" /\ Page!Next
     /\ UNCHANGED <<part, keyVars, apiVars, auditVars, cliVars, unitVars,
                    doorVars>>
  \/ /\ part = "cli" /\ Cli!TwoEditions
     /\ UNCHANGED <<part, keyVars, apiVars, auditVars, pageVars, unitVars,
                    doorVars>>
  \/ /\ part = "units" /\ Units!TwoEditions
     /\ UNCHANGED <<part, keyVars, apiVars, auditVars, pageVars, cliVars,
                    doorVars>>
  \/ /\ part = "door" /\ Door!Next
     /\ UNCHANGED <<part, keyVars, apiVars, auditVars, pageVars, cliVars,
                    unitVars>>

Spec == Init /\ [][Next]_vars

-----------------------------------------------------------------------------
(***************************************************************************)
(* An invariant is asked of the behaviours of its part only: in the others *)
(* its variables do not change.                                            *)
(***************************************************************************)

\* A key is taken away from the clients that use it, and from no others.
RevocationReaches == Auth!RevocationReaches

\* An answer of the API tells what happened to the store, and nothing of others.
AnswersTrue == part = "api" => Api!AnswersTrue

\* A retry with an idempotency key is not work.
RetryIsReplayed == Api!RetryIsReplayed

\* An audit event that log() is done with was delivered or is a dead letter.
EventsKept == part = "audit" => Audit!EventsKept

\* Paging through the audit log while events are logged misses none and repeats none.
PagesComplete == part = "audit" => Audit!PagesComplete

\* A console at rest shows what the gateway has, but for what it cannot know.
RestIsCurrent == part = "page" => Page!RestIsCurrent

\* A process with a registered tunnel is in the list that the command line prints.
AliveIsListed == part = "cli" => Cli!AliveIsListed

\* What the operating system runs is in the list of services.
UnitsListed == part = "units" => Units!UnitsListed

\* Only invited addresses pass a guarded port, within the rate, and the redirect
\* leads to its link.
DoorHolds == part = "door" => Door!DoorHolds

=============================================================================
