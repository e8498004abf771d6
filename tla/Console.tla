------------------------------ MODULE Console -------------------------------
(***************************************************************************)
(* The web console (apps/frontend/src): how the list of tunnels on the     *)
(* page follows the gateway.  The list is asked for at the start, at       *)
(* login, after what the user does, on the refresh button, and 150 ms      *)
(* after a "tunnels_changed" event of the stream GET /api/events, which    *)
(* the console opens again when it breaks.                                 *)
(*                                                                         *)
(* The gateway changes a user's list in many handlers.  Some publish the   *)
(* event in the same turn, some after more awaits, and some never.         *)
(*                                                                         *)
(* Requests are answered in any order.  The gateway requires               *)
(* authentication; an admin's view of other users is left out, and so is   *)
(* lastSeenAt, which every heartbeat changes.                              *)
(***************************************************************************)
EXTENDS Naturals

CONSTANTS
  Users,
  MaxChanges,   \* bound: changes of the tunnels of a user, or of two together
  MaxAsked,     \* bound: requests in flight
  None

ConsoleAssumption == None \notin Users

VARIABLES
  truth,        \* user -> how often his tunnels changed; 0: he has none yet
  due,          \* user -> his changes whose handler has yet to publish the event
  session,      \* user of the session in localStorage
  who, screen,  \* user of the access token; "boot", "auth" or "app"
  shown,        \* the list on the page: [of, version]
  asked,        \* requests in flight: [n, of, kind, at, version], at "acting" and
                \* "acted" a POST or DELETE, then GETs of the list
  stream,       \* "off", "connecting", "open", "retry"
  event, timer, \* an event is on the stream; the refresh timer is set
  latest,       \* history: newest version of his list that reached the page since
                \* the user signed in
  untold,       \* history: user -> he has a change that no event will tell and no
                \* list answered since has
  overtaken     \* history: the list on the page came after a newer one, or is another's

authVars   == <<session, who, screen>>
streamVars == <<stream, event, timer>>
notes      == <<latest, untold, overtaken>>
vars == <<truth, due, authVars, shown, asked, streamVars, notes>>

List(u) == IF truth[u] = 0 THEN [of |-> None, version |-> 0]
           ELSE [of |-> u, version |-> truth[u]]
Empty   == [of |-> None, version |-> 0]
Unused  == {n \in 1..MaxAsked : \A r \in asked : r.n # n}

Boots(u) ==
  IF u = None THEN {} ELSE {[n |-> 1, of |-> u, kind |-> "boot", at |-> "sent", version |-> 0]}

Init ==
  /\ truth = [u \in Users |-> 0]
  /\ due = [u \in Users |-> {}]
  /\ session = None /\ who = None /\ screen = "auth"
  /\ shown = Empty /\ asked = {}
  /\ stream = "off" /\ event = FALSE /\ timer = FALSE
  /\ latest = 0 /\ untold = [u \in Users |-> FALSE] /\ overtaken = FALSE

-----------------------------------------------------------------------------
(***************************************************************************)
(* The gateway.                                                            *)
(***************************************************************************)

\* publishLiveEvent: those of the audience who are on the stream are told.
publishLiveEvent(audience) ==
  event' = (event \/ (stream = "open" /\ who \in audience))

Hears(u) == stream = "open" /\ who = u

Missed(u) == untold' = [untold EXCEPT ![u] = @ \/ ~Hears(u)]

Change(u) ==
  /\ truth[u] < MaxChanges
  /\ \A v \in Users \ {u} : truth[u] + truth[v] < MaxChanges
  /\ truth' = [truth EXCEPT ![u] = @ + 1]
  /\ UNCHANGED <<authVars, shown, stream, timer, latest, overtaken>>

(***************************************************************************)
(* Handlers that publish in the turn of the change.                        *)
(***************************************************************************)

Told(u, audience) ==
  /\ Change(u)
  /\ publishLiveEvent(audience)
  /\ Missed(u)
  /\ UNCHANGED <<due, asked>>

\* A tunnel is in: of the registry, of a fixed port, of a port only.  So do the
\* evictions by the registry and the look-up of the close handler tell the owner.
TunnelRegistered(u) == Told(u, {u})

\* The close handler has deleted the owner when it publishes: everybody is told.
TunnelCloses(u) == Told(u, Users)

(***************************************************************************)
(* Handlers that do not tell the owner.                                    *)
(***************************************************************************)

Silent(u) ==
  /\ Change(u)
  /\ untold' = [untold EXCEPT ![u] = TRUE]
  /\ UNCHANGED <<due, asked, event>>

\* Tunnels that have been offline for a day are dropped.
RedirectSwept(u) == Silent(u)

\* The entry and the ports of a tunnel of the registry come after its event.
EntryFiled(u) == Silent(u)

\* So does the end of a tunnel whose port could not be bound.
BindFails(u) == Silent(u)

\* DELETE by an admin of what is not his: he is told.
AdminDeletes(u) == Silent(u)

(***************************************************************************)
(* Handlers that publish after more awaits.                                *)
(***************************************************************************)

\* The change of a POST or DELETE: the audit log is awaited before the event.
Begins(u) ==
  /\ Change(u)
  /\ due' = [due EXCEPT ![u] = @ \cup {truth'[u]}]
  /\ UNCHANGED <<event, untold>>

Publishes(u, version) ==
  /\ version \in due[u]
  /\ due' = [due EXCEPT ![u] = @ \ {version}]
  /\ publishLiveEvent({u})
  /\ Missed(u)
  /\ UNCHANGED <<truth, authVars, shown, stream, timer, latest, overtaken>>

\* Another client of the user.
OtherActs(u) == Begins(u) /\ UNCHANGED asked

OtherDone(u) ==
  /\ \E version \in due[u] :
       /\ \A r \in asked : ~(r.of = u /\ r.at = "acted" /\ r.version = version)
       /\ Publishes(u, version)
  /\ UNCHANGED asked

Becomes(r, next) == asked' = (asked \ {r}) \cup {next}

\* POST or DELETE /api/tunnels of this console...
Acts(r) ==
  /\ r.at = "acting"
  /\ Begins(r.of)
  /\ Becomes(r, [r EXCEPT !.at = "acted", !.version = truth'[r.of]])

\* ... the answer of which makes it ask for the list.
ActDone(r) ==
  /\ r.at = "acted"
  /\ Publishes(r.of, r.version)
  /\ Becomes(r, [r EXCEPT !.at = "sent", !.version = 0])

\* GET /api/tunnels
Answers(r) ==
  /\ r.at = "sent"
  /\ Becomes(r, [r EXCEPT !.at = "answered", !.version = truth[r.of]])
  /\ untold' = [untold EXCEPT ![r.of] = FALSE]
  /\ UNCHANGED <<truth, due, authVars, shown, streamVars, latest, overtaken>>

-----------------------------------------------------------------------------
(***************************************************************************)
(* useAuthFlow.                                                            *)
(***************************************************************************)

Ask(u, at) ==
  LET n == CHOOSE n \in Unused : \A m \in Unused : n <= m
  IN /\ Unused # {}
     /\ asked' = asked \cup {[n |-> n, of |-> u, kind |-> "list", at |-> at, version |-> 0]}

\* The page is loaded, again: only the session is left.
Load ==
  /\ who' = None /\ shown' = Empty
  /\ screen' = IF session = None THEN "auth" ELSE "boot"
  /\ asked' = Boots(session)
  /\ stream' = "off" /\ event' = FALSE /\ timer' = FALSE
  /\ latest' = 0 /\ overtaken' = FALSE
  /\ UNCHANGED <<truth, due, session, untold>>

SignIn(u) ==
  /\ screen = "auth"
  /\ session' = u /\ who' = u /\ screen' = "app"
  /\ stream' = "connecting" /\ latest' = 0

doLogin(u) ==
  /\ SignIn(u)
  /\ Ask(u, "sent")
  /\ UNCHANGED <<truth, due, shown, event, timer, untold, overtaken>>

\* A new account has no tunnels, and its list is not asked for.
doRegister(u) ==
  /\ truth[u] = 0 /\ SignIn(u)
  /\ UNCHANGED <<truth, due, shown, asked, event, timer, untold, overtaken>>

doLogout ==
  /\ screen = "app"
  /\ session' = None /\ who' = None /\ screen' = "auth"
  /\ shown' = Empty /\ overtaken' = FALSE /\ latest' = 0
  /\ stream' = "off" /\ event' = FALSE /\ timer' = FALSE
  /\ UNCHANGED <<truth, due, asked, untold>>

-----------------------------------------------------------------------------
(***************************************************************************)
(* Requests: nothing says which of two answers is the newer one, or that   *)
(* the user who asked has left.                                            *)
(***************************************************************************)

\* setTunnels
Show(r) ==
  /\ shown' = IF r.version = 0 THEN Empty ELSE [of |-> r.of, version |-> r.version]
  /\ asked' = asked \ {r}

Renders(r) ==
  /\ r.at = "answered" /\ r.kind = "list"
  /\ Show(r)
  /\ latest' = IF r.of = who /\ r.version > latest THEN r.version ELSE latest
  /\ overtaken' = (r.of # who \/ r.version < latest)
  /\ UNCHANGED <<truth, due, authVars, streamVars, untold>>

\* enterApp, when the list of the stored session came
Enters(r) ==
  /\ r.at = "answered" /\ r.kind = "boot"
  /\ Show(r)
  /\ who' = r.of /\ screen' = "app" /\ stream' = "connecting"
  /\ latest' = r.version
  /\ UNCHANGED <<truth, due, session, event, timer, untold, overtaken>>

\* A request fails: what the list had to tell is not told again; a handler that is
\* at work goes on.  A session that does not work is dropped.
Fails(r) ==
  /\ asked' = asked \ {r}
  /\ untold' = IF r.at \in {"acting", "acted"} THEN untold
               ELSE [untold EXCEPT ![r.of] = TRUE]
  /\ IF r.kind = "boot" THEN session' = None /\ screen' = "auth" ELSE UNCHANGED <<session, screen>>
  /\ UNCHANGED <<truth, due, who, shown, streamVars, latest, overtaken>>

\* refreshTunnels on the button; createTunnel and deleteTunnel
Clicks(at) ==
  /\ screen = "app"
  /\ Ask(who, at)
  /\ UNCHANGED <<truth, due, authVars, shown, streamVars, notes>>

-----------------------------------------------------------------------------
(***************************************************************************)
(* subscribeEvents, and the refresh effect of App.                         *)
(***************************************************************************)

StreamOpens ==
  /\ stream = "connecting"
  /\ stream' = "open"
  /\ UNCHANGED <<truth, due, authVars, shown, asked, event, timer, notes>>

\* What is on it is lost.
StreamBreaks ==
  /\ stream \in {"connecting", "open"}
  /\ stream' = "retry" /\ event' = FALSE
  /\ untold' = IF event THEN [untold EXCEPT ![who] = TRUE] ELSE untold
  /\ UNCHANGED <<truth, due, authVars, shown, asked, timer, latest, overtaken>>

RetryTimer ==
  /\ stream = "retry"
  /\ stream' = "connecting"
  /\ UNCHANGED <<truth, due, authVars, shown, asked, event, timer, notes>>

\* mutant of EventArrives: an event is not looked at while a list is on its way
EventArrivesMutant ==
  /\ event
  /\ event' = FALSE /\ timer' = (asked = {})
  /\ UNCHANGED <<truth, due, authVars, shown, asked, stream, notes>>

EventArrives ==
  /\ event
  /\ event' = FALSE /\ timer' = TRUE
  /\ UNCHANGED <<truth, due, authVars, shown, asked, stream, notes>>

TimerFires ==
  /\ timer
  /\ timer' = FALSE
  /\ Ask(who, "sent")
  /\ UNCHANGED <<truth, due, authVars, shown, stream, event, notes>>

-----------------------------------------------------------------------------
Next ==
  \/ \E u \in Users :
       \/ TunnelRegistered(u) \/ TunnelCloses(u) \/ RedirectSwept(u) \/ EntryFiled(u)
       \/ BindFails(u) \/ AdminDeletes(u) \/ OtherActs(u) \/ OtherDone(u)
       \/ doLogin(u) \/ doRegister(u)
  \/ Load \/ doLogout
  \/ \E r \in asked :
       \/ Acts(r) \/ ActDone(r) \/ Answers(r) \/ Renders(r) \/ Enters(r) \/ Fails(r)
  \/ \E at \in {"acting", "sent"} : Clicks(at)
  \/ StreamOpens \/ StreamBreaks \/ RetryTimer \/ EventArrives \/ TimerFires

Spec == Init /\ [][Next]_vars

-----------------------------------------------------------------------------
TypeOK ==
  /\ truth \in [Users -> 0..MaxChanges]
  /\ due \in [Users -> SUBSET (1..MaxChanges)]
  /\ {session, who} \subseteq Users \cup {None}
  /\ screen \in {"boot", "auth", "app"} /\ (screen = "app" <=> who # None)
  /\ shown \in [of : Users \cup {None}, version : 0..MaxChanges]
  /\ asked \subseteq [n : 1..MaxAsked, of : Users, kind : {"boot", "list"},
                      at : {"acting", "acted", "sent", "answered"}, version : 0..MaxChanges]
  /\ stream \in {"off", "connecting", "open", "retry"}
  /\ {event, timer, overtaken} \subseteq BOOLEAN
  /\ latest \in 0..MaxChanges /\ untold \in [Users -> BOOLEAN]

\* On the stream, and no handler, event, timer or request is under way.
AtRest ==
  /\ screen = "app" /\ stream = "open"
  /\ due[who] = {} /\ ~event /\ ~timer /\ asked = {}

(***************************************************************************)
(* A console at rest -- on the stream, no handler, event, timer or request *)
(* under way -- shows what the gateway has, except for what it cannot      *)
(* know: a change that has no event or came while it was off the stream, a *)
(* list that was lost, and answers that came in another order than they    *)
(* were given.  An event that finds a list on its way, or a timer set, is  *)
(* not lost.                                                               *)
(***************************************************************************)
RestIsCurrent ==
  AtRest /\ ~untold[who] =>
    /\ latest = truth[who]
    /\ ~overtaken => shown = List(who)

(***************************************************************************)
(* "Live events: SSE refresh when tunnels, keys, or sessions change"       *)
(* (README.md:129): a console at rest shows what the gateway has.          *)
(***************************************************************************)
LiveConsole == AtRest => shown = List(who)
=============================================================================
