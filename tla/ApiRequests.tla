---------------------------- MODULE ApiRequests -----------------------------
(***************************************************************************)
(* The HTTP API of the gateway (apps/gateway-server/src/server.ts): what   *)
(* the endpoints do to the rows they write, across their awaits, and the   *)
(* saved responses that make a repeated request harmless.                  *)
(*                                                                         *)
(* Every handler is the same walk: authenticate, limit the rate, check     *)
(* role and scope, look for a saved response, check the body, ask and      *)
(* change the store, await the audit log, save the response, reply.  The   *)
(* store is a database: between two queries of a handler others run.  The  *)
(* control sockets that some endpoints close are in TunnelSessions and     *)
(* ApiKeys.                                                                *)
(***************************************************************************)
EXTENDS Naturals

CONSTANTS
  Requests,     \* bound: the requests that come in, 1..n
  Callers,      \* who sends them: [user, admin, session]: platform admin or not,
                \* with a session token or with an API key
  Names,        \* subdomains that are asked for
  Mappings,     \* port mappings that are asked for: <<local port, public port>>
  Stock,        \* rows that are in the store from before
  Sessions,     \* tunnels that clients have, or had, open without a reservation
  IdemKeys,     \* values of the idempotency-key header
  Ttl,          \* idempotencyTtlMs, in ticks
  None

VARIABLES
  req,          \* request -> who asks what, how far it got, and its answer
  rows,         \* the tables: [table, id, owner, data]
  password,     \* user -> the request that set the password he has
  saved,        \* idempotencyStore: [user, op, key, rows, age]
  mode          \* the operational state an admin set

vars == <<req, rows, password, saved, mode>>

Users == {c.user : c \in Callers}
Old   == 0                        \* the id, and the setter, of what was there before
Ids   == Requests \cup {Old}

\* What the tables hold: a row of one of them, of one owner.
Rows(ids, data) ==
  [table : {"tunnel", "key", "mapping", "user", "device", "usage"}, id : ids, owner : Users,
   data : data]

RequestsAssumption ==
  /\ Old \notin Requests /\ Ttl \in Nat
  /\ \A w \in Stock \cup Sessions : w \in Rows({Old}, {w.data})

Creates   == {"createTunnel", "createKey", "createMapping"}
Deletes   == {"deleteTunnel", "deleteKey", "deleteMapping"}
Updates   == {"updateMapping", "setSubdomain"}
Reads     == {"listTunnels", "listAllTunnels", "listKeys", "listMappings", "listUsers",
              "listDevices", "usage", "validate"}
Passwords == {"login", "changePassword"}
Ops       == Creates \cup Deletes \cup Updates \cup Reads \cup Passwords \cup {"register", "setState"}

Table(op) ==
  CASE op \in {"createTunnel", "deleteTunnel", "listTunnels", "listAllTunnels"} -> "tunnel"
    [] op \in {"createKey", "deleteKey", "listKeys"} -> "key"
    [] op \in {"createMapping", "updateMapping", "deleteMapping", "listMappings"} -> "mapping"
    [] OTHER -> "user"

Args(op) ==
  CASE op = "createTunnel"  -> Names
    [] op = "createMapping" -> Mappings
    [] op \in Deletes \cup {"updateMapping"} -> Ids
    [] op = "setSubdomain"  -> Users
    [] op = "setState"      -> {"draining", "maintenance", "ready"}
    [] op \in Passwords     -> Ids
    [] OTHER -> {None}

-----------------------------------------------------------------------------
(***************************************************************************)
(* The door: what a handler checks before it works.                        *)
(***************************************************************************)

NoAuth     == {"register", "login"}
AdminOnly  == {"setState", "createMapping", "updateMapping", "deleteMapping", "setSubdomain",
               "listAllTunnels", "listMappings", "listUsers"}
SessionOnly == {"createKey", "changePassword"}
Idempotent == {"createTunnel", "deleteTunnel", "createKey", "deleteKey", "setState"}

MayAsk(c, op) ==
  /\ op \in AdminOnly => c.admin
  /\ op \in SessionOnly => c.session

Unsent == [at |-> "unsent", by |-> None, op |-> None, arg |-> None, key |-> None,
           answer |-> None, seen |-> {}, age |-> 0]

Init ==
  /\ req = [r \in Requests |-> Unsent]
  /\ rows = Stock
  /\ password = [u \in Users |-> Old]
  /\ saved = {}
  /\ mode = "ready"

Send(r, c, op, arg, key) ==
  /\ op \notin Idempotent => key = None
  /\ req' = [req EXCEPT ![r] = [Unsent EXCEPT !.at = "resolving", !.by = c, !.op = op,
                                              !.arg = arg, !.key = key]]
  /\ UNCHANGED <<rows, password, saved, mode>>

\* mutant of Replay: an entry is found without asking whose it is
ReplayMutant(r) == {e \in saved : e.op = req[r].op /\ e.key = req[r].key /\ e.age <= Ttl}

\* readIdempotencyReplay, under the caller, the path without its id, and the key.
Replay(r) == {e \in saved : /\ e.user = req[r].by.user /\ e.op = req[r].op
                            /\ e.key = req[r].key /\ e.age <= Ttl}

MyAnswer(r, code, seen) ==
  req' = [req EXCEPT ![r].at = "answered", ![r].answer = code, ![r].seen = seen]

Goes(r, at, seen) == req' = [req EXCEPT ![r].at = at, ![r].seen = seen]

\* Unknown caller, rate limit, role, scope, body, or the store throws: the
\* handler replies, and saves nothing.
Refused(r) ==
  /\ req[r].at \in {"resolving", "working", "storing"}
  /\ MyAnswer(r, "refused", {})
  /\ UNCHANGED <<rows, password, saved, mode>>

Open(r) == req[r].at = "resolving" /\ MayAsk(req[r].by, req[r].op)

Replayed(r) ==
  /\ Open(r)
  /\ \E e \in Replay(r) : MyAnswer(r, "replay", e.rows)
  /\ UNCHANGED <<rows, password, saved, mode>>

Admitted(r) ==
  /\ Open(r) /\ Replay(r) = {} /\ req[r].op # "setState"
  /\ Goes(r, "working", {})
  /\ UNCHANGED <<rows, password, saved, mode>>

\* mutant of Saves: the response is kept under the path only for creations
SavesMutant(r, seen) ==
  IF req[r].op \in Creates /\ req[r].key # None
    THEN saved' = saved \cup {[user |-> req[r].by.user, op |-> req[r].op, key |-> req[r].key,
                               rows |-> seen, age |-> 0]}
    ELSE UNCHANGED saved

\* writeIdempotencyReplay: a Map, the last entry under a key counts.
Saves(r, seen) ==
  LET me == [user |-> req[r].by.user, op |-> req[r].op, key |-> req[r].key,
             rows |-> seen, age |-> 0]
  IN saved' = IF req[r].key = None THEN saved
              ELSE {e \in saved : <<e.user, e.op, e.key>> # <<me.user, me.op, me.key>>} \cup {me}

\* After the audit log: save, reply.
Audited(r) ==
  /\ req[r].at = "auditing"
  /\ MyAnswer(r, "done", req[r].seen)
  /\ Saves(r, req[r].seen)
  /\ UNCHANGED <<rows, password, mode>>

\* Time, for the saved responses; the sweep runs once per tick.
Tick ==
  /\ saved' = {[e EXCEPT !.age = @ + 1] : e \in {f \in saved : f.age <= Ttl}}
  /\ req' = [r \in Requests |->
       [req[r] EXCEPT !.age = IF req[r].at = "answered" /\ @ <= Ttl THEN @ + 1 ELSE @]]
  /\ saved # {}
  /\ UNCHANGED <<rows, password, mode>>

-----------------------------------------------------------------------------
(***************************************************************************)
(* The endpoints.  Working(r, op): it is the turn of a request for op.     *)
(***************************************************************************)

Working(r, op) == req[r].at = "working" /\ req[r].op = op
Storing(r, op) == req[r].at = "storing" /\ req[r].op = op
Row(r, owner, data) == [table |-> Table(req[r].op), id |-> r, owner |-> owner, data |-> data]
At(r) == {w \in rows : w.table = Table(req[r].op) /\ w.id = req[r].arg}
In(t) == {w \in rows : w.table = t}
Own(w, r) == w.owner = req[r].by.user

Insert(w) == rows' = rows \cup {w}
Remove(r) == rows' = rows \ At(r)
SetPassword(r) == password' = [password EXCEPT ![req[r].by.user] = r]

\* mutant of CreateTunnel: a subdomain that is taken is answered as if reserved
CreateTunnelMutant(r) ==
  LET row == Row(r, req[r].by.user, req[r].arg)
  IN /\ Working(r, "createTunnel")
     /\ rows' = IF \E w \in In("tunnel") : w.data = req[r].arg THEN rows ELSE rows \cup {row}
     /\ Goes(r, "auditing", {row})
     /\ UNCHANGED <<password, saved, mode>>

\* POST /api/tunnels: the subdomain is unique in the database.
CreateTunnel(r) ==
  LET row == Row(r, req[r].by.user, req[r].arg)
  IN /\ Working(r, "createTunnel")
     /\ ~ \E w \in In("tunnel") : w.data = req[r].arg
     /\ Insert(row)
     /\ Goes(r, "auditing", {row})
     /\ UNCHANGED <<password, saved, mode>>

Deletable(r) == \E w \in At(r) : w.owner = req[r].by.user \/ req[r].by.admin

\* DELETE /api/tunnels/:id of a reserved tunnel: found and owned ...
DeleteTunnelFound(r) ==
  /\ Working(r, "deleteTunnel") /\ Deletable(r)
  /\ Goes(r, "storing", {})
  /\ UNCHANGED <<rows, password, saved, mode>>

\* ... and deleted, which fails when somebody else did.
DeleteTunnel(r) ==
  /\ Storing(r, "deleteTunnel") /\ At(r) # {}
  /\ Remove(r)
  /\ Goes(r, "auditing", {})
  /\ UNCHANGED <<password, saved, mode>>

\* POST /api/keys
CreateKey(r) ==
  LET row == Row(r, req[r].by.user, None)
  IN /\ Working(r, "createKey")
     /\ Insert(row)
     /\ Goes(r, "auditing", {row})
     /\ UNCHANGED <<password, saved, mode>>

\* DELETE /api/keys/:id: its own only, also for an admin ...
DeleteKeyFound(r) ==
  /\ Working(r, "deleteKey")
  /\ \E w \in At(r) : w.owner = req[r].by.user
  /\ Goes(r, "storing", {})
  /\ UNCHANGED <<rows, password, saved, mode>>

\* ... and whether there is still something to delete does not matter.
DeleteKey(r) ==
  /\ Storing(r, "deleteKey")
  /\ Remove(r)
  /\ Goes(r, "auditing", {})
  /\ UNCHANGED <<password, saved, mode>>

\* A row with that local port (1), with that public port (2).
Mapped(i, ports) == \E w \in In("mapping") : w.data[i] = ports[i]

\* POST /api/admin/tcp-port-mappings: the list is checked ...
CreateMappingListed(r) ==
  /\ Working(r, "createMapping")
  /\ ~ Mapped(1, req[r].arg) /\ ~ Mapped(2, req[r].arg)
  /\ Goes(r, "storing", {})
  /\ UNCHANGED <<rows, password, saved, mode>>

\* ... and the row made; only the public port is unique in the database.
CreateMapping(r) ==
  LET row == Row(r, req[r].by.user, req[r].arg)
  IN /\ Storing(r, "createMapping")
     /\ ~ Mapped(2, req[r].arg)
     /\ Insert(row)
     /\ MyAnswer(r, "done", {row})
     /\ UNCHANGED <<password, saved, mode>>

\* PATCH /api/admin/tcp-port-mappings/:id: name, description and the flag are
\* not told apart.
UpdateMapping(r) ==
  /\ Working(r, "updateMapping") /\ At(r) # {}
  /\ MyAnswer(r, "done", At(r))
  /\ UNCHANGED <<rows, password, saved, mode>>

DeleteMapping(r) ==
  /\ Working(r, "deleteMapping") /\ At(r) # {}
  /\ Remove(r)
  /\ MyAnswer(r, "done", {})
  /\ UNCHANGED <<password, saved, mode>>

Account(u) == {w \in In("user") : w.owner = u}

TurnOver(u) ==
  rows' = (rows \ Account(u)) \cup {[w EXCEPT !.data = ~ @] : w \in Account(u)}

\* PATCH /api/admin/users/:id: the entitlement is turned over.
SetSubdomain(r) ==
  /\ Working(r, "setSubdomain") /\ Account(req[r].arg) # {}
  /\ TurnOver(req[r].arg)
  /\ MyAnswer(r, "done", {})
  /\ UNCHANGED <<password, saved, mode>>

\* POST /api/auth/register: no account of that address is found ...
RegisterFree(r) ==
  /\ Working(r, "register") /\ Account(req[r].by.user) = {}
  /\ Goes(r, "storing", {})
  /\ UNCHANGED <<rows, password, saved, mode>>

\* ... and made, unless another registration was faster.
Register(r) ==
  LET row == Row(r, req[r].by.user, FALSE)
  IN /\ Storing(r, "register") /\ Account(req[r].by.user) = {}
     /\ Insert(row)
     /\ SetPassword(r)
     /\ Goes(r, "auditing", {row})
     /\ UNCHANGED <<saved, mode>>

Knows(r) == Account(req[r].by.user) # {} /\ req[r].arg = password[req[r].by.user]

\* POST /api/auth/login
Login(r) ==
  /\ Working(r, "login") /\ Knows(r)
  /\ Goes(r, "auditing", Account(req[r].by.user))
  /\ UNCHANGED <<rows, password, saved, mode>>

\* POST /api/auth/change-password: the password given is checked ...
PasswordChecked(r) ==
  /\ Working(r, "changePassword") /\ Knows(r)
  /\ Goes(r, "storing", {})
  /\ UNCHANGED <<rows, password, saved, mode>>

\* ... and replaced, whatever it is by then.
ChangePassword(r) ==
  /\ Storing(r, "changePassword")
  /\ SetPassword(r)
  /\ Goes(r, "auditing", {})
  /\ UNCHANGED <<rows, saved, mode>>

\* POST /api/admin/state: nothing is awaited once the caller is known.
SetState(r) ==
  /\ Open(r) /\ req[r].op = "setState" /\ Replay(r) = {}
  /\ mode' = req[r].arg
  /\ MyAnswer(r, "done", {})
  /\ Saves(r, {})
  /\ UNCHANGED <<rows, password>>

Lists(r, op, seen) ==
  /\ Working(r, op)
  /\ MyAnswer(r, "done", seen)
  /\ UNCHANGED <<rows, password, saved, mode>>

\* GET /api/tunnels: the reservations of the caller, and of the sessions, which come
\* and go (TunnelSessions), those whose registration or redirect entry is his.
ListTunnels(r) ==
  \E there \in SUBSET Sessions :
    Lists(r, "listTunnels", {w \in In("tunnel") \cup there : Own(w, r)})

\* GET /api/admin/tunnels: everybody's
ListAllTunnels(r) ==
  \E there \in SUBSET Sessions : Lists(r, "listAllTunnels", In("tunnel") \cup there)

\* GET /api/keys
ListKeys(r) == Lists(r, "listKeys", {w \in In("key") : Own(w, r)})

\* GET /api/admin/tcp-port-mappings
ListMappings(r) == Lists(r, "listMappings", In("mapping"))

\* GET /api/admin/users
ListUsers(r) == Lists(r, "listUsers", In("user"))

\* GET /api/devices; which of them are online is in ApiKeys.
ListDevices(r) == Lists(r, "listDevices", {w \in In("device") : Own(w, r)})

\* UsageMeter: one row per user, which the relays write.
Metered(u) == {w \in In("usage") : w.owner = u}

\* GET /api/usage
Usage(r) == Lists(r, "usage", Metered(req[r].by.user))

\* GET /api/auth/validate tells what the caller's credential says, and no row.
Validate(r) == Lists(r, "validate", {})

-----------------------------------------------------------------------------
Works(r) ==
  \/ CreateTunnel(r) \/ DeleteTunnelFound(r) \/ DeleteTunnel(r)
  \/ CreateKey(r) \/ DeleteKeyFound(r) \/ DeleteKey(r)
  \/ CreateMappingListed(r) \/ CreateMapping(r) \/ UpdateMapping(r) \/ DeleteMapping(r)
  \/ SetSubdomain(r) \/ RegisterFree(r) \/ Register(r)
  \/ Login(r) \/ PasswordChecked(r) \/ ChangePassword(r) \/ SetState(r)
  \/ ListTunnels(r) \/ ListAllTunnels(r) \/ ListKeys(r) \/ ListMappings(r) \/ ListUsers(r)
  \/ ListDevices(r) \/ Usage(r) \/ Validate(r)

Next ==
  \/ Tick
  \/ \E r \in Requests :
       \/ Refused(r) \/ Replayed(r) \/ Admitted(r) \/ Audited(r) \/ Works(r)
       \/ /\ req[r].at = "unsent"
          /\ \E c \in Callers, op \in Ops, key \in IdemKeys \cup {None} :
               \E arg \in Args(op) : Send(r, c, op, arg, key)

Spec == Init /\ [][Next]_vars

-----------------------------------------------------------------------------
TypeOK ==
  /\ \A r \in Requests :
       /\ req[r].at \in {"unsent", "resolving", "working", "storing", "auditing", "answered"}
       /\ req[r].at # "unsent" =>
            /\ req[r].by \in Callers /\ req[r].op \in Ops /\ req[r].arg \in Args(req[r].op)
            /\ req[r].key \in IdemKeys \cup {None}
       /\ req[r].answer \in {None, "refused", "replay", "done"}
       /\ \A w \in req[r].seen : w.id \in Ids /\ w.owner \in Users
       /\ req[r].age \in 0..(Ttl + 1)
  /\ \A e \in saved : e.user \in Users /\ e.op \in Idempotent /\ e.key \in IdemKeys /\ e.age \in 0..(Ttl + 1)
  /\ password \in [Users -> Ids]
  /\ mode \in {"draining", "maintenance", "ready"}

Done(r) == req[r].at = "answered" /\ req[r].answer = "done"
Same(r, q) == req[r].by.user = req[q].by.user /\ req[r].op = req[q].op /\ req[r].key = req[q].key

\* What is answered as made was made, and is there unless a DELETE for it got as
\* far as the store.
Made(r) ==
  Done(r) /\ req[r].op \in Creates \cup {"register"} =>
    \/ \E w \in rows : w.id = r /\ w.owner = req[r].by.user
    \/ \E q \in Requests :
         req[q].op \in Deletes /\ req[q].arg = r /\ req[q].at \in {"auditing", "answered"}

\* What is answered as deleted is not there.
Unmade(r) == Done(r) /\ req[r].op \in Deletes => At(r) = {}

(***************************************************************************)
(* An answer tells the caller what happened to the store, and tells him    *)
(* nothing of others, whatever other requests did between the queries of   *)
(* his: what he is told was made or deleted was, a request that was        *)
(* refused has made nothing, and the rows he gets -- listed, made, or from *)
(* a saved response -- are his own, unless he is an admin.                 *)
(***************************************************************************)
AnswersTrue ==
  \A r \in Requests : req[r].at = "answered" =>
    /\ Made(r) /\ Unmade(r)
    /\ req[r].answer = "refused" => ~ \E w \in rows : w.id = r
    /\ req[r].by.admin \/ \A w \in req[r].seen : w.owner = req[r].by.user

(***************************************************************************)
(* A retry is not work: a request that starts to work has no equal (same   *)
(* user, endpoint and idempotency key) that was answered as done in the    *)
(* last Ttl ticks.                                                         *)
(***************************************************************************)
RetryIsReplayed ==
  [][\A r \in Requests :
       req[r].at = "resolving" /\ req'[r].at # "resolving" /\ req'[r].answer \notin {"refused", "replay"}
         /\ req[r].key # None =>
       ~ \E q \in Requests \ {r} : Done(q) /\ Same(r, q) /\ req[q].age <= Ttl]_vars

-----------------------------------------------------------------------------
(***************************************************************************)
(* "Idempotency support on write APIs to prevent accidental duplicate      *)
(* actions" (docs/SECURITY_SUMMARY.md:24): of two requests with the same   *)
(* user, endpoint and key, sent within the time a response is kept, at     *)
(* most one makes a row.                                                   *)
(***************************************************************************)
OneActionPerKey ==
  \A r, q \in Requests : r # q /\ Done(r) /\ Done(q) /\ req[r].key # None /\ Same(r, q) =>
    req[r].op \notin Creates \/ (req[r].age > Ttl \/ req[q].age > Ttl)

(***************************************************************************)
(* "A mapping for localPort already exists" (server.ts:4599): there are    *)
(* never two mappings of one local port.                                   *)
(***************************************************************************)
MappingPerLocalPort ==
  \A v, w \in In("mapping") : v.data[1] = w.data[1] => v = w
=============================================================================
