------------------------------ MODULE ApiKeys -------------------------------
(***************************************************************************)
(* API keys, the devices that use them and the sockets that live on them   *)
(* (apps/gateway-server/src/server.ts): the stores of keys and devices,    *)
(* the authentication of a control socket, the books of sockets by key and *)
(* by device, revocation, forgetting a device, the sweep of unused keys.   *)
(*                                                                         *)
(* The stores are a database: a query takes effect at some time, and its   *)
(* answer is handled later.  Of a socket only its credential and the       *)
(* device it reports are kept; TunnelSessions has its tunnel.              *)
(***************************************************************************)
CONSTANTS
  Keys,           \* API keys that can be minted
  Clients,        \* who connects: [user, key, device], with a key or a session, and
                  \* with the device id it reports, if any
  Sockets,        \* bound: control sockets that come up
  None

\* A client has a key, or a session and no key; what is no key is None.
KeysAssumption ==
  None \notin Keys /\ \A c \in Clients : c.key \in Keys \cup {None}

VARIABLES
  row,            \* key -> "none", "fresh", "old" (past the grace period), "gone"
  roster,         \* devices on file: [user, device, key]
  upserts,        \* rows of devices on their way to the store
  socket,         \* socket -> what the gateway knows of it
  byKey, byDevice,\* socketsByApiKeyHash, socketsByDeviceId
  revokes,        \* revocations under way: [key, by, done]
  forgotten,      \* devices removed from the roster, sockets not told yet
  sweep           \* the sweep: [at, list, used]

storeVars == <<row, roster>>
bookVars  == <<byKey, byDevice>>
vars == <<storeVars, upserts, socket, bookVars, revokes, forgotten, sweep>>

Devices == {c.device : c \in Clients} \ {None}
Rows    == {c \in Clients : c.device # None}
Stored  == {"fresh", "old"}
Live(k) == row[k] \in Stored
Idle    == [at |-> "idle", list |-> {}, used |-> {}]
Unborn  == [state |-> "none", stage |-> "asking", client |-> None, frame |-> "coming"]
KeyOf(s)    == socket[s].client.key
DeviceOf(s) == socket[s].client.device

Init ==
  /\ row = [k \in Keys |-> "none"]
  /\ roster = {} /\ upserts = {}
  /\ socket = [s \in Sockets |-> Unborn]
  /\ byKey = [k \in Keys |-> {}] /\ byDevice = [d \in Devices |-> {}]
  /\ revokes = {} /\ forgotten = {}
  /\ sweep = Idle

-----------------------------------------------------------------------------
(***************************************************************************)
(* The stores.                                                             *)
(***************************************************************************)

\* POST /api/keys
MintKey(k) ==
  /\ row[k] = "none"
  /\ row' = [row EXCEPT ![k] = "fresh"]
  /\ UNCHANGED <<roster, upserts, socket, bookVars, revokes, forgotten, sweep>>

Ages(k) ==
  /\ row[k] = "fresh"
  /\ row' = [row EXCEPT ![k] = "old"]
  /\ UNCHANGED <<roster, upserts, socket, bookVars, revokes, forgotten, sweep>>

Refreshed(u) == {d \in roster : d.user # u.user \/ d.device # u.device} \cup {u}

\* DeviceStore.upsert: one row for a user and a device.
UpsertLands(u) ==
  /\ upserts' = upserts \ {u}
  /\ roster' = Refreshed(u)
  /\ UNCHANGED <<row, socket, bookVars, revokes, forgotten, sweep>>

\* POST /api/devices/register, with a key or with a session (bound: when no
\* other row is on its way).
RegisterDevice(c) ==
  /\ upserts = {} /\ c.device # None
  /\ c.key # None => Live(c.key)
  /\ upserts' = {c}
  /\ UNCHANGED <<storeVars, socket, bookVars, revokes, forgotten, sweep>>

-----------------------------------------------------------------------------
(***************************************************************************)
(* A control socket.                                                       *)
(***************************************************************************)

Connect(s, c) ==
  /\ socket[s].state = "none"
  /\ c.key # None => row[c.key] # "none"
  /\ socket' = [socket EXCEPT ![s] = [Unborn EXCEPT !.state = "open", !.client = c]]
  /\ UNCHANGED <<storeVars, upserts, bookVars, revokes, forgotten, sweep>>

\* validateApiKey, in the database; a session needs no store.
StoreAnswers(s) ==
  /\ socket[s].state # "none" /\ socket[s].stage = "asking"
  /\ socket' = [socket EXCEPT ![s].stage =
                  IF KeyOf(s) = None \/ Live(KeyOf(s)) THEN "known" ELSE "unknown"]
  /\ UNCHANGED <<storeVars, upserts, bookVars, revokes, forgotten, sweep>>

\* The device part of register_tunnel, of a client that reports a device.
Enrolled(s, now) ==
  IF DeviceOf(s) = None \/ now # "handled"
    THEN UNCHANGED <<upserts, byDevice>>
    ELSE /\ byDevice' = [byDevice EXCEPT ![DeviceOf(s)] = @ \cup {s}]
         /\ upserts' = upserts \cup {socket[s].client}

\* mutant of OnKey: the socket is not put on the books of its key
OnKeyMutant(s) == UNCHANGED byKey

OnKey(s) ==
  byKey' = IF KeyOf(s) = None THEN byKey ELSE [byKey EXCEPT ![KeyOf(s)] = @ \cup {s}]

(***************************************************************************)
(* The authentication is handled.  It asks nobody whether the socket is    *)
(* still there.  A frame that came meanwhile is handled at once.           *)
(***************************************************************************)
Authenticated(s) ==
  \/ /\ socket[s].stage = "unknown"
     /\ socket' = [socket EXCEPT ![s].stage = "refused",
                                  ![s].state = IF @ = "open" THEN "closing" ELSE @]
     /\ UNCHANGED <<storeVars, upserts, bookVars, revokes, forgotten, sweep>>
  \/ LET frame == IF socket[s].frame = "kept" THEN "handled" ELSE socket[s].frame
     IN /\ socket[s].stage = "known"
        /\ socket' = [socket EXCEPT ![s].stage = "attached", ![s].frame = frame]
        /\ OnKey(s)
        /\ Enrolled(s, frame)
        /\ UNCHANGED <<storeVars, revokes, forgotten, sweep>>

\* register_tunnel arrives: kept until the socket is authenticated.
FrameArrives(s) ==
  /\ socket[s].state \in {"open", "closing"} /\ socket[s].frame = "coming"
  /\ socket[s].stage # "refused"
  /\ LET frame == IF socket[s].stage = "attached" THEN "handled" ELSE "kept"
     IN /\ socket' = [socket EXCEPT ![s].frame = frame]
        /\ Enrolled(s, frame)
  /\ UNCHANGED <<storeVars, byKey, revokes, forgotten, sweep>>

\* The close handler's part of the books.
Closed(s) ==
  /\ byKey' = [k \in Keys |-> byKey[k] \ {s}]
  /\ byDevice' = [d \in Devices |-> byDevice[d] \ {s}]

(***************************************************************************)
(* The socket is gone.  Its close handler is attached together with the    *)
(* other listeners, after the authentication: a socket that is lost before *)
(* has none.                                                               *)
(***************************************************************************)
SocketCloses(s) ==
  /\ socket[s].state \in {"open", "closing"}
  /\ IF socket[s].stage = "attached"
       THEN /\ socket' = [socket EXCEPT ![s].state = "closed"]
            /\ Closed(s)
       ELSE /\ socket' = [socket EXCEPT ![s].state = "lost"]
            /\ UNCHANGED bookVars
  /\ UNCHANGED <<storeVars, upserts, revokes, forgotten, sweep>>

-----------------------------------------------------------------------------
(***************************************************************************)
(* Revoking a key, forgetting a device.                                    *)
(***************************************************************************)

\* Told to stop, and closed from this side, if still open.
Told(told) ==
  socket' = [s \in Sockets |->
    IF s \in told /\ socket[s].state = "open"
      THEN [socket[s] EXCEPT !.state = "closing"] ELSE socket[s]]

Revoke(k) == [key |-> k, by |-> "user", done |-> FALSE]
Sweeps(k) == [key |-> k, by |-> "sweep", done |-> FALSE]

\* DELETE /api/keys/:id: revokeApiKey finds the row ...
RevokeKey(k) ==
  /\ Live(k)
  /\ revokes' = revokes \cup {Revoke(k)}
  /\ UNCHANGED <<storeVars, upserts, socket, bookVars, forgotten, sweep>>

\* ... deletes it ...
RowDeleted(v) ==
  /\ ~ v.done
  /\ row' = [row EXCEPT ![v.key] = "gone"]
  /\ revokes' = (revokes \ {v}) \cup {[v EXCEPT !.done = TRUE]}
  /\ UNCHANGED <<roster, upserts, socket, bookVars, forgotten, sweep>>

\* ... and every socket on its books is told.
Answered(v) ==
  /\ v.done
  /\ revokes' = revokes \ {v}
  /\ Told(byKey[v.key])
  /\ UNCHANGED <<storeVars, upserts, bookVars, forgotten, sweep>>

\* DELETE /api/devices/:id (bound: one at a time)
ForgetDevice(d) ==
  /\ forgotten = {}
  /\ roster' = roster \ {d}
  /\ forgotten' = forgotten \cup {d}
  /\ UNCHANGED <<row, upserts, socket, bookVars, revokes, sweep>>

\* Of a device only its id is asked, not whose it is.
DeviceForgotten(d) ==
  /\ forgotten' = forgotten \ {d}
  /\ Told(byDevice[d.device])
  /\ UNCHANGED <<storeVars, upserts, bookVars, revokes, sweep>>

-----------------------------------------------------------------------------
(***************************************************************************)
(* The sweep of unused keys: lists them, then asks what devices use, then  *)
(* revokes them one by one.                                                *)
(***************************************************************************)

SweepLists ==
  /\ sweep.at = "idle"
  /\ sweep' = [at |-> "listed", list |-> {k \in Keys : row[k] = "old"}, used |-> {}]
  /\ UNCHANGED <<storeVars, upserts, socket, bookVars, revokes, forgotten>>

SweepAsks ==
  /\ sweep.at = "listed"
  /\ sweep' = [sweep EXCEPT !.at = "sweeping", !.used = {d.key : d \in roster}]
  /\ UNCHANGED <<storeVars, upserts, socket, bookVars, revokes, forgotten>>

Unused(k) == k \notin sweep.used /\ byKey[k] = {}

Sweeping == sweep.at = "sweeping" /\ ~ \E v \in revokes : v.by = "sweep"

SweepKey(k) ==
  /\ Sweeping /\ k \in sweep.list
  /\ sweep' = [sweep EXCEPT !.list = @ \ {k}]
  /\ revokes' = IF Unused(k) /\ Live(k) THEN revokes \cup {Sweeps(k)} ELSE revokes
  /\ UNCHANGED <<storeVars, upserts, socket, bookVars, forgotten>>

SweepEnds ==
  /\ Sweeping /\ sweep.list = {}
  /\ sweep' = Idle
  /\ UNCHANGED <<storeVars, upserts, socket, bookVars, revokes, forgotten>>

-----------------------------------------------------------------------------
Next ==
  \/ \E k \in Keys : MintKey(k) \/ Ages(k) \/ RevokeKey(k) \/ SweepKey(k)
  \/ \E u \in upserts : UpsertLands(u)
  \/ \E c \in Clients : RegisterDevice(c)
  \/ \E s \in Sockets :
       \/ StoreAnswers(s) \/ Authenticated(s) \/ FrameArrives(s) \/ SocketCloses(s)
       \/ \E c \in Clients : Connect(s, c)
  \/ \E v \in revokes : RowDeleted(v) \/ Answered(v)
  \/ \E d \in roster : ForgetDevice(d)
  \/ \E d \in forgotten : DeviceForgotten(d)
  \/ SweepLists \/ SweepAsks \/ SweepEnds

Spec == Init /\ [][Next]_vars

-----------------------------------------------------------------------------
TypeOK ==
  /\ row \in [Keys -> {"none", "fresh", "old", "gone"}]
  /\ roster \subseteq Rows /\ upserts \subseteq Rows /\ forgotten \subseteq Rows
  /\ socket \in [Sockets ->
       [state  : {"none", "open", "closing", "closed", "lost"},
        stage  : {"asking", "known", "unknown", "refused", "attached"},
        client : Clients \cup {None}, frame : {"coming", "kept", "handled"}]]
  /\ byKey \in [Keys -> SUBSET Sockets] /\ byDevice \in [Devices -> SUBSET Sockets]
  /\ revokes \subseteq [key : Keys, by : {"user", "sweep"}, done : BOOLEAN]
  /\ sweep \in [at : {"idle", "listed", "sweeping"}, list : SUBSET Keys,
                used : SUBSET (Keys \cup {None})]

Attached(s) == socket[s].stage = "attached" /\ socket[s].state # "closed"

(***************************************************************************)
(* A key is taken away from the clients that use it, and from no others:   *)
(* an authenticated socket that is told to stop has lost its key, or       *)
(* somebody forgot a device of its id; when a revocation is answered, no   *)
(* authenticated socket is left open on its key, however authentications,  *)
(* closes and other revocations came in between; and the sweep takes no    *)
(* key that such a socket lives on, or a device had when the sweep asked.  *)
(***************************************************************************)
RevocationReaches ==
  [][/\ \A s \in Sockets : Attached(s) /\ socket[s].state = "open" /\ socket'[s].state = "closing" =>
          \/ KeyOf(s) # None /\ row[KeyOf(s)] = "gone"
          \/ \E d \in forgotten : d.device = DeviceOf(s)
     /\ \A v \in revokes \ revokes' : v.done =>
          ~ \E s \in Sockets : Attached(s) /\ socket'[s].state = "open" /\ KeyOf(s) = v.key
     /\ \A v \in revokes' \ revokes : v.by = "sweep" /\ ~ v.done =>
          /\ v.key \notin sweep.used
          /\ ~ \E s \in Sockets : Attached(s) /\ KeyOf(s) = v.key]_vars

-----------------------------------------------------------------------------
(***************************************************************************)
(* "Immediately disconnect any live device authenticated with this key"    *)
(* (server.ts:4343): when no revocation of a key is under way any more, no *)
(* authenticated socket is open on a key that is gone.                     *)
(***************************************************************************)
RevokedKeyIsOut ==
  \A s \in Sockets :
    Attached(s) /\ socket[s].state = "open" /\ KeyOf(s) # None =>
      \/ row[KeyOf(s)] # "gone"
      \/ \E v \in revokes : v.key = KeyOf(s)

(***************************************************************************)
(* "Mark the device offline (once its last socket closes)" (3213): a       *)
(* device that is shown online has a socket that is not gone.              *)
(***************************************************************************)
OnlineIsConnected ==
  \A d \in Devices : byDevice[d] # {} =>
    \E s \in byDevice[d] : socket[s].state \in {"open", "closing"}

(***************************************************************************)
(* "Auto-revoke user-minted keys that no device is registered against"     *)
(* (1424): a row deleted for the sweep is of a key no device is registered *)
(* with.                                                                   *)
(***************************************************************************)
SweepSparesUsed ==
  [][\A v \in revokes : v.by = "sweep" /\ ~ v.done /\ v \notin revokes' =>
       ~ \E d \in roster : d.key = v.key]_vars
=============================================================================
