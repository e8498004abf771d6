--------------------------- MODULE ApiKeys_proofs ---------------------------
(***************************************************************************)
(* A key is taken away from the clients that use it, and from no others:   *)
(* for any number of keys, devices and sockets, and any number of          *)
(* revocations under way.                                                  *)
(*                                                                         *)
(* A revocation closes whom it finds in the books, and the sweep spares    *)
(* whom it finds there.  So the books must have every socket that was      *)
(* authenticated with the key, from the turn in which it was until the one *)
(* in which its close handler runs (OnTheBooks), and no other              *)
(* (BooksOfTheirs).  And a revocation that is answered must have deleted   *)
(* its row, which nothing brings back (DoneIsGone).                        *)
(***************************************************************************)
EXTENDS ApiKeys, TLAPS

-----------------------------------------------------------------------------
\* Who has come up has a client.
Come ==
  \A s \in Sockets :
    /\ socket[s].stage # "asking" => socket[s].state # "none"
    /\ socket[s].state # "none" => socket[s].client \in Clients

\* An authenticated socket is on the books of its key until it is closed.
OnTheBooks ==
  \A s \in Sockets : Attached(s) /\ KeyOf(s) # None => s \in byKey[KeyOf(s)]

\* Nobody is on the books of a key or a device that is not its own.
BooksOfTheirs ==
  /\ \A k \in Keys : \A s \in byKey[k] : socket[s].stage = "attached" /\ KeyOf(s) = k
  /\ \A d \in Devices : \A s \in byDevice[d] :
       socket[s].stage = "attached" /\ DeviceOf(s) = d

\* The row of a revocation that has got that far is deleted for good.
DoneIsGone == \A v \in revokes : v.done => row[v.key] = "gone"

Inv == TypeOK /\ Come /\ OnTheBooks /\ BooksOfTheirs /\ DoneIsGone

\* No socket has come up, and nothing is revoked.
LEMMA InitInv == Init => Inv
  BY DEF Init, Inv, TypeOK, Come, OnTheBooks, BooksOfTheirs, DoneIsGone, Attached,
         Idle, Unborn, Rows

-----------------------------------------------------------------------------
\* What a row may become while revocations are under way.
RowsGoOn ==
  /\ row' \in [Keys -> {"none", "fresh", "old", "gone"}]
  /\ \A k \in Keys : row[k] = "gone" => row'[k] = "gone"

\* What becomes of the stores, the revocations and the sweep.
StoresGoOn ==
  /\ RowsGoOn
  /\ roster' \subseteq Rows /\ upserts' \subseteq Rows /\ forgotten' \subseteq Rows
  /\ revokes' \subseteq [key : Keys, by : {"user", "sweep"}, done : BOOLEAN]
  /\ \A v \in revokes' : v.done => v \in revokes \/ row'[v.key] = "gone"
  /\ sweep' \in [at : {"idle", "listed", "sweeping"}, list : SUBSET Keys,
                 used : SUBSET (Keys \cup {None})]

\* A step that is about the stores alone, and leaves sockets and books as they are.
LEMMA StoresInv ==
  ASSUME Inv, StoresGoOn, UNCHANGED <<socket, byKey, byDevice>>
  PROVE  Inv'
<1>1. TypeOK'
  BY DEF Inv, TypeOK, StoresGoOn, RowsGoOn
<1>2. Come' /\ OnTheBooks' /\ BooksOfTheirs'
  BY DEF Inv, Come, OnTheBooks, BooksOfTheirs, Attached, KeyOf, DeviceOf
<1>3. DoneIsGone'
  <2>1. ASSUME NEW v \in revokes', v.done PROVE row'[v.key] = "gone"
    BY <2>1 DEF StoresGoOn, RowsGoOn, Inv, TypeOK, DoneIsGone
  <2> QED
    BY <2>1 DEF DoneIsGone
<1> QED
  BY <1>1, <1>2, <1>3 DEF Inv

\* Keys, devices, the sweep, and a revocation up to the deletion of its row.
StoreStep ==
  \/ \E k \in Keys : MintKey(k) \/ Ages(k) \/ RevokeKey(k) \/ SweepKey(k)
  \/ \E u \in upserts : UpsertLands(u)
  \/ \E c \in Clients : RegisterDevice(c)
  \/ \E v \in revokes : RowDeleted(v)
  \/ \E d \in roster : ForgetDevice(d)
  \/ SweepLists \/ SweepAsks \/ SweepEnds

\* None of it touches a socket or the books.
LEMMA StoreStepInv ==
  ASSUME KeysAssumption, Inv, StoreStep
  PROVE  Inv' /\ UNCHANGED socket
<1>1. TypeOK
  BY DEF Inv
<1>2. ASSUME NEW k \in Keys, MintKey(k) PROVE Inv' /\ UNCHANGED socket
  BY <1>1, <1>2, StoresInv DEF MintKey, TypeOK, StoresGoOn, RowsGoOn, bookVars
<1>3. ASSUME NEW k \in Keys, Ages(k) PROVE Inv' /\ UNCHANGED socket
  <2>1. RowsGoOn
    BY <1>1, <1>3 DEF Ages, TypeOK, RowsGoOn
  <2>2. UNCHANGED <<roster, upserts, socket, byKey, byDevice, revokes, forgotten, sweep>>
    BY <1>3 DEF Ages, bookVars
  <2> QED
    BY <1>1, <2>1, <2>2, StoresInv DEF TypeOK, StoresGoOn
<1>4. ASSUME NEW k \in Keys, RevokeKey(k) PROVE Inv' /\ UNCHANGED socket
  <2>1. /\ Revoke(k) \in [key : Keys, by : {"user", "sweep"}, done : BOOLEAN]
        /\ Revoke(k).done = FALSE
    BY DEF Revoke
  <2>2. /\ revokes' = revokes \cup {Revoke(k)}
        /\ UNCHANGED <<row, roster, upserts, socket, byKey, byDevice, forgotten, sweep>>
    BY <1>4 DEF RevokeKey, storeVars, bookVars
  <2> QED
    BY <1>1, <2>1, <2>2, StoresInv DEF TypeOK, StoresGoOn, RowsGoOn
<1>5. ASSUME NEW k \in Keys, SweepKey(k) PROVE Inv' /\ UNCHANGED socket
  <2>1. UNCHANGED <<row, roster, upserts, socket, byKey, byDevice, forgotten>>
    BY <1>5 DEF SweepKey, storeVars, bookVars
  <2>2. /\ revokes' \subseteq [key : Keys, by : {"user", "sweep"}, done : BOOLEAN]
        /\ \A v \in revokes' : v.done => v \in revokes
    <3>1. /\ Sweeps(k) \in [key : Keys, by : {"user", "sweep"}, done : BOOLEAN]
          /\ Sweeps(k).done = FALSE
      BY DEF Sweeps
    <3>2. revokes' = revokes \cup {Sweeps(k)} \/ revokes' = revokes
      BY <1>5 DEF SweepKey
    <3> QED
      BY <1>1, <3>1, <3>2 DEF TypeOK
  <2>3. sweep' \in [at : {"idle", "listed", "sweeping"}, list : SUBSET Keys,
                    used : SUBSET (Keys \cup {None})]
    BY <1>1, <1>5 DEF SweepKey, TypeOK
  <2> QED
    BY <1>1, <2>1, <2>2, <2>3, StoresInv DEF TypeOK, StoresGoOn, RowsGoOn
<1>6. ASSUME NEW u \in upserts, UpsertLands(u) PROVE Inv' /\ UNCHANGED socket
  BY <1>1, <1>6, StoresInv
  DEF UpsertLands, Refreshed, TypeOK, StoresGoOn, RowsGoOn, bookVars
<1>7. ASSUME NEW c \in Clients, RegisterDevice(c) PROVE Inv' /\ UNCHANGED socket
  BY <1>1, <1>7, StoresInv
  DEF RegisterDevice, Rows, TypeOK, StoresGoOn, RowsGoOn, storeVars, bookVars
<1>8. ASSUME NEW v \in revokes, RowDeleted(v) PROVE Inv' /\ UNCHANGED socket
  <2>1. /\ row' = [row EXCEPT ![v.key] = "gone"]
        /\ revokes' = (revokes \ {v}) \cup {[v EXCEPT !.done = TRUE]}
        /\ UNCHANGED <<roster, upserts, socket, byKey, byDevice, forgotten, sweep>>
    BY <1>8 DEF RowDeleted, bookVars
  <2>2. v.key \in Keys /\ v \in [key : Keys, by : {"user", "sweep"}, done : BOOLEAN]
    BY <1>1 DEF TypeOK
  <2>3. RowsGoOn
    BY <1>1, <2>1, <2>2 DEF TypeOK, RowsGoOn
  <2>4. /\ [v EXCEPT !.done = TRUE] \in [key : Keys, by : {"user", "sweep"}, done : BOOLEAN]
        /\ [v EXCEPT !.done = TRUE].key = v.key
    BY <2>2
  <2>5. /\ revokes' \subseteq [key : Keys, by : {"user", "sweep"}, done : BOOLEAN]
        /\ \A w \in revokes' : w \in revokes \/ row'[w.key] = "gone"
    BY <1>1, <2>1, <2>2, <2>4 DEF TypeOK
  <2> QED
    BY <1>1, <2>1, <2>3, <2>5, StoresInv DEF TypeOK, StoresGoOn
<1>9. ASSUME NEW d \in roster, ForgetDevice(d) PROVE Inv' /\ UNCHANGED socket
  BY <1>1, <1>9, StoresInv DEF ForgetDevice, TypeOK, StoresGoOn, RowsGoOn, bookVars
<1>10. CASE SweepLists \/ SweepAsks \/ SweepEnds
  <2>1. UNCHANGED <<row, roster, upserts, socket, byKey, byDevice, revokes, forgotten>>
    BY <1>10 DEF SweepLists, SweepAsks, SweepEnds, storeVars, bookVars
  <2>2. sweep' \in [at : {"idle", "listed", "sweeping"}, list : SUBSET Keys,
                    used : SUBSET (Keys \cup {None})]
    <3>1. CASE SweepLists
      BY <3>1 DEF SweepLists
    <3>2. CASE SweepAsks
      <4>1. \A d \in roster : d.key \in Keys \cup {None}
        BY <1>1 DEF KeysAssumption, TypeOK, Rows
      <4>2. {d.key : d \in roster} \in SUBSET (Keys \cup {None})
        BY <4>1
      <4>3. sweep' = [[sweep EXCEPT !.at = "sweeping"] EXCEPT !.used = {d.key : d \in roster}]
        BY <3>2 DEF SweepAsks
      <4> QED
        BY <1>1, <4>2, <4>3 DEF TypeOK
    <3>3. CASE SweepEnds
      BY <3>3 DEF SweepEnds, Idle
    <3> QED
      BY <1>10, <3>1, <3>2, <3>3
  <2> QED
    BY <1>1, <2>1, <2>2, StoresInv DEF TypeOK, StoresGoOn, RowsGoOn
<1> QED
  BY <1>2, <1>3, <1>4, <1>5, <1>6, <1>7, <1>8, <1>9, <1>10 DEF StoreStep

-----------------------------------------------------------------------------
\* Sockets are told to stop: those that are told and open are closing.
LEMMA ToldInv ==
  ASSUME Inv, NEW told, Told(told),
         revokes' \subseteq revokes, forgotten' \subseteq forgotten,
         UNCHANGED <<row, roster, upserts, byKey, byDevice, sweep>>
  PROVE  Inv'
<1>1. \A s \in Sockets :
        socket'[s] = IF s \in told /\ socket[s].state = "open"
                     THEN [socket[s] EXCEPT !.state = "closing"] ELSE socket[s]
  BY DEF Told
<1>2. socket \in [Sockets ->
       [state  : {"none", "open", "closing", "closed", "lost"},
        stage  : {"asking", "known", "unknown", "refused", "attached"},
        client : Clients \cup {None}, frame : {"coming", "kept", "handled"}]]
  BY DEF Inv, TypeOK
<1>3. \A s \in Sockets :
        /\ socket'[s] \in
             [state  : {"none", "open", "closing", "closed", "lost"},
              stage  : {"asking", "known", "unknown", "refused", "attached"},
              client : Clients \cup {None}, frame : {"coming", "kept", "handled"}]
        /\ socket'[s].stage = socket[s].stage /\ socket'[s].client = socket[s].client
        /\ \/ socket'[s].state = socket[s].state
           \/ socket[s].state = "open" /\ socket'[s].state = "closing"
  BY <1>1, <1>2
<1>4. TypeOK'
  BY <1>3 DEF Inv, TypeOK, Told
<1>5. Come' /\ OnTheBooks'
  BY <1>3 DEF Inv, Come, OnTheBooks, Attached, KeyOf
<1>6. BooksOfTheirs'
  BY <1>3 DEF Inv, TypeOK, BooksOfTheirs, KeyOf, DeviceOf
<1>7. DoneIsGone'
  BY DEF Inv, DoneIsGone
<1> QED
  BY <1>4, <1>5, <1>6, <1>7 DEF Inv

\* A revocation or a forgotten device reaches its sockets.
LEMMA TellInv ==
  ASSUME Inv,
         (\E v \in revokes : Answered(v)) \/ (\E d \in forgotten : DeviceForgotten(d))
  PROVE  Inv'
<1>1. ASSUME NEW v \in revokes, Answered(v) PROVE Inv'
  BY <1>1, ToldInv DEF Answered, storeVars, bookVars
<1>2. ASSUME NEW d \in forgotten, DeviceForgotten(d) PROVE Inv'
  BY <1>2, ToldInv DEF DeviceForgotten, storeVars, bookVars
<1> QED
  BY <1>1, <1>2


-----------------------------------------------------------------------------
\* What a step may do to one socket and to the books it is on.
LEMMA SocketInv ==
  ASSUME KeysAssumption, Inv, NEW s \in Sockets, NEW z,
         z \in [state  : {"none", "open", "closing", "closed", "lost"},
                stage  : {"asking", "known", "unknown", "refused", "attached"},
                client : Clients \cup {None}, frame : {"coming", "kept", "handled"}],
         socket' = [socket EXCEPT ![s] = z],
         z.stage # "asking" => z.state # "none",
         z.state # "none" => z.client \in Clients,
         byKey' \in [Keys -> SUBSET Sockets], byDevice' \in [Devices -> SUBSET Sockets],
         \A k \in Keys : byKey[k] \ {s} = byKey'[k] \ {s},
         \A d \in Devices : byDevice[d] \ {s} = byDevice'[d] \ {s},
         z.stage = "attached" /\ z.state # "closed" /\ z.client.key # None =>
           s \in byKey'[z.client.key],
         \A k \in Keys : s \in byKey'[k] => z.stage = "attached" /\ z.client.key = k,
         \A d \in Devices : s \in byDevice'[d] => z.stage = "attached" /\ z.client.device = d,
         upserts' \subseteq Rows,
         UNCHANGED <<row, roster, revokes, forgotten, sweep>>
  PROVE  Inv'
<1>1. \A r \in Sockets : socket'[r] = IF r = s THEN z ELSE socket[r]
  BY DEF Inv, TypeOK
<1>2. TypeOK'
  BY <1>1 DEF Inv, TypeOK
<1>3. Come'
  BY <1>1 DEF Inv, Come
<1>4. OnTheBooks'
  <2>1. ASSUME NEW r \in Sockets, socket'[r].stage = "attached", socket'[r].state # "closed",
               socket'[r].client.key # None
        PROVE  r \in byKey'[socket'[r].client.key]
    <3>1. CASE r = s
      BY <1>1, <2>1, <3>1
    <3>2. CASE r # s
      <4>1. r \in byKey[socket[r].client.key] /\ socket[r].client \in Clients
        BY <1>1, <2>1, <3>2 DEF Inv, Come, OnTheBooks, Attached, KeyOf
      <4>2. socket[r].client.key \in Keys
        BY <1>1, <2>1, <3>2, <4>1 DEF KeysAssumption
      <4> QED
        BY <1>1, <3>2, <4>1, <4>2
    <3> QED
      BY <3>1, <3>2
  <2> QED
    BY <2>1 DEF OnTheBooks, Attached, KeyOf
<1>5. BooksOfTheirs'
  <2>1. ASSUME NEW k \in Keys, NEW r \in byKey'[k]
        PROVE  socket'[r].stage = "attached" /\ socket'[r].client.key = k
    <3>1. CASE r = s
      BY <1>1, <2>1, <3>1
    <3>2. CASE r # s
      <4>1. r \in byKey[k] /\ r \in Sockets
        BY <2>1, <3>2
      <4> QED
        BY <1>1, <3>2, <4>1 DEF Inv, BooksOfTheirs, KeyOf
    <3> QED
      BY <3>1, <3>2
  <2>2. ASSUME NEW d \in Devices, NEW r \in byDevice'[d]
        PROVE  socket'[r].stage = "attached" /\ socket'[r].client.device = d
    <3>1. CASE r = s
      BY <1>1, <2>2, <3>1
    <3>2. CASE r # s
      <4>1. r \in byDevice[d] /\ r \in Sockets
        BY <2>2, <3>2
      <4> QED
        BY <1>1, <3>2, <4>1 DEF Inv, BooksOfTheirs, DeviceOf
    <3> QED
      BY <3>1, <3>2
  <2> QED
    BY <2>1, <2>2 DEF BooksOfTheirs, KeyOf, DeviceOf
<1>6. DoneIsGone'
  BY DEF Inv, DoneIsGone
<1> QED
  BY <1>2, <1>3, <1>4, <1>5, <1>6 DEF Inv

\* What is known of a socket before a step on it.
LEMMA SocketType ==
  ASSUME KeysAssumption, Inv, NEW s \in Sockets
  PROVE  /\ socket[s] \in [state  : {"none", "open", "closing", "closed", "lost"},
                           stage  : {"asking", "known", "unknown", "refused", "attached"},
                           client : Clients \cup {None}, frame : {"coming", "kept", "handled"}]
         /\ socket[s].stage # "asking" => socket[s].state # "none"
         /\ socket[s].state # "none" =>
              /\ socket[s].client \in Clients
              /\ KeyOf(s) \in Keys \cup {None}
              /\ DeviceOf(s) # None => DeviceOf(s) \in Devices /\ socket[s].client \in Rows
         /\ byKey \in [Keys -> SUBSET Sockets] /\ byDevice \in [Devices -> SUBSET Sockets]
         /\ upserts \subseteq Rows
         /\ socket[s].stage # "attached" =>
              /\ \A k \in Keys : s \notin byKey[k]
              /\ \A d \in Devices : s \notin byDevice[d]
         /\ \A k \in Keys : s \in byKey[k] => KeyOf(s) = k
         /\ \A d \in Devices : s \in byDevice[d] => DeviceOf(s) = d
<1>1. TypeOK /\ Come /\ BooksOfTheirs
  BY DEF Inv
<1>2. socket[s].state # "none" =>
        /\ socket[s].client \in Clients
        /\ KeyOf(s) \in Keys \cup {None}
        /\ DeviceOf(s) # None => DeviceOf(s) \in Devices /\ socket[s].client \in Rows
  BY <1>1 DEF Come, KeysAssumption, KeyOf, DeviceOf, Devices, Rows
<1> QED
  BY <1>1, <1>2 DEF TypeOK, Come, BooksOfTheirs


\* A tunnel is registered: the device of the socket, if it has one and the frame
\* is handled, gets the socket on its books and its row on the way.
LEMMA EnrolledOne ==
  ASSUME KeysAssumption, Inv, NEW s \in Sockets, socket[s].state # "none", NEW f,
         Enrolled(s, f)
  PROVE  /\ byDevice' \in [Devices -> SUBSET Sockets] /\ upserts' \subseteq Rows
         /\ \A d \in Devices :
              /\ byDevice[d] \ {s} = byDevice'[d] \ {s}
              /\ s \in byDevice'[d] => s \in byDevice[d] \/ (f = "handled" /\ DeviceOf(s) = d)
<1>1. CASE DeviceOf(s) = None \/ f # "handled"
  BY <1>1, SocketType DEF Enrolled
<1>2. CASE ~ (DeviceOf(s) = None \/ f # "handled")
  <2>1. /\ byDevice' = [byDevice EXCEPT ![DeviceOf(s)] = @ \cup {s}]
        /\ upserts' = upserts \cup {socket[s].client}
    BY <1>2 DEF Enrolled
  <2>2. /\ DeviceOf(s) \in Devices /\ socket[s].client \in Rows
        /\ byDevice \in [Devices -> SUBSET Sockets] /\ upserts \subseteq Rows
    BY <1>2, SocketType
  <2> HIDE DEF DeviceOf
  <2> QED
    BY <1>2, <2>1, <2>2
<1> QED
  BY <1>1, <1>2

\* A client connects, and the store answers about its credential.
LEMMA ArrivalInv ==
  ASSUME KeysAssumption, Inv, NEW s \in Sockets,
         (\E c \in Clients : Connect(s, c)) \/ StoreAnswers(s)
  PROVE  Inv' /\ UNCHANGED revokes
<1>1. ASSUME NEW c \in Clients, Connect(s, c) PROVE Inv' /\ UNCHANGED revokes
  <2> DEFINE z == [Unborn EXCEPT !.state = "open", !.client = c]
  <2>1. /\ z \in [state  : {"none", "open", "closing", "closed", "lost"},
                  stage  : {"asking", "known", "unknown", "refused", "attached"},
                  client : Clients \cup {None}, frame : {"coming", "kept", "handled"}]
        /\ z.stage = "asking" /\ z.client = c
    BY DEF Unborn
  <2>2. /\ socket' = [socket EXCEPT ![s] = z] /\ socket[s].stage # "attached"
        /\ UNCHANGED <<row, roster, upserts, byKey, byDevice, revokes, forgotten, sweep>>
    BY <1>1, SocketType DEF Connect, storeVars, bookVars
  <2> HIDE DEF z
  <2> QED
    BY <2>1, <2>2, SocketType, SocketInv
<1>2. CASE StoreAnswers(s)
  <2> DEFINE st == IF KeyOf(s) = None \/ Live(KeyOf(s)) THEN "known" ELSE "unknown"
             z == [socket[s] EXCEPT !.stage = st]
  <2>1. /\ socket' = [socket EXCEPT ![s] = z] /\ socket[s].stage = "asking"
        /\ socket[s].state # "none"
        /\ UNCHANGED <<row, roster, upserts, byKey, byDevice, revokes, forgotten, sweep>>
    BY <1>2 DEF StoreAnswers, storeVars, bookVars
  <2>2. st \in {"known", "unknown"}
    OBVIOUS
  <2> HIDE DEF st
  <2>3. /\ z \in [state  : {"none", "open", "closing", "closed", "lost"},
                  stage  : {"asking", "known", "unknown", "refused", "attached"},
                  client : Clients \cup {None}, frame : {"coming", "kept", "handled"}]
        /\ z.stage = st /\ z.client = socket[s].client /\ z.state = socket[s].state
    BY <2>2, SocketType
  <2> HIDE DEF z
  <2> QED
    BY <2>1, <2>2, <2>3, SocketType, SocketInv
<1> QED
  BY <1>1, <1>2

\* An authentication is handled: a socket that is let in is on its books in the
\* same turn, lost or not.
LEMMA AuthenticatedInv ==
  ASSUME KeysAssumption, Inv, NEW s \in Sockets, Authenticated(s)
  PROVE  Inv' /\ UNCHANGED revokes
<1>1. CASE socket[s].stage = "unknown"
  <2> DEFINE st == IF socket[s].state = "open" THEN "closing" ELSE socket[s].state
             z == [[socket[s] EXCEPT !.stage = "refused"] EXCEPT !.state = st]
  <2>1. /\ socket' = [socket EXCEPT ![s] = z]
        /\ UNCHANGED <<row, roster, upserts, byKey, byDevice, revokes, forgotten, sweep>>
    <3>1. /\ socket' = [socket EXCEPT ![s].stage = "refused", ![s].state = st]
          /\ UNCHANGED <<row, roster, upserts, byKey, byDevice, revokes, forgotten, sweep>>
      BY <1>1 DEF Authenticated, storeVars, bookVars
    <3> HIDE DEF st
    <3> QED
      BY <3>1 DEF Inv, TypeOK
  <2>2. socket[s].state # "none" /\ st \in {"none", "open", "closing", "closed", "lost"}
    BY <1>1, SocketType
  <2>3. st # "none"
    BY <2>2
  <2> HIDE DEF st
  <2>4. /\ z \in [state  : {"none", "open", "closing", "closed", "lost"},
                  stage  : {"asking", "known", "unknown", "refused", "attached"},
                  client : Clients \cup {None}, frame : {"coming", "kept", "handled"}]
        /\ z.stage = "refused" /\ z.client = socket[s].client /\ z.state = st
    BY <2>2, SocketType
  <2> HIDE DEF z
  <2> QED
    BY <1>1, <2>1, <2>2, <2>3, <2>4, SocketType, SocketInv
<1>2. CASE socket[s].stage = "known"
  <2> DEFINE f == IF socket[s].frame = "kept" THEN "handled" ELSE socket[s].frame
             z == [[socket[s] EXCEPT !.stage = "attached"] EXCEPT !.frame = f]
  <2>1. /\ socket' = [socket EXCEPT ![s] = z] /\ OnKey(s) /\ Enrolled(s, f)
        /\ UNCHANGED <<row, roster, revokes, forgotten, sweep>>
    <3>1. /\ socket' = [socket EXCEPT ![s].stage = "attached", ![s].frame = f]
          /\ OnKey(s) /\ Enrolled(s, f)
          /\ UNCHANGED <<row, roster, revokes, forgotten, sweep>>
      BY <1>2 DEF Authenticated, storeVars
    <3> HIDE DEF f
    <3>2. socket' = [socket EXCEPT ![s] = z]
      BY <3>1 DEF Inv, TypeOK
    <3> QED
      BY <3>1, <3>2
  <2>2. /\ f \in {"coming", "kept", "handled"} /\ socket[s].state # "none"
        /\ socket[s].client \in Clients /\ KeyOf(s) \in Keys \cup {None}
    BY <1>2, SocketType
  <2> HIDE DEF f
  <2>3. /\ z \in [state  : {"none", "open", "closing", "closed", "lost"},
                  stage  : {"asking", "known", "unknown", "refused", "attached"},
                  client : Clients \cup {None}, frame : {"coming", "kept", "handled"}]
        /\ z.stage = "attached" /\ z.client = socket[s].client /\ z.state = socket[s].state
    BY <2>2, SocketType
  <2> HIDE DEF z
  <2>4. /\ byDevice' \in [Devices -> SUBSET Sockets] /\ upserts' \subseteq Rows
        /\ \A d \in Devices : /\ byDevice[d] \ {s} = byDevice'[d] \ {s}
                              /\ s \in byDevice'[d] => DeviceOf(s) = d
    BY <1>2, <2>1, <2>2, EnrolledOne, SocketType
  <2>5. /\ byKey' \in [Keys -> SUBSET Sockets]
        /\ \A k \in Keys : /\ byKey[k] \ {s} = byKey'[k] \ {s}
                           /\ s \in byKey'[k] => KeyOf(s) = k
        /\ KeyOf(s) # None => s \in byKey'[KeyOf(s)]
    <3>1. byKey \in [Keys -> SUBSET Sockets] /\ \A k \in Keys : s \notin byKey[k]
      BY <1>2, SocketType
    <3>2. CASE KeyOf(s) = None
      BY <2>1, <3>1, <3>2 DEF OnKey
    <3>3. CASE KeyOf(s) # None
      <4>1. KeyOf(s) \in Keys /\ byKey' = [byKey EXCEPT ![KeyOf(s)] = @ \cup {s}]
        BY <2>1, <2>2, <3>3 DEF OnKey
      <4> QED
        BY <3>1, <4>1
    <3> QED
      BY <3>2, <3>3
  <2>6. z.client.key = KeyOf(s) /\ z.client.device = DeviceOf(s)
    BY <2>3 DEF KeyOf, DeviceOf
  <2>7. /\ byKey' \in [Keys -> SUBSET Sockets]
        /\ z.client.key # None => s \in byKey'[z.client.key]
        /\ \A k \in Keys : byKey[k] \ {s} = byKey'[k] \ {s}
        /\ \A k \in Keys : s \in byKey'[k] => z.stage = "attached" /\ z.client.key = k
    BY <2>3, <2>5, <2>6
  <2>8. /\ byDevice' \in [Devices -> SUBSET Sockets] /\ upserts' \subseteq Rows
        /\ \A d \in Devices : byDevice[d] \ {s} = byDevice'[d] \ {s}
        /\ \A d \in Devices : s \in byDevice'[d] => z.stage = "attached" /\ z.client.device = d
    BY <2>3, <2>4, <2>6
  <2>9. z.state # "none" /\ z.client \in Clients
    BY <2>2, <2>3
  <2> QED
    BY <2>1, <2>3, <2>7, <2>8, <2>9, SocketInv
<1> QED
  BY <1>1, <1>2 DEF Authenticated

\* register_tunnel arrives: only an authenticated socket gets on the books of its
\* device.
LEMMA FrameArrivesInv ==
  ASSUME KeysAssumption, Inv, NEW s \in Sockets, FrameArrives(s)
  PROVE  Inv' /\ UNCHANGED revokes
<1> DEFINE f == IF socket[s].stage = "attached" THEN "handled" ELSE "kept"
           z == [socket[s] EXCEPT !.frame = f]
<1>1. /\ socket' = [socket EXCEPT ![s] = z] /\ Enrolled(s, f) /\ socket[s].state # "none"
      /\ UNCHANGED <<row, roster, byKey, revokes, forgotten, sweep>>
  BY DEF FrameArrives, storeVars
<1>2. f \in {"coming", "kept", "handled"} /\ (f = "handled" => socket[s].stage = "attached")
  OBVIOUS
<1> HIDE DEF f
<1>3. /\ z \in [state  : {"none", "open", "closing", "closed", "lost"},
                stage  : {"asking", "known", "unknown", "refused", "attached"},
                client : Clients \cup {None}, frame : {"coming", "kept", "handled"}]
      /\ z.stage = socket[s].stage /\ z.client = socket[s].client /\ z.state = socket[s].state
  BY <1>2, SocketType
<1> HIDE DEF z
<1>4. /\ byDevice' \in [Devices -> SUBSET Sockets] /\ upserts' \subseteq Rows
      /\ \A d \in Devices :
           /\ byDevice[d] \ {s} = byDevice'[d] \ {s}
           /\ s \in byDevice'[d] => socket[s].stage = "attached" /\ DeviceOf(s) = d
  BY <1>1, <1>2, EnrolledOne, SocketType
<1>5. /\ KeyOf(s) = socket[s].client.key /\ DeviceOf(s) = socket[s].client.device
      /\ \A k \in Keys : s \in byKey[k] => socket[s].stage = "attached" /\ KeyOf(s) = k
  BY SocketType DEF KeyOf, DeviceOf
<1>6. socket[s].stage = "attached" /\ socket[s].state # "closed" /\ KeyOf(s) # None =>
        s \in byKey[KeyOf(s)]
  BY DEF Inv, OnTheBooks, Attached
<1>7. /\ byKey \in [Keys -> SUBSET Sockets] /\ socket[s].client \in Clients
      /\ z.stage = "attached" /\ z.state # "closed" /\ z.client.key # None =>
           s \in byKey'[z.client.key]
      /\ \A k \in Keys : s \in byKey'[k] => z.stage = "attached" /\ z.client.key = k
      /\ \A d \in Devices : s \in byDevice'[d] => z.stage = "attached" /\ z.client.device = d
  BY <1>1, <1>3, <1>4, <1>5, <1>6, SocketType
<1> QED
  BY <1>1, <1>3, <1>4, <1>7, SocketInv

\* A socket is gone: with its close handler it leaves the books, without one it
\* stays on them, as closed to nobody's knowledge.
LEMMA SocketClosesInv ==
  ASSUME KeysAssumption, Inv, NEW s \in Sockets, SocketCloses(s)
  PROVE  Inv' /\ UNCHANGED revokes
<1> DEFINE st == IF socket[s].stage = "attached" THEN "closed" ELSE "lost"
           z == [socket[s] EXCEPT !.state = st]
<1>1. /\ socket' = [socket EXCEPT ![s] = z] /\ socket[s].state # "none"
      /\ UNCHANGED <<row, roster, upserts, revokes, forgotten, sweep>>
  BY DEF SocketCloses, storeVars
<1>2. st \in {"closed", "lost"} /\ (socket[s].stage = "attached" <=> st = "closed")
  OBVIOUS
<1> HIDE DEF st
<1>3. /\ z \in [state  : {"none", "open", "closing", "closed", "lost"},
                stage  : {"asking", "known", "unknown", "refused", "attached"},
                client : Clients \cup {None}, frame : {"coming", "kept", "handled"}]
      /\ z.stage = socket[s].stage /\ z.client = socket[s].client /\ z.state = st
  BY <1>2, SocketType
<1> HIDE DEF z
<1>4. /\ byKey \in [Keys -> SUBSET Sockets] /\ byDevice \in [Devices -> SUBSET Sockets]
      /\ socket[s].client \in Clients /\ upserts \subseteq Rows
  BY <1>1, SocketType
<1>5. /\ byKey' \in [Keys -> SUBSET Sockets] /\ byDevice' \in [Devices -> SUBSET Sockets]
      /\ \A k \in Keys : byKey[k] \ {s} = byKey'[k] \ {s} /\ s \notin byKey'[k]
      /\ \A d \in Devices : byDevice[d] \ {s} = byDevice'[d] \ {s} /\ s \notin byDevice'[d]
  <2>1. CASE socket[s].stage = "attached"
    BY <1>4, <2>1 DEF SocketCloses, Closed
  <2>2. CASE socket[s].stage # "attached"
    BY <1>4, <2>2, SocketType DEF SocketCloses, bookVars
  <2> QED
    BY <2>1, <2>2
<1> QED
  BY <1>1, <1>2, <1>3, <1>4, <1>5, SocketInv


-----------------------------------------------------------------------------
\* A step of one socket.
SocketStep ==
  \E s \in Sockets :
    \/ StoreAnswers(s) \/ Authenticated(s) \/ FrameArrives(s) \/ SocketCloses(s)
    \/ \E c \in Clients : Connect(s, c)

\* A revocation or a forgotten device reaches its sockets.
TellStep ==
  (\E v \in revokes : Answered(v)) \/ (\E d \in forgotten : DeviceForgotten(d))

\* Every step is of one of three kinds.
LEMMA Kinds == Next <=> StoreStep \/ SocketStep \/ TellStep
  BY DEF Next, StoreStep, SocketStep, TellStep

\* Every step keeps the invariant.
LEMMA NextInv == KeysAssumption /\ Inv /\ [Next]_vars => Inv'
<1> SUFFICES ASSUME KeysAssumption, Inv, [Next]_vars PROVE Inv'
  OBVIOUS
<1>1. CASE StoreStep
  BY <1>1, StoreStepInv
<1>2. CASE SocketStep
  BY <1>2, ArrivalInv, AuthenticatedInv, FrameArrivesInv, SocketClosesInv DEF SocketStep
<1>3. CASE TellStep
  BY <1>3, TellInv DEF TellStep
<1>4. CASE UNCHANGED vars
  <2>1. /\ UNCHANGED <<socket, byKey, byDevice>>
        /\ UNCHANGED <<row, roster, upserts, revokes, forgotten, sweep>>
    BY <1>4 DEF vars, storeVars, bookVars
  <2>2. StoresGoOn
    BY <2>1 DEF StoresGoOn, RowsGoOn, Inv, TypeOK
  <2> QED
    BY <2>1, <2>2, StoresInv
<1> QED
  BY <1>1, <1>2, <1>3, <1>4, Kinds

\* Only telling closes an authenticated socket from this side: it has lost its key,
\* or somebody forgot a device of its id.
LEMMA ToldRightly ==
  ASSUME Inv, Next, NEW s \in Sockets, KeysAssumption,
         Attached(s), socket[s].state = "open", socket'[s].state = "closing"
  PROVE  \/ KeyOf(s) # None /\ row[KeyOf(s)] = "gone"
         \/ \E d \in forgotten : d.device = DeviceOf(s)
<1>1. ASSUME NEW told, Told(told) PROVE s \in told
  BY <1>1 DEF Told
<1>2. ASSUME NEW v \in revokes, Answered(v)
      PROVE  KeyOf(s) # None /\ row[KeyOf(s)] = "gone"
  <2>1. v.done /\ v.key \in Keys /\ s \in byKey[v.key]
    BY <1>1, <1>2 DEF Answered, Inv, TypeOK
  <2> QED
    BY <2>1 DEF Inv, BooksOfTheirs, DoneIsGone, KeysAssumption
<1>3. ASSUME NEW d \in forgotten, DeviceForgotten(d)
      PROVE  d.device = DeviceOf(s)
  <2>1. s \in byDevice[d.device] /\ d.device \in Devices
    BY <1>1, <1>3 DEF DeviceForgotten, Inv, TypeOK, Rows, Devices
  <2> QED
    BY <2>1 DEF Inv, BooksOfTheirs
<1>4. CASE StoreStep
  BY <1>4, StoreStepInv
<1>5. ASSUME NEW r \in Sockets,
             \/ StoreAnswers(r) \/ Authenticated(r) \/ FrameArrives(r) \/ SocketCloses(r)
             \/ \E c \in Clients : Connect(r, c)
      PROVE  FALSE
  <2>1. socket[s].stage = "attached" /\ socket[s].state = "open"
    BY DEF Attached
  <2>3. CASE StoreAnswers(r)
    BY <2>1, <2>3 DEF StoreAnswers, Inv, TypeOK
  <2>4. CASE Authenticated(r)
    BY <2>1, <2>4 DEF Authenticated, Inv, TypeOK
  <2>5. CASE FrameArrives(r)
    BY <2>1, <2>5 DEF FrameArrives, Inv, TypeOK
  <2>6. CASE SocketCloses(r)
    BY <2>1, <2>6 DEF SocketCloses, Inv, TypeOK
  <2>7. ASSUME NEW c \in Clients, Connect(r, c) PROVE FALSE
    BY <2>1, <2>7 DEF Connect, Inv, TypeOK
  <2> QED
    BY <1>5, <2>3, <2>4, <2>5, <2>6, <2>7
<1> QED
  BY <1>2, <1>3, <1>4, <1>5, Kinds DEF TellStep, SocketStep

\* When a revocation is answered, no authenticated socket stays open on its key.
LEMMA AllAreTold ==
  ASSUME Inv, Next, KeysAssumption, NEW v \in revokes \ revokes', v.done,
         NEW s \in Sockets, Attached(s), KeyOf(s) = v.key
  PROVE  socket'[s].state # "open"
<1>1. v.key \in Keys /\ v \in revokes
  BY DEF Inv, TypeOK
<1>2. s \in byKey[v.key]
  BY <1>1 DEF Inv, OnTheBooks, KeysAssumption
<1>3. CASE Answered(v)
  BY <1>2, <1>3 DEF Answered, Told, Inv, TypeOK
<1>4. CASE StoreStep
  <2>1. ASSUME NEW w \in revokes, RowDeleted(w) PROVE v \in revokes'
    BY <1>1, <2>1 DEF RowDeleted
  <2> QED
    BY <1>1, <1>4, <2>1
    DEF StoreStep, MintKey, Ages, RevokeKey, SweepKey, UpsertLands, RegisterDevice,
        ForgetDevice, SweepLists, SweepAsks, SweepEnds
<1>5. CASE SocketStep
  BY <1>1, <1>5, ArrivalInv, AuthenticatedInv, FrameArrivesInv, SocketClosesInv DEF SocketStep
<1>6. CASE TellStep
  <2>1. ASSUME NEW w \in revokes, Answered(w) PROVE w = v
    BY <1>1, <2>1 DEF Answered
  <2>2. ASSUME NEW d \in forgotten, DeviceForgotten(d) PROVE FALSE
    BY <1>1, <2>2 DEF DeviceForgotten
  <2> QED
    BY <1>3, <1>6, <2>1, <2>2 DEF TellStep
<1> QED
  BY <1>4, <1>5, <1>6, Kinds

\* The sweep revokes no key that a device had when it asked, or a socket lives on.
LEMMA SweptRightly ==
  ASSUME Inv, Next, KeysAssumption, NEW v \in revokes' \ revokes, v.by = "sweep", ~ v.done
  PROVE  /\ v.key \notin sweep.used
         /\ ~ \E s \in Sockets : Attached(s) /\ KeyOf(s) = v.key
<1>1. ASSUME NEW k \in Keys, SweepKey(k)
      PROVE  /\ v.key \notin sweep.used
             /\ ~ \E s \in Sockets : Attached(s) /\ KeyOf(s) = v.key
  <2>1. v.key = k /\ k \notin sweep.used /\ byKey[k] = {}
    BY <1>1 DEF SweepKey, Sweeps, Unused
  <2> QED
    BY <2>1 DEF Inv, OnTheBooks, KeysAssumption
<1>2. CASE StoreStep
  <2>1. ASSUME NEW k \in Keys, RevokeKey(k) PROVE FALSE
    BY <2>1 DEF RevokeKey, Revoke
  <2>2. ASSUME NEW w \in revokes, RowDeleted(w) PROVE FALSE
    BY <2>2 DEF RowDeleted, Inv, TypeOK
  <2> QED
    BY <1>1, <1>2, <2>1, <2>2
    DEF StoreStep, MintKey, Ages, UpsertLands, RegisterDevice, ForgetDevice, SweepLists,
        SweepAsks, SweepEnds
<1>3. CASE SocketStep
  BY <1>3, ArrivalInv, AuthenticatedInv, FrameArrivesInv, SocketClosesInv DEF SocketStep
<1>4. CASE TellStep
  BY <1>4 DEF TellStep, Answered, DeviceForgotten
<1> QED
  BY <1>2, <1>3, <1>4, Kinds

\* The books of keys and devices are right.
THEOREM KeysInvariant ==
  ASSUME KeysAssumption
  PROVE  Spec => []Inv
<1>1. Inv /\ [Next]_vars => Inv'
  BY NextInv
<1> QED
  BY <1>1, InitInv, PTL DEF Spec

\* A key is taken away from the clients that use it, and from no others.
THEOREM KeysRevocation ==
  ASSUME KeysAssumption
  PROVE  Spec => RevocationReaches
<1> DEFINE P ==
     /\ \A s \in Sockets : Attached(s) /\ socket[s].state = "open" /\ socket'[s].state = "closing" =>
          \/ KeyOf(s) # None /\ row[KeyOf(s)] = "gone"
          \/ \E d \in forgotten : d.device = DeviceOf(s)
     /\ \A v \in revokes \ revokes' : v.done =>
          ~ \E s \in Sockets : Attached(s) /\ socket'[s].state = "open" /\ KeyOf(s) = v.key
     /\ \A v \in revokes' \ revokes : v.by = "sweep" /\ ~ v.done =>
          /\ v.key \notin sweep.used
          /\ ~ \E s \in Sockets : Attached(s) /\ KeyOf(s) = v.key
<1>1. Inv /\ [Next]_vars => [P]_vars
  BY ToldRightly, AllAreTold, SweptRightly
<1>2. Spec => []Inv
  BY KeysInvariant
<1> QED
  BY <1>1, <1>2, PTL DEF Spec, RevocationReaches

==============================================================================
