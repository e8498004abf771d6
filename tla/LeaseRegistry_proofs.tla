------------------------- MODULE LeaseRegistry_proofs -------------------------
(***************************************************************************)
(* A lease ends by expiry or by its holder, every claim that waits has one *)
(* command on its way, and a client that beats holds its lease as long as  *)
(* Redis is healthy: for any number of nodes, clients and names, any time  *)
(* to live and any number of attempts.                                     *)
(*                                                                         *)
(* The argument is about tokens.  A token is claimed once, so whoever has  *)
(* it in an entry, a renewal or a release is past its claim (OwnTokens),   *)
(* and once a release of it is on its way no entry has it any more and     *)
(* none will (ReleasedTokens).  So a release that Redis grants, late or    *)
(* twice, ends no lease that an entry stands for.                          *)
(***************************************************************************)
EXTENDS LeaseRegistry, SequenceTheorems, FiniteSetTheorems, TLAPS

-----------------------------------------------------------------------------
(***************************************************************************)
(* The commands of a node: what the queue operations do to their set and   *)
(* to the claims among them.                                               *)
(***************************************************************************)

ClaimOf(c, s) == c.op = "claim" /\ c.token[1] = s

\* No socket has two claims in the queue.
ClaimsOnce(q) ==
  \A i, j \in DOMAIN q :
    q[i].op = "claim" /\ q[j].op = "claim" /\ q[i].token[1] = q[j].token[1] => i = j

\* A command is sent: it is one more, and the claims are told apart if it is
\* no claim, or one of a socket that has none.
LEMMA Appended ==
  ASSUME NEW q \in Seq(Call), ClaimsOnce(q), NEW c \in Call,
         c.op = "claim" => \A d \in Range(q) : ~ ClaimOf(d, c.token[1])
  PROVE  /\ Append(q, c) \in Seq(Call)
         /\ Range(Append(q, c)) = Range(q) \cup {c}
         /\ ClaimsOnce(Append(q, c))
<1> DEFINE a == Append(q, c)
<1>1. /\ a \in Seq(Call) /\ Len(a) = Len(q) + 1 /\ Len(q) \in Nat
      /\ DOMAIN a = 1..Len(a) /\ DOMAIN q = 1..Len(q)
      /\ \A i \in 1..Len(q) : a[i] = q[i]
      /\ a[Len(q) + 1] = c
  BY AppendProperties, LenProperties
<1> HIDE DEF a
<1>2. /\ Range(q) = {q[i] : i \in 1..Len(q)}
      /\ Range(a) = {a[i] : i \in 1..Len(a)}
  BY <1>1 DEF Range
<1>3. Range(a) = Range(q) \cup {c}
  <2>1. 1..Len(a) = (1..Len(q)) \cup {Len(q) + 1}
    BY <1>1
  <2> QED
    BY <1>1, <1>2, <2>1
<1>4. \A i \in 1..Len(q) : q[i].op = "claim" /\ c.op = "claim" => q[i].token[1] # c.token[1]
  BY <1>2 DEF ClaimOf
<1>5. ClaimsOnce(a)
  BY <1>1, <1>4 DEF ClaimsOnce
<1> QED
  BY <1>1, <1>3, <1>5 DEF a

\* The oldest command is answered: only it leaves the queue, and if it is a claim
\* its socket has no other.
LEMMA HeadAnswered ==
  ASSUME NEW q \in Seq(Call), ClaimsOnce(q), q # <<>>
  PROVE  /\ Tail(q) \in Seq(Call)
         /\ ClaimsOnce(Tail(q))
         /\ Head(q) \in Call /\ Head(q) \in Range(q)
         /\ Range(Tail(q)) \subseteq Range(q)
         /\ Range(q) \subseteq Range(Tail(q)) \cup {Head(q)}
         /\ Head(q).op = "claim" =>
              \A d \in Range(Tail(q)) : ~ ClaimOf(d, Head(q).token[1])
<1> DEFINE t == Tail(q)
<1>1. /\ t \in Seq(Call) /\ Len(t) = Len(q) - 1 /\ Len(q) \in Nat \ {0}
      /\ DOMAIN t = 1..Len(t) /\ DOMAIN q = 1..Len(q)
      /\ \A i \in 1..Len(t) : t[i] = q[i + 1]
  BY HeadTailProperties, LenProperties, EmptySeq
<1>2. Head(q) = q[1] /\ Head(q) \in Call
  BY HeadTailProperties
<1> HIDE DEF t
<1>3. /\ Range(q) = {q[i] : i \in 1..Len(q)}
      /\ Range(t) = {t[i] : i \in 1..Len(t)}
  BY <1>1 DEF Range
<1>4. \A i \in 1..Len(t) : i + 1 \in 1..Len(q)
  BY <1>1
<1>5. \A i \in 1..Len(q) : i = 1 \/ (i - 1 \in 1..Len(t) /\ t[i - 1] = q[i])
  BY <1>1
<1>6. Range(t) \subseteq Range(q)
  BY <1>1, <1>3, <1>4
<1>7. Range(q) \subseteq Range(t) \cup {Head(q)}
  BY <1>2, <1>3, <1>5
<1>8. Head(q) \in Range(q)
  BY <1>1, <1>2, <1>3
<1>9. ClaimsOnce(t)
  <2>1. ASSUME NEW i \in 1..Len(t), NEW j \in 1..Len(t), t[i].op = "claim", t[j].op = "claim",
               t[i].token[1] = t[j].token[1]
        PROVE  i = j
    <3>1. i + 1 = j + 1
      BY <1>1, <1>4, <2>1 DEF ClaimsOnce
    <3> QED
      BY <3>1
  <2> QED
    BY <1>1, <2>1 DEF ClaimsOnce
<1>10. ASSUME Head(q).op = "claim", NEW d \in Range(t), ClaimOf(d, Head(q).token[1])
       PROVE  FALSE
  <2>1. PICK i \in 1..Len(t) : d = q[i + 1]
    BY <1>1, <1>3
  <2>2. 1 = i + 1
    BY <1>1, <1>2, <1>4, <1>10, <2>1 DEF ClaimsOnce, ClaimOf
  <2> QED
    BY <2>2
<1> QED
  BY <1>1, <1>2, <1>6, <1>7, <1>8, <1>9, <1>10 DEF t

\* Commands that are no claims are sent.
LEMMA Joined ==
  ASSUME NEW q \in Seq(Call), ClaimsOnce(q), NEW r \in Seq(Call),
         \A c \in Range(r) : c.op # "claim"
  PROVE  /\ q \o r \in Seq(Call)
         /\ Range(q \o r) = Range(q) \cup Range(r)
         /\ ClaimsOnce(q \o r)
<1> DEFINE a == q \o r
<1>1. /\ a \in Seq(Call) /\ Len(a) = Len(q) + Len(r) /\ Len(q) \in Nat /\ Len(r) \in Nat
      /\ DOMAIN a = 1..Len(a) /\ DOMAIN q = 1..Len(q) /\ DOMAIN r = 1..Len(r)
      /\ \A i \in 1..Len(a) : a[i] = IF i <= Len(q) THEN q[i] ELSE r[i - Len(q)]
  BY ConcatProperties, LenProperties
<1>2. Range(a) = Range(q) \cup Range(r)
  BY RangeConcatenation
<1> HIDE DEF a
<1>3. \A i \in 1..Len(a) : a[i].op = "claim" => i \in 1..Len(q) /\ a[i] = q[i]
  <2>1. ASSUME NEW i \in 1..Len(a), ~ (i <= Len(q)) PROVE a[i].op # "claim"
    <3>1. i - Len(q) \in 1..Len(r) /\ a[i] = r[i - Len(q)]
      BY <1>1, <2>1
    <3> QED
      BY <1>1, <3>1 DEF Range
  <2> QED
    BY <1>1, <2>1
<1>4. ClaimsOnce(a)
  BY <1>1, <1>3 DEF ClaimsOnce
<1> QED
  BY <1>1, <1>2, <1>4 DEF a

\* Redis gives a command its reply, and the connection takes it back.
Replied(c, v) == [c EXCEPT !.reply = v]

\* Only its reply changes.
LEMMA RepliedType ==
  ASSUME NEW c \in Call, NEW v \in {"none", "yes", "no"}
  PROVE  /\ Replied(c, v) \in Call
         /\ Replied(c, v).op = c.op /\ Replied(c, v).sub = c.sub
         /\ Replied(c, v).token = c.token /\ Replied(c, v).reply = v
  BY DEF Call, Replied

\* One command of the queue gets a reply; the others stay as they are.
LEMMA OneReplied ==
  ASSUME NEW q \in Seq(Call), ClaimsOnce(q), NEW i \in DOMAIN q,
         NEW v \in {"none", "yes", "no"}
  PROVE  LET a == [q EXCEPT ![i] = Replied(q[i], v)]
         IN  /\ a \in Seq(Call) /\ ClaimsOnce(a)
             /\ Replied(q[i], v) \in Range(a)
             /\ \A d \in Range(a) : d \in Range(q) \/ d = Replied(q[i], v)
             /\ \A d \in Range(q) : d \in Range(a) \/ d = q[i]
<1> DEFINE a == [q EXCEPT ![i] = Replied(q[i], v)]
<1>1. i \in 1..Len(q) /\ DOMAIN q = 1..Len(q) /\ q[i] \in Call
  BY LenProperties, ElementOfSeq
<1>2. /\ Replied(q[i], v) \in Call
      /\ Replied(q[i], v).op = q[i].op /\ Replied(q[i], v).token = q[i].token
  BY <1>1, RepliedType
<1>3. /\ a \in Seq(Call) /\ Len(a) = Len(q) /\ DOMAIN a = 1..Len(q)
      /\ \A j \in 1..Len(q) : a[j] = IF j = i THEN Replied(q[i], v) ELSE q[j]
  BY <1>1, <1>2, ExceptSeq, LenProperties
<1> HIDE DEF a
<1>4. Range(q) = {q[j] : j \in 1..Len(q)} /\ Range(a) = {a[j] : j \in 1..Len(q)}
  BY <1>1, <1>3 DEF Range
<1>5. \A j \in 1..Len(q) : a[j].op = q[j].op /\ a[j].token = q[j].token
  BY <1>2, <1>3
<1>6. ClaimsOnce(a)
  BY <1>1, <1>3, <1>5 DEF ClaimsOnce
<1>7. Replied(q[i], v) \in Range(a)
  BY <1>1, <1>3, <1>4
<1>8. \A d \in Range(a) : d \in Range(q) \/ d = Replied(q[i], v)
  BY <1>3, <1>4
<1>9. \A d \in Range(q) : d \in Range(a) \/ d = q[i]
  BY <1>3, <1>4
<1> QED
  BY <1>3, <1>6, <1>7, <1>8, <1>9 DEF a

\* All commands are sent again, their replies lost.
LEMMA AllResent ==
  ASSUME NEW q \in Seq(Call), ClaimsOnce(q)
  PROVE  LET a == [i \in DOMAIN q |-> Replied(q[i], "none")]
         IN  /\ a \in Seq(Call) /\ ClaimsOnce(a)
             /\ \A d \in Range(a) : \E c \in Range(q) : d = Replied(c, "none")
             /\ \A c \in Range(q) : Replied(c, "none") \in Range(a)
<1> DEFINE a == [i \in DOMAIN q |-> Replied(q[i], "none")]
<1>1. Len(q) \in Nat /\ DOMAIN q = 1..Len(q) /\ \A i \in 1..Len(q) : q[i] \in Call
  BY LenProperties, ElementOfSeq
<1>2. \A i \in 1..Len(q) : /\ Replied(q[i], "none") \in Call
                           /\ Replied(q[i], "none").op = q[i].op
                           /\ Replied(q[i], "none").token = q[i].token
  BY <1>1, RepliedType
<1>3. a \in [1..Len(q) -> Call] /\ \A i \in 1..Len(q) : a[i] = Replied(q[i], "none")
  BY <1>1, <1>2
<1>4. a \in Seq(Call)
  BY <1>1, <1>3
<1> HIDE DEF a
<1>5. Range(q) = {q[j] : j \in 1..Len(q)} /\ Range(a) = {a[j] : j \in 1..Len(q)}
  BY <1>1, <1>3 DEF Range
<1>6. ClaimsOnce(a)
  BY <1>1, <1>2, <1>3 DEF ClaimsOnce
<1> QED
  BY <1>3, <1>4, <1>5, <1>6 DEF a

\* A finite set of releases as a sequence: nothing but them is sent.
LEMMA SetToSeqRange ==
  ASSUME NEW S, IsFiniteSet(S)
  PROVE  SetToSeq(S) \in Seq(S) /\ Range(SetToSeq(S)) \subseteq S
<1>1. \E f \in [1..Cardinality(S) -> S] : IsInjective(f)
  <2>1. Bijection(1..Cardinality(S), S) # {}
    BY FS_CardinalityType DEF ExistsBijection
  <2> QED
    BY <2>1 DEF Bijection, Injection
<1>2. SetToSeq(S) \in [1..Cardinality(S) -> S]
  BY <1>1 DEF SetToSeq
<1>3. SetToSeq(S) \in Seq(S)
  BY <1>2, FS_CardinalityType
<1> QED
  BY <1>3, RangeOfSeq

-----------------------------------------------------------------------------
(***************************************************************************)
(* The inductive invariant.                                                *)
(***************************************************************************)

\* The phases of a registration whose claims are all answered.
Settled == {"binding", "registered", "refused"}

\* A node's commands are a queue, with one claim of each socket at most.
Queues == calls \in [Node -> Seq(Call)] /\ \A n \in Node : ClaimsOnce(calls[n])

\* The token of an entry or a command is of a socket of that node.  A claim is
\* the one its socket waits for; whoever else has the token got it from a
\* claim that was answered.
OwnTokens ==
  /\ \A n \in Node, x \in Sub : bySubdomain[n][x] # None =>
       /\ Home[bySubdomain[n][x].token[1]] = n
       /\ phase[bySubdomain[n][x].token[1]] \in Settled
  /\ \A n \in Node : \A c \in Range(calls[n]) :
       /\ Home[c.token[1]] = n
       /\ c.op = "claim" => /\ phase[c.token[1]] = "claiming"
                            /\ c.token[2] = attemptsLeft[c.token[1]] + 1
       /\ c.op # "claim" => phase[c.token[1]] \in Settled

\* A node does not hold what it releases.
ReleasedTokens ==
  \A n \in Node : \A c \in Range(calls[n]) :
    c.op = "release" /\ bySubdomain[n][c.sub] # None => bySubdomain[n][c.sub].token # c.token

\* Who waits has sent its claim, and a socket that is not used has no phase.
Waits ==
  \A s \in Socket :
    /\ phase[s] = "claiming" => \E c \in Range(calls[Home[s]]) : ClaimOf(c, s)
    /\ phase[s] = "idle" <=> link[s] = "none"

Entries(n) == {x \in Sub : bySubdomain[n][x] # None}

\* A node has finitely many entries, each of the socket whose claim made it.
EntriesRight ==
  \A n \in Node :
    /\ IsFiniteSet(Entries(n))
    /\ \A x \in Entries(n) : bySubdomain[n][x].socket = bySubdomain[n][x].token[1]

\* A renewal that has not been granted.
Renewal(c, x, t) ==
  c.op = "heartbeat" /\ c.sub = x /\ c.token = t /\ c.reply \in {"none", "no"}

\* While Redis is healthy, the lease of an entry outlives it by the TTL, or a
\* renewal that says so is on its way; a claim that was granted has its lease.
LeaseOutlives ==
  healthy =>
    /\ \A n \in Node, x \in Sub :
         bySubdomain[n][x] # None /\ bySubdomain[n][x].idle < TTL =>
           \/ /\ lease[x] # None /\ lease[x].token = bySubdomain[n][x].token
              /\ lease[x].left + bySubdomain[n][x].idle >= TTL
           \/ \E c \in Range(calls[n]) : Renewal(c, x, bySubdomain[n][x].token)
    /\ \A n \in Node : \A c \in Range(calls[n]) :
         c.op = "claim" /\ c.reply = "yes" =>
           lease[c.sub] # None /\ lease[c.sub].token = c.token /\ lease[c.sub].left = TTL

Inv ==
  /\ TypeOK /\ Queues /\ OwnTokens /\ ReleasedTokens /\ Waits
  /\ EntriesRight /\ LeaseOutlives

\* No lease, no entry, no command.
LEMMA InitInv == Init => Inv
<1> SUFFICES ASSUME Init PROVE Inv
  OBVIOUS
<1>1. /\ calls \in [Node -> Seq(Call)]
      /\ \A n \in Node : calls[n] = <<>> /\ Range(calls[n]) = {} /\ DOMAIN calls[n] = {}
  BY EmptySeq DEF Init, Range
<1>2. TypeOK
  BY <1>1, LeaseAssumption DEF Init, TypeOK, Phase, Age, Stale
<1>3. Queues
  BY <1>1 DEF Queues, ClaimsOnce
<1>4. OwnTokens /\ ReleasedTokens /\ LeaseOutlives
  BY <1>1 DEF Init, OwnTokens, ReleasedTokens, LeaseOutlives
<1>5. Waits
  BY DEF Init, Waits
<1>6. EntriesRight
  <2>1. \A n \in Node : Entries(n) = {}
    BY DEF Init, Entries
  <2> QED
    BY <2>1, FS_EmptySet DEF EntriesRight
<1> QED
  BY <1>2, <1>3, <1>4, <1>5, <1>6 DEF Inv

-----------------------------------------------------------------------------
\* The commands of a queue, and the sockets their tokens are of.
LEMMA CallsType ==
  ASSUME Inv, NEW n \in Node
  PROVE  /\ calls[n] \in Seq(Call) /\ ClaimsOnce(calls[n])
         /\ \A c \in Range(calls[n]) :
              /\ c \in Call /\ c.sub \in Sub /\ c.token \in Token
              /\ c.token[1] \in Socket /\ c.token = <<c.token[1], c.token[2]>>
<1>1. calls[n] \in Seq(Call) /\ ClaimsOnce(calls[n])
  BY DEF Inv, Queues
<1>2. Range(calls[n]) \subseteq Call
  BY <1>1, RangeOfSeq
<1> QED
  BY <1>1, <1>2 DEF Call, Token

\* The type of a queue, as TypeOK states it.
LEMMA QueueTypes ==
  ASSUME NEW q \in Seq(Call)
  PROVE  \A i \in DOMAIN q : q[i] \in Call
  BY LenProperties, ElementOfSeq

\* A queue is replaced by another.
LEMMA QueueChanged ==
  ASSUME Inv, NEW n \in Node, NEW q \in Seq(Call), ClaimsOnce(q),
         calls' = [calls EXCEPT ![n] = q]
  PROVE  /\ Queues'
         /\ \A m \in Node : calls'[m] = IF m = n THEN q ELSE calls[m]
         /\ \A m \in Node : \A i \in DOMAIN calls'[m] : calls'[m][i] \in Call
<1>1. /\ calls' \in [Node -> Seq(Call)]
      /\ \A m \in Node : calls'[m] = IF m = n THEN q ELSE calls[m]
  BY DEF Inv, Queues
<1>2. Queues'
  BY <1>1 DEF Inv, Queues
<1> QED
  BY <1>1, <1>2, QueueTypes

\* An entry, and the socket its token is of.
LEMMA EntryType ==
  ASSUME Inv, NEW n \in Node, NEW x \in Sub, bySubdomain[n][x] # None
  PROVE  /\ bySubdomain[n][x] \in Entry
         /\ bySubdomain[n][x].token \in Token
         /\ bySubdomain[n][x].token[1] \in Socket
         /\ bySubdomain[n][x].socket = bySubdomain[n][x].token[1]
         /\ bySubdomain[n][x].idle \in Age
         /\ Home[bySubdomain[n][x].token[1]] = n
         /\ phase[bySubdomain[n][x].token[1]] \in Settled
<1>1. bySubdomain[n][x] \in Entry
  BY DEF Inv, TypeOK
<1>2. bySubdomain[n][x].socket = bySubdomain[n][x].token[1]
  BY DEF Inv, EntriesRight, Entries
<1>3. /\ Home[bySubdomain[n][x].token[1]] = n
      /\ phase[bySubdomain[n][x].token[1]] \in Settled
  BY DEF Inv, OwnTokens
<1> QED
  BY <1>1, <1>2, <1>3 DEF Entry, Token

\* How a registration goes on that neither sends nor has sent a claim.
PhaseMoves ==
  /\ phase' \in [Socket -> Phase]
  /\ \A s \in Socket : \/ phase'[s] = phase[s]
                       \/ phase[s] \in {"assign", "binding"} /\ phase'[s] \in Settled

\* It leaves the tokens to whom they belong.
LEMMA MovesKeepTokens ==
  ASSUME Inv, PhaseMoves, UNCHANGED <<bySubdomain, calls, attemptsLeft>>
  PROVE  OwnTokens'
<1>1. \A s \in Socket : /\ phase[s] = "claiming" => phase'[s] = "claiming"
                        /\ phase[s] \in Settled => phase'[s] \in Settled
  BY DEF PhaseMoves, Settled
<1>2. ASSUME NEW n \in Node, NEW x \in Sub, bySubdomain'[n][x] # None
      PROVE  /\ Home[bySubdomain'[n][x].token[1]] = n
             /\ phase'[bySubdomain'[n][x].token[1]] \in Settled
  BY <1>1, <1>2, EntryType
<1>3. ASSUME NEW n \in Node, NEW c \in Range(calls'[n])
      PROVE  /\ Home[c.token[1]] = n
             /\ c.op = "claim" => /\ phase'[c.token[1]] = "claiming"
                                  /\ c.token[2] = attemptsLeft'[c.token[1]] + 1
             /\ c.op # "claim" => phase'[c.token[1]] \in Settled
  BY <1>1, CallsType DEF Inv, OwnTokens
<1> QED
  BY <1>2, <1>3 DEF OwnTokens

\* Refuse, GoSilent and Registered: no queue, no entry and no lease changes.
LEMMA QuietInv ==
  ASSUME Inv, PhaseMoves,
         link' \in [Socket -> {"none", "open", "silent", "closed"}],
         \A s \in Socket : phase'[s] = "idle" <=> link'[s] = "none",
         startedAgo' \in [Socket -> Age],
         UNCHANGED <<healthy, lease, bySubdomain, calls, wanted, attemptsLeft, name>>
  PROVE  Inv'
<1>1. TypeOK'
  BY DEF Inv, TypeOK, PhaseMoves
<1>2. Queues' /\ ReleasedTokens' /\ LeaseOutlives' /\ EntriesRight'
  BY DEF Inv, Queues, ReleasedTokens, LeaseOutlives, EntriesRight, Entries
<1>3. OwnTokens'
  BY MovesKeepTokens
<1>4. Waits'
  BY DEF Inv, Waits, PhaseMoves, Settled
<1> QED
  BY <1>1, <1>2, <1>3, <1>4 DEF Inv

\* A registration is refused, a client goes silent, a port is bound.
LEMMA QuietActionsInv ==
  ASSUME Inv, NEW s \in Socket, Refuse(s) \/ GoSilent(s) \/ Registered(s)
  PROVE  Inv'
<1>1. CASE Refuse(s)
  <2>1. PhaseMoves /\ startedAgo' \in [Socket -> Age]
    BY <1>1, LeaseAssumption DEF Refuse, PhaseMoves, Inv, TypeOK, Phase, Settled, Age, Stale
  <2>2. \A z \in Socket : phase'[z] = "idle" <=> link'[z] = "none"
    BY <1>1 DEF Refuse, Inv, TypeOK, Waits
  <2> QED
    BY <1>1, <2>1, <2>2, QuietInv DEF Refuse, Inv, TypeOK
<1>2. CASE GoSilent(s)
  <2>1. PhaseMoves /\ link' \in [Socket -> {"none", "open", "silent", "closed"}]
    BY <1>2 DEF GoSilent, PhaseMoves, Inv, TypeOK
  <2>2. \A z \in Socket : phase'[z] = "idle" <=> link'[z] = "none"
    BY <1>2 DEF GoSilent, Inv, TypeOK, Waits
  <2> QED
    BY <1>2, <2>1, <2>2, QuietInv DEF GoSilent, Inv, TypeOK
<1>3. CASE Registered(s)
  <2>1. PhaseMoves
    BY <1>3 DEF Registered, PhaseMoves, Inv, TypeOK, Phase, Settled
  <2>2. \A z \in Socket : phase'[z] = "idle" <=> link'[z] = "none"
    BY <1>3 DEF Registered, Inv, TypeOK, Waits
  <2> QED
    BY <1>3, <2>1, <2>2, QuietInv DEF Registered, Inv, TypeOK
<1> QED
  BY <1>1, <1>2, <1>3

\* A client connects: no token is its socket's yet.
LEMMA AssignInv ==
  ASSUME Inv, NEW s \in Socket, NEW x \in Sub \cup {None}, Assign(s, x)
  PROVE  Inv'
<1>1. /\ link[s] = "none" /\ phase[s] = "idle"
      /\ link' = [link EXCEPT ![s] = "open"] /\ phase' = [phase EXCEPT ![s] = "assign"]
      /\ wanted' = [wanted EXCEPT ![s] = x]
      /\ attemptsLeft' = [attemptsLeft EXCEPT ![s] = IF x = None THEN MaxAttempts ELSE 1]
      /\ UNCHANGED <<healthy, lease, bySubdomain, calls, startedAgo, name>>
  BY DEF Assign, Inv, Waits
<1>2. TypeOK'
  BY <1>1, LeaseAssumption DEF Inv, TypeOK, Phase
<1>3. Queues' /\ ReleasedTokens' /\ LeaseOutlives' /\ EntriesRight'
  BY <1>1 DEF Inv, Queues, ReleasedTokens, LeaseOutlives, EntriesRight, Entries
<1>4. OwnTokens'
  <2>1. \A z \in Socket : phase[z] # "idle" =>
          phase'[z] = phase[z] /\ attemptsLeft'[z] = attemptsLeft[z]
    BY <1>1 DEF Inv, TypeOK
  <2>2. ASSUME NEW n \in Node, NEW y \in Sub, bySubdomain'[n][y] # None
        PROVE  /\ Home[bySubdomain'[n][y].token[1]] = n
               /\ phase'[bySubdomain'[n][y].token[1]] \in Settled
    BY <1>1, <2>1, <2>2, EntryType DEF Settled
  <2>3. ASSUME NEW n \in Node, NEW c \in Range(calls'[n])
        PROVE  /\ Home[c.token[1]] = n
               /\ c.op = "claim" => /\ phase'[c.token[1]] = "claiming"
                                    /\ c.token[2] = attemptsLeft'[c.token[1]] + 1
               /\ c.op # "claim" => phase'[c.token[1]] \in Settled
    BY <1>1, <2>1, CallsType DEF Inv, OwnTokens, Settled
  <2> QED
    BY <2>2, <2>3 DEF OwnTokens
<1>5. Waits'
  BY <1>1 DEF Inv, TypeOK, Waits
<1> QED
  BY <1>2, <1>3, <1>4, <1>5 DEF Inv

\* A claim is sent with a token that nobody has; a name this node serves costs
\* an attempt and sends nothing.
LEMMA tryClaimInv ==
  ASSUME Inv, NEW s \in Socket, NEW x \in Sub, tryClaim(s, x)
  PROVE  Inv'
<1> DEFINE n == Home[s]
           c == NewCall("claim", x, <<s, attemptsLeft[s]>>)
<1>1. /\ phase[s] = "assign" /\ attemptsLeft[s] > 0
      /\ attemptsLeft' = [attemptsLeft EXCEPT ![s] = @ - 1]
      /\ UNCHANGED <<healthy, lease, bySubdomain, link, wanted, startedAgo, name>>
      /\ n \in Node
  BY LeaseAssumption DEF tryClaim
<1>2. attemptsLeft[s] \in 1..MaxAttempts /\ attemptsLeft'[s] + 1 = attemptsLeft[s]
  BY <1>1, LeaseAssumption DEF Inv, TypeOK
<1>3. attemptsLeft' \in [Socket -> 0..MaxAttempts]
  BY <1>1, <1>2, LeaseAssumption DEF Inv, TypeOK
<1>4. CASE UNCHANGED <<calls, phase>>
  <2>1. TypeOK'
    BY <1>1, <1>3, <1>4 DEF Inv, TypeOK
  <2>2. Queues' /\ ReleasedTokens' /\ LeaseOutlives' /\ EntriesRight'
    BY <1>1, <1>4 DEF Inv, Queues, ReleasedTokens, LeaseOutlives, EntriesRight, Entries
  <2>3. OwnTokens'
    <3>1. \A z \in Socket : phase[z] = "claiming" => attemptsLeft'[z] = attemptsLeft[z]
      BY <1>1 DEF Inv, TypeOK
    <3>2. ASSUME NEW m \in Node, NEW d \in Range(calls'[m])
          PROVE  /\ Home[d.token[1]] = m
                 /\ d.op = "claim" => /\ phase'[d.token[1]] = "claiming"
                                      /\ d.token[2] = attemptsLeft'[d.token[1]] + 1
                 /\ d.op # "claim" => phase'[d.token[1]] \in Settled
      BY <1>4, <3>1, CallsType DEF Inv, OwnTokens
    <3> QED
      BY <1>1, <1>4, <3>2 DEF Inv, OwnTokens
  <2>4. Waits'
    BY <1>1, <1>4 DEF Inv, Waits
  <2> QED
    BY <2>1, <2>2, <2>3, <2>4 DEF Inv
<1>5. CASE /\ calls' = [calls EXCEPT ![n] = Append(@, c)]
           /\ phase' = [phase EXCEPT ![s] = "claiming"]
  <2>1. /\ c \in Call /\ c.op = "claim" /\ c.reply = "none" /\ c.sub = x
        /\ c.token[1] = s /\ c.token[2] = attemptsLeft[s]
    BY <1>2 DEF NewCall, Call, Token
  <2>2. \A d \in Range(calls[n]) : ~ ClaimOf(d, s)
    BY <1>1 DEF ClaimOf, Inv, OwnTokens
  <2> HIDE DEF c
  <2>3. /\ Append(calls[n], c) \in Seq(Call)
        /\ Range(Append(calls[n], c)) = Range(calls[n]) \cup {c}
        /\ ClaimsOnce(Append(calls[n], c))
    BY <1>1, <2>1, <2>2, CallsType, Appended
  <2>4. /\ Queues'
        /\ \A m \in Node : calls'[m] = IF m = n THEN Append(calls[n], c) ELSE calls[m]
        /\ \A m \in Node : \A i \in DOMAIN calls'[m] : calls'[m][i] \in Call
    BY <1>1, <1>5, <2>3, QueueChanged
  <2>5. /\ \A m \in Node : /\ Range(calls[m]) \subseteq Range(calls'[m])
                           /\ \A d \in Range(calls'[m]) : d \in Range(calls[m]) \/ (d = c /\ m = n)
        /\ c \in Range(calls'[n])
    BY <1>1, <2>3, <2>4
  <2>6. TypeOK'
    BY <1>1, <1>3, <1>5, <2>4 DEF Inv, TypeOK, Phase
  <2>7. \A z \in Socket : z # s => phase'[z] = phase[z] /\ attemptsLeft'[z] = attemptsLeft[z]
    BY <1>1, <1>5 DEF Inv, TypeOK
  <2>8. phase'[s] = "claiming"
    BY <1>5 DEF Inv, TypeOK
  <2>9. OwnTokens'
    <3>1. ASSUME NEW m \in Node, NEW y \in Sub, bySubdomain'[m][y] # None
          PROVE  /\ Home[bySubdomain'[m][y].token[1]] = m
                 /\ phase'[bySubdomain'[m][y].token[1]] \in Settled
      BY <1>1, <2>7, <3>1, EntryType DEF Settled
    <3>2. ASSUME NEW m \in Node, NEW d \in Range(calls[m])
          PROVE  /\ Home[d.token[1]] = m
                 /\ d.op = "claim" => /\ phase'[d.token[1]] = "claiming"
                                      /\ d.token[2] = attemptsLeft'[d.token[1]] + 1
                 /\ d.op # "claim" => phase'[d.token[1]] \in Settled
      <4>1. d.token[1] # s
        BY <1>1, CallsType DEF Inv, OwnTokens, Settled
      <4> QED
        BY <2>7, <4>1, CallsType DEF Inv, OwnTokens
    <3> QED
      BY <1>2, <2>1, <2>5, <2>8, <3>1, <3>2 DEF OwnTokens
  <2>10. ReleasedTokens'
    BY <1>1, <2>1, <2>5 DEF Inv, ReleasedTokens
  <2>11. Waits'
    <3>1. ASSUME NEW z \in Socket, phase'[z] = "claiming"
          PROVE  \E d \in Range(calls'[Home[z]]) : ClaimOf(d, z)
      <4>1. CASE z = s
        BY <2>1, <2>5, <4>1 DEF ClaimOf
      <4>2. CASE z # s
        <5>1. \E d \in Range(calls[Home[z]]) : ClaimOf(d, z)
          BY <2>7, <3>1, <4>2 DEF Inv, Waits
        <5>2. Home[z] \in Node
          BY LeaseAssumption
        <5> QED
          BY <2>5, <5>1, <5>2
      <4> QED
        BY <4>1, <4>2
    <3>2. \A z \in Socket : phase'[z] = "idle" <=> link'[z] = "none"
      BY <1>1, <2>7, <2>8 DEF Inv, Waits
    <3> QED
      BY <3>1, <3>2 DEF Waits
  <2>12. LeaseOutlives'
    BY <1>1, <2>1, <2>5 DEF Inv, LeaseOutlives
  <2>13. EntriesRight'
    BY <1>1 DEF Inv, EntriesRight, Entries
  <2> QED
    BY <2>4, <2>6, <2>9, <2>10, <2>11, <2>12, <2>13 DEF Inv
<1> QED
  BY <1>4, <1>5 DEF tryClaim, Send

-----------------------------------------------------------------------------
(***************************************************************************)
(* Names are given up.                                                     *)
(***************************************************************************)

\* What is sent for the entries that are dropped: releases of their tokens.
LEMMA ReleasesType ==
  ASSUME Inv, NEW n \in Node, NEW xs \in SUBSET Entries(n)
  PROVE  /\ Releases(n, xs) \in Seq(Call)
         /\ \A c \in Range(Releases(n, xs)) :
              \E x \in xs : c = NewCall("release", x, bySubdomain[n][x].token)
<1> DEFINE S == {NewCall("release", x, bySubdomain[n][x].token) : x \in xs}
<1>1. IsFiniteSet(xs)
  BY FS_Subset DEF Inv, EntriesRight
<1>2. IsFiniteSet(S)
  <2> DEFINE f == [x \in xs |-> NewCall("release", x, bySubdomain[n][x].token)]
  <2>1. f \in Surjection(xs, S)
    BY DEF Surjection
  <2> HIDE DEF f, S
  <2> QED
    BY <1>1, <2>1, FS_Surjection
<1>3. S \subseteq Call
  BY EntryType DEF Entries, NewCall, Call
<1>4. SetToSeq(S) \in Seq(S) /\ Range(SetToSeq(S)) \subseteq S
  BY <1>2, SetToSeqRange
<1>5. SetToSeq(S) \in Seq(Call)
  BY <1>3, <1>4, SeqMonotonic
<1> QED
  BY <1>4, <1>5 DEF Releases

\* Entries are dropped and released: whoever had their tokens has them no more.
LEMMA DropInv ==
  ASSUME Inv, NEW n \in Node, NEW xs \in SUBSET Entries(n), Drop(n, xs), PhaseMoves,
         link' \in [Socket -> {"none", "open", "silent", "closed"}],
         \A s \in Socket : phase'[s] = "idle" <=> link'[s] = "none",
         UNCHANGED <<healthy, lease, wanted, attemptsLeft, startedAgo, name>>
  PROVE  Inv'
<1> DEFINE r == Releases(n, xs)
<1>1. /\ calls' = [calls EXCEPT ![n] = @ \o r]
      /\ \A m \in Node, x \in Sub :
           bySubdomain'[m][x] = IF m = n /\ x \in xs THEN None ELSE bySubdomain[m][x]
      /\ bySubdomain' \in [Node -> [Sub -> Entry \cup {None}]]
  BY DEF Drop, Inv, TypeOK
<1>2. /\ r \in Seq(Call)
      /\ \A c \in Range(r) : \E x \in xs : c = NewCall("release", x, bySubdomain[n][x].token)
  BY ReleasesType
<1>3. \A c \in Range(r) : /\ c.op = "release" /\ c.sub \in xs
                          /\ c.token = bySubdomain[n][c.sub].token
  BY <1>2 DEF NewCall
<1> HIDE DEF r
<1>4. /\ calls[n] \o r \in Seq(Call)
      /\ Range(calls[n] \o r) = Range(calls[n]) \cup Range(r)
      /\ ClaimsOnce(calls[n] \o r)
  BY <1>2, <1>3, CallsType, Joined
<1>5. /\ Queues'
      /\ \A m \in Node : calls'[m] = IF m = n THEN calls[n] \o r ELSE calls[m]
      /\ \A m \in Node : \A i \in DOMAIN calls'[m] : calls'[m][i] \in Call
  BY <1>1, <1>4, QueueChanged
<1>6. \A m \in Node : /\ Range(calls[m]) \subseteq Range(calls'[m])
                      /\ \A d \in Range(calls'[m]) : d \in Range(calls[m])
                                                     \/ (d \in Range(r) /\ m = n)
  BY <1>4, <1>5
<1>7. TypeOK'
  BY <1>1, <1>5 DEF Inv, TypeOK, PhaseMoves
<1>8. \A s \in Socket : /\ phase[s] = "claiming" => phase'[s] = "claiming"
                        /\ phase[s] \in Settled => phase'[s] \in Settled
                        /\ phase'[s] = "claiming" => phase[s] = "claiming"
  BY DEF PhaseMoves, Settled
<1>9. OwnTokens'
  <2>1. ASSUME NEW m \in Node, NEW x \in Sub, bySubdomain'[m][x] # None
        PROVE  /\ Home[bySubdomain'[m][x].token[1]] = m
               /\ phase'[bySubdomain'[m][x].token[1]] \in Settled
    BY <1>1, <1>8, <2>1, EntryType
  <2>2. ASSUME NEW m \in Node, NEW d \in Range(calls[m])
        PROVE  /\ Home[d.token[1]] = m
               /\ d.op = "claim" => /\ phase'[d.token[1]] = "claiming"
                                    /\ d.token[2] = attemptsLeft'[d.token[1]] + 1
               /\ d.op # "claim" => phase'[d.token[1]] \in Settled
    <3>1. d.token[1] \in Socket
      BY CallsType
    <3>2. /\ Home[d.token[1]] = m
          /\ d.op = "claim" => /\ phase[d.token[1]] = "claiming"
                               /\ d.token[2] = attemptsLeft[d.token[1]] + 1
          /\ d.op # "claim" => phase[d.token[1]] \in Settled
      BY DEF Inv, OwnTokens
    <3> QED
      BY <1>8, <3>1, <3>2
  <2>3. ASSUME NEW d \in Range(r)
        PROVE  /\ Home[d.token[1]] = n /\ d.op # "claim"
               /\ phase'[d.token[1]] \in Settled
    <3>1. d.sub \in Sub /\ bySubdomain[n][d.sub] # None
      BY <1>3 DEF Entries
    <3> QED
      BY <1>3, <1>8, <3>1, EntryType
  <2> QED
    BY <1>6, <2>1, <2>2, <2>3 DEF OwnTokens
<1>10. ReleasedTokens'
  <2>1. ASSUME NEW m \in Node, NEW d \in Range(calls[m]), d.op = "release",
               bySubdomain'[m][d.sub] # None
        PROVE  bySubdomain'[m][d.sub].token # d.token
    BY <1>1, <2>1, CallsType DEF Inv, ReleasedTokens
  <2>2. \A d \in Range(r) : bySubdomain'[n][d.sub] = None
    BY <1>1, <1>3 DEF Entries
  <2> QED
    BY <1>6, <2>1, <2>2 DEF ReleasedTokens
<1>11. Waits'
  BY <1>6, <1>8, LeaseAssumption DEF Inv, Waits
<1>12. EntriesRight'
  <2>1. ASSUME NEW m \in Node
        PROVE  /\ Entries(m)' \subseteq Entries(m)
               /\ \A x \in Entries(m)' : bySubdomain'[m][x] = bySubdomain[m][x]
    BY <1>1 DEF Entries
  <2>2. \A m \in Node : IsFiniteSet(Entries(m)')
    BY <2>1, FS_Subset DEF Inv, EntriesRight
  <2> QED
    BY <2>1, <2>2 DEF Inv, EntriesRight
<1>13. LeaseOutlives'
  <2> SUFFICES ASSUME healthy' PROVE LeaseOutlives'
    BY DEF LeaseOutlives
  <2>1. ASSUME NEW m \in Node, NEW x \in Sub, bySubdomain'[m][x] # None,
               bySubdomain'[m][x].idle < TTL
        PROVE  \/ /\ lease'[x] # None /\ lease'[x].token = bySubdomain'[m][x].token
                  /\ lease'[x].left + bySubdomain'[m][x].idle >= TTL
               \/ \E c \in Range(calls'[m]) : Renewal(c, x, bySubdomain'[m][x].token)
    <3>1. bySubdomain'[m][x] = bySubdomain[m][x]
      BY <1>1, <2>1
    <3> QED
      BY <1>6, <2>1, <3>1 DEF Inv, LeaseOutlives
  <2>2. ASSUME NEW m \in Node, NEW c \in Range(calls'[m]), c.op = "claim", c.reply = "yes"
        PROVE  lease'[c.sub] # None /\ lease'[c.sub].token = c.token /\ lease'[c.sub].left = TTL
    BY <1>3, <1>6, <2>2 DEF Inv, LeaseOutlives
  <2> QED
    BY <2>1, <2>2 DEF LeaseOutlives
<1> QED
  BY <1>7, <1>5, <1>9, <1>10, <1>11, <1>12, <1>13 DEF Inv

\* A close event, a port that could not be bound, the sweep of stale sockets and
\* the look-up that meets one.
LEMMA DropActionsInv ==
  ASSUME Inv,
         \/ \E s \in Socket : Disconnect(s) \/ UndoRegistration(s)
         \/ \E n \in Node : sweepStaleSockets(n) \/ \E x \in Sub : findBySubdomain(n, x)
  PROVE  Inv'
<1>1. ASSUME NEW s \in Socket, Disconnect(s) PROVE Inv'
  <2>1. Home[s] \in Node /\ NamesOf(s) \in SUBSET Entries(Home[s])
    BY LeaseAssumption DEF NamesOf, Entries
  <2>2. PhaseMoves /\ link' \in [Socket -> {"none", "open", "silent", "closed"}]
    BY <1>1 DEF Disconnect, PhaseMoves, Inv, TypeOK
  <2>3. \A z \in Socket : phase'[z] = "idle" <=> link'[z] = "none"
    BY <1>1 DEF Disconnect, Inv, TypeOK, Waits
  <2> QED
    BY <1>1, <2>1, <2>2, <2>3, DropInv DEF Disconnect, removeBySocket
<1>2. ASSUME NEW s \in Socket, UndoRegistration(s) PROVE Inv'
  <2>1. Home[s] \in Node /\ NamesOf(s) \in SUBSET Entries(Home[s])
    BY LeaseAssumption DEF NamesOf, Entries
  <2>2. PhaseMoves /\ link' \in [Socket -> {"none", "open", "silent", "closed"}]
    BY <1>2 DEF UndoRegistration, PhaseMoves, Inv, TypeOK, Phase, Settled
  <2>3. \A z \in Socket : phase'[z] = "idle" <=> link'[z] = "none"
    BY <1>2 DEF UndoRegistration, Inv, TypeOK, Waits
  <2> QED
    BY <1>2, <2>1, <2>2, <2>3, DropInv DEF UndoRegistration, removeBySocket
<1>3. ASSUME NEW n \in Node, NEW xs \in SUBSET StaleAt(n), ForceClose(n, xs) PROVE Inv'
  <2>1. xs \in SUBSET Entries(n)
    BY DEF StaleAt, Entries
  <2>2. PhaseMoves /\ link' \in [Socket -> {"none", "open", "silent", "closed"}]
    BY <1>3 DEF ForceClose, PhaseMoves, Inv, TypeOK
  <2>3. ASSUME NEW z \in Socket PROVE link'[z] = "none" <=> link[z] = "none"
    <3>1. ASSUME NEW x \in xs, bySubdomain[n][x].socket = z PROVE link[z] # "none"
      BY <2>1, <3>1, EntryType DEF Entries, Settled, Inv, Waits
    <3> QED
      BY <1>3, <3>1 DEF ForceClose
  <2> QED
    BY <1>3, <2>1, <2>2, <2>3, DropInv DEF ForceClose, Inv, Waits
<1> QED
  BY <1>1, <1>2, <1>3 DEF sweepStaleSockets, findBySubdomain

-----------------------------------------------------------------------------
(***************************************************************************)
(* Names are kept.                                                         *)
(***************************************************************************)

\* A heartbeat makes its entry a fresh one, with a renewal on its way.
LEMMA heartbeatInv ==
  ASSUME Inv, NEW s \in Socket, heartbeat(s)
  PROVE  Inv'
<1> DEFINE n == Home[s]
           x == name[s]
           e == bySubdomain[n][x]
           c == NewCall("heartbeat", x, e.token)
<1>1. /\ n \in Node /\ x \in Sub /\ e # None
      /\ bySubdomain' = [bySubdomain EXCEPT ![n][x].idle = 0]
      /\ calls' = [calls EXCEPT ![n] = Append(calls[n], c)]
      /\ UNCHANGED <<healthy, lease, link, phase, wanted, attemptsLeft, startedAgo, name>>
  BY LeaseAssumption DEF heartbeat, Send, registration, Inv, TypeOK
<1>2. /\ e \in Entry /\ e.token \in Token /\ e.token[1] \in Socket
      /\ e.socket = e.token[1] /\ Home[e.token[1]] = n /\ phase[e.token[1]] \in Settled
  BY <1>1, EntryType
<1>3. /\ c \in Call /\ c.op = "heartbeat" /\ c.sub = x /\ c.token = e.token
      /\ c.reply = "none"
  BY <1>1, <1>2 DEF NewCall, Call
<1> HIDE DEF c
<1>4. /\ bySubdomain' \in [Node -> [Sub -> Entry \cup {None}]]
      /\ bySubdomain'[n][x] # None
      /\ bySubdomain'[n][x].token = e.token /\ bySubdomain'[n][x].socket = e.socket
      /\ bySubdomain'[n][x].idle = 0
      /\ \A m \in Node, y \in Sub :
           m # n \/ y # x => bySubdomain'[m][y] = bySubdomain[m][y]
  <2> DEFINE f == [e EXCEPT !.idle = 0]
  <2>1. f \in Entry /\ f.token = e.token /\ f.socket = e.socket /\ f.idle = 0
    BY <1>2, LeaseAssumption DEF Entry, Age, Stale
  <2>2. bySubdomain' = [bySubdomain EXCEPT ![n] = [bySubdomain[n] EXCEPT ![x] = f]]
    BY <1>1
  <2> HIDE DEF f, n, x, e
  <2> DEFINE g == [bySubdomain[n] EXCEPT ![x] = f]
  <2>5. bySubdomain \in [Node -> [Sub -> Entry \cup {None}]]
    BY DEF Inv, TypeOK
  <2>6. /\ g \in [Sub -> Entry \cup {None}] /\ g[x] = f
        /\ \A y \in Sub : y # x => g[y] = bySubdomain[n][y]
    BY <1>1, <2>1, <2>5
  <2>7. bySubdomain' = [bySubdomain EXCEPT ![n] = g]
    BY <2>2
  <2> HIDE DEF g
  <2>3. /\ bySubdomain'[n][x] = f
        /\ bySubdomain' \in [Node -> [Sub -> Entry \cup {None}]]
        /\ \A m \in Node, y \in Sub :
             m # n \/ y # x => bySubdomain'[m][y] = bySubdomain[m][y]
    BY <1>1, <2>5, <2>6, <2>7
  <2>4. f # None
    BY <2>1, LeaseAssumption
  <2> QED
    BY <2>1, <2>3, <2>4
<1>5. \A m \in Node, y \in Sub :
        /\ bySubdomain'[m][y] = None <=> bySubdomain[m][y] = None
        /\ bySubdomain'[m][y] # None => /\ bySubdomain'[m][y].token = bySubdomain[m][y].token
                                        /\ bySubdomain'[m][y].socket = bySubdomain[m][y].socket
  <2> HIDE DEF n, x
  <2> QED
    BY <1>1, <1>4
<1>6. /\ Append(calls[n], c) \in Seq(Call)
      /\ Range(Append(calls[n], c)) = Range(calls[n]) \cup {c}
      /\ ClaimsOnce(Append(calls[n], c))
  BY <1>1, <1>3, CallsType, Appended
<1>7. /\ Queues'
      /\ \A m \in Node : calls'[m] = IF m = n THEN Append(calls[n], c) ELSE calls[m]
      /\ \A m \in Node : \A i \in DOMAIN calls'[m] : calls'[m][i] \in Call
  BY <1>1, <1>6, QueueChanged
<1>8. /\ \A m \in Node : /\ Range(calls[m]) \subseteq Range(calls'[m])
                         /\ \A d \in Range(calls'[m]) : d \in Range(calls[m]) \/ (d = c /\ m = n)
      /\ c \in Range(calls'[n])
  BY <1>1, <1>6, <1>7
<1> HIDE DEF n, x, e
<1>9. TypeOK'
  BY <1>1, <1>4, <1>7 DEF Inv, TypeOK
<1>10. OwnTokens'
  <2>1. ASSUME NEW m \in Node, NEW y \in Sub, bySubdomain'[m][y] # None
        PROVE  /\ Home[bySubdomain'[m][y].token[1]] = m
               /\ phase'[bySubdomain'[m][y].token[1]] \in Settled
    BY <1>1, <1>5, <2>1, EntryType
  <2>2. ASSUME NEW m \in Node, NEW d \in Range(calls'[m])
        PROVE  /\ Home[d.token[1]] = m
               /\ d.op = "claim" => /\ phase'[d.token[1]] = "claiming"
                                    /\ d.token[2] = attemptsLeft'[d.token[1]] + 1
               /\ d.op # "claim" => phase'[d.token[1]] \in Settled
    <3>1. CASE d \in Range(calls[m])
      BY <1>1, <3>1 DEF Inv, OwnTokens
    <3>2. CASE d = c /\ m = n
      BY <1>1, <1>2, <1>3, <3>2
    <3> QED
      BY <1>8, <3>1, <3>2
  <2> QED
    BY <2>1, <2>2 DEF OwnTokens
<1>11. ReleasedTokens'
  <2>1. ASSUME NEW m \in Node, NEW d \in Range(calls'[m]), d.op = "release",
               bySubdomain'[m][d.sub] # None
        PROVE  bySubdomain'[m][d.sub].token # d.token
    <3>1. d \in Range(calls[m]) /\ d.sub \in Sub
      BY <1>3, <1>8, <2>1, CallsType
    <3> QED
      BY <1>5, <2>1, <3>1 DEF Inv, ReleasedTokens
  <2> QED
    BY <2>1 DEF ReleasedTokens
<1>12. Waits'
  BY <1>1, <1>8, LeaseAssumption DEF Inv, Waits
<1>13. EntriesRight'
  <2>1. \A m \in Node : Entries(m)' = Entries(m)
    BY <1>5 DEF Entries
  <2> QED
    BY <1>5, <2>1 DEF Inv, EntriesRight, Entries
<1>14. LeaseOutlives'
  <2>1. ASSUME healthy', NEW m \in Node, NEW y \in Sub, bySubdomain'[m][y] # None,
               bySubdomain'[m][y].idle < TTL
        PROVE  \/ /\ lease'[y] # None /\ lease'[y].token = bySubdomain'[m][y].token
                  /\ lease'[y].left + bySubdomain'[m][y].idle >= TTL
               \/ \E d \in Range(calls'[m]) : Renewal(d, y, bySubdomain'[m][y].token)
    <3>1. CASE m = n /\ y = x
      <4>1. Renewal(c, y, bySubdomain'[m][y].token)
        BY <1>3, <1>4, <3>1 DEF Renewal
      <4> QED
        BY <1>8, <3>1, <4>1
    <3>2. CASE m # n \/ y # x
      <4>1. bySubdomain'[m][y] = bySubdomain[m][y]
        BY <1>4, <3>2
      <4> QED
        BY <1>1, <1>8, <2>1, <4>1 DEF Inv, LeaseOutlives
    <3> QED
      BY <3>1, <3>2
  <2>2. ASSUME healthy', NEW m \in Node, NEW d \in Range(calls'[m]), d.op = "claim",
               d.reply = "yes"
        PROVE  lease'[d.sub] # None /\ lease'[d.sub].token = d.token /\ lease'[d.sub].left = TTL
    <3>1. d \in Range(calls[m])
      BY <1>3, <1>8, <2>2
    <3> QED
      BY <1>1, <2>2, <3>1 DEF Inv, LeaseOutlives
  <2> QED
    BY <2>1, <2>2 DEF LeaseOutlives
<1> QED
  BY <1>7, <1>9, <1>10, <1>11, <1>12, <1>13, <1>14 DEF Inv

-----------------------------------------------------------------------------
(***************************************************************************)
(* The reply to the oldest command reaches the node.                       *)
(***************************************************************************)

\* Commands that are no claims leave a queue, and nothing else changes: they
\* were no renewals that an entry is waiting for.
LEMMA FewerCallsInv ==
  ASSUME Inv, NEW n \in Node, NEW q \in Seq(Call), ClaimsOnce(q),
         Range(q) \subseteq Range(calls[n]),
         \A d \in Range(calls[n]) \ Range(q) :
           /\ d.op # "claim"
           /\ \A y \in Sub : bySubdomain[n][y] # None =>
                ~ Renewal(d, y, bySubdomain[n][y].token),
         calls' = [calls EXCEPT ![n] = q],
         UNCHANGED <<healthy, lease, bySubdomain, link, phase, wanted, attemptsLeft,
                     startedAgo, name>>
  PROVE  Inv'
<1>1. /\ Queues'
      /\ \A m \in Node : calls'[m] = IF m = n THEN q ELSE calls[m]
      /\ \A m \in Node : \A i \in DOMAIN calls'[m] : calls'[m][i] \in Call
  BY QueueChanged
<1>2. \A m \in Node : Range(calls'[m]) \subseteq Range(calls[m])
  BY <1>1
<1>3. \A m \in Node : \A d \in Range(calls[m]) : d \in Range(calls'[m]) \/
        (m = n /\ d \in Range(calls[n]) \ Range(q))
  BY <1>1
<1>4. TypeOK'
  BY <1>1 DEF Inv, TypeOK
<1>5. OwnTokens' /\ ReleasedTokens' /\ EntriesRight'
  <2>1. OwnTokens'
    BY <1>2 DEF Inv, OwnTokens
  <2>2. ReleasedTokens'
    BY <1>2 DEF Inv, ReleasedTokens
  <2>3. EntriesRight'
    BY DEF Inv, EntriesRight, Entries
  <2> QED
    BY <2>1, <2>2, <2>3
<1>6. Waits'
  BY <1>3, LeaseAssumption DEF Inv, Waits, ClaimOf
<1>7. LeaseOutlives'
  <2>1. ASSUME NEW m \in Node, NEW y \in Sub, bySubdomain[m][y] # None,
               NEW d \in Range(calls[m]), Renewal(d, y, bySubdomain[m][y].token)
        PROVE  d \in Range(calls'[m])
    BY <1>3, <2>1
  <2> QED
    BY <1>2, <2>1 DEF Inv, LeaseOutlives
<1> QED
  BY <1>1, <1>4, <1>5, <1>6, <1>7 DEF Inv

\* A claim is answered.  The node files an entry only for a claim that was
\* granted, whose token nothing else has.
LEMMA ClaimAnsweredInv ==
  ASSUME Inv, NEW n \in Node, calls[n] # <<>>, Head(calls[n]).op = "claim",
         ClaimAnswered(Head(calls[n]))
  PROVE  Inv'
<1> DEFINE c == Head(calls[n])
           q == Tail(calls[n])
           s == c.token[1]
<1>1. /\ q \in Seq(Call) /\ ClaimsOnce(q) /\ c \in Range(calls[n])
      /\ Range(q) \subseteq Range(calls[n]) /\ Range(calls[n]) \subseteq Range(q) \cup {c}
      /\ \A d \in Range(q) : ~ ClaimOf(d, s)
  BY CallsType, HeadAnswered
<1>2. /\ c.sub \in Sub /\ c.token \in Token /\ s \in Socket
      /\ Home[s] = n /\ phase[s] = "claiming" /\ c.op = "claim"
  BY <1>1, CallsType DEF Inv, OwnTokens
<1> HIDE DEF c, q
<1>3. /\ calls' = [calls EXCEPT ![n] = q]
      /\ UNCHANGED <<healthy, lease, link, wanted, attemptsLeft>>
      /\ \/ /\ c.reply = "yes"
            /\ bySubdomain' = [bySubdomain EXCEPT ![n][c.sub] =
                   [socket |-> s, token |-> c.token, idle |-> startedAgo[s]]]
            /\ phase' = [phase EXCEPT ![s] = "binding"]
            /\ name' = [name EXCEPT ![s] = c.sub]
            /\ startedAgo' = [startedAgo EXCEPT ![s] = 0]
         \/ /\ phase' = [phase EXCEPT ![s] = "assign"]
            /\ UNCHANGED <<bySubdomain, name, startedAgo>>
  BY <1>2 DEF ClaimAnswered, c, q
<1> HIDE DEF s
<1>4. /\ Queues'
      /\ \A m \in Node : calls'[m] = IF m = n THEN q ELSE calls[m]
      /\ \A m \in Node : \A i \in DOMAIN calls'[m] : calls'[m][i] \in Call
  BY <1>1, <1>3, QueueChanged
<1>5. \A m \in Node : /\ Range(calls'[m]) \subseteq Range(calls[m])
                      /\ \A d \in Range(calls[m]) : d \in Range(calls'[m]) \/ d = c
  BY <1>1, <1>4
<1>6. /\ \A z \in Socket : z # s => phase'[z] = phase[z]
      /\ phase'[s] \in {"binding", "assign"} /\ phase' \in [Socket -> Phase]
  BY <1>2, <1>3 DEF Inv, TypeOK, Phase
<1>7. ASSUME NEW m \in Node, NEW d \in Range(calls'[m])
      PROVE  /\ Home[d.token[1]] = m
             /\ d.op = "claim" => /\ phase'[d.token[1]] = "claiming"
                                  /\ d.token[2] = attemptsLeft'[d.token[1]] + 1
             /\ d.op # "claim" => phase'[d.token[1]] \in Settled
             /\ d.token[1] # s
  <2>1. d \in Range(calls[m]) /\ d.token[1] \in Socket
    BY <1>5, CallsType
  <2>2. /\ Home[d.token[1]] = m
        /\ d.op = "claim" => /\ phase[d.token[1]] = "claiming"
                             /\ d.token[2] = attemptsLeft[d.token[1]] + 1
        /\ d.op # "claim" => phase[d.token[1]] \in Settled
    BY <2>1 DEF Inv, OwnTokens
  <2>3. d.token[1] # s
    <3>1. CASE d.op = "claim"
      BY <1>1, <1>2, <1>4, <2>2, <3>1 DEF ClaimOf
    <3>2. CASE d.op # "claim"
      BY <1>2, <2>2, <3>2 DEF Settled
    <3> QED
      BY <3>1, <3>2
  <2> QED
    BY <1>3, <1>6, <2>1, <2>2, <2>3
<1>8. Waits'
  <2>1. ASSUME NEW z \in Socket, phase'[z] = "claiming"
        PROVE  \E d \in Range(calls'[Home[z]]) : ClaimOf(d, z)
    <3>1. z # s /\ phase[z] = "claiming" /\ Home[z] \in Node
      BY <1>6, <2>1, LeaseAssumption
    <3>2. PICK d \in Range(calls[Home[z]]) : ClaimOf(d, z)
      BY <3>1 DEF Inv, Waits
    <3>3. d # c
      BY <3>1, <3>2 DEF ClaimOf, s
    <3> QED
      BY <1>5, <3>1, <3>2, <3>3
  <2>2. \A z \in Socket : phase'[z] = "idle" <=> link'[z] = "none"
    BY <1>2, <1>3, <1>6 DEF Inv, Waits
  <2> QED
    BY <2>1, <2>2 DEF Waits
<1>9. ASSUME NEW m \in Node, NEW d \in Range(calls[m]), d.op # "claim"
      PROVE  d \in Range(calls'[m])
  BY <1>2, <1>5, <1>9
<1>10. CASE UNCHANGED <<bySubdomain, name, startedAgo>>
  <2>1. TypeOK'
    BY <1>3, <1>4, <1>6, <1>10 DEF Inv, TypeOK
  <2>2. OwnTokens'
    <3>1. ASSUME NEW m \in Node, NEW x \in Sub, bySubdomain'[m][x] # None
          PROVE  /\ Home[bySubdomain'[m][x].token[1]] = m
                 /\ phase'[bySubdomain'[m][x].token[1]] \in Settled
      BY <1>2, <1>6, <1>10, <3>1, EntryType DEF Settled
    <3> QED
      BY <1>7, <3>1 DEF OwnTokens
  <2>3. ReleasedTokens' /\ EntriesRight'
    BY <1>5, <1>10 DEF Inv, ReleasedTokens, EntriesRight, Entries
  <2>4. LeaseOutlives'
    <3>1. ASSUME NEW m \in Node, NEW x \in Sub, NEW t, NEW d \in Range(calls[m]), Renewal(d, x, t)
          PROVE  d \in Range(calls'[m])
      BY <1>9, <3>1 DEF Renewal
    <3> QED
      BY <1>3, <1>5, <1>10, <3>1 DEF Inv, LeaseOutlives
  <2> QED
    BY <1>4, <1>8, <2>1, <2>2, <2>3, <2>4 DEF Inv
<1>11. ASSUME c.reply = "yes",
              bySubdomain' = [bySubdomain EXCEPT ![n][c.sub] =
                   [socket |-> s, token |-> c.token, idle |-> startedAgo[s]]],
              phase' = [phase EXCEPT ![s] = "binding"],
              name' = [name EXCEPT ![s] = c.sub],
              startedAgo' = [startedAgo EXCEPT ![s] = 0]
       PROVE  Inv'
  <2> DEFINE e == [socket |-> s, token |-> c.token, idle |-> startedAgo[s]]
  <2>1. e \in Entry /\ e.token = c.token /\ e.socket = s /\ e.idle = startedAgo[s] /\ e.idle \in Nat
    BY <1>2, LeaseAssumption DEF Inv, TypeOK, Entry, Age, Stale
  <2> HIDE DEF e
  <2>2. e # None
    BY <2>1, LeaseAssumption
  <2>3. /\ bySubdomain' \in [Node -> [Sub -> Entry \cup {None}]]
        /\ \A m \in Node, x \in Sub :
             bySubdomain'[m][x] = IF m = n /\ x = c.sub THEN e ELSE bySubdomain[m][x]
    BY <1>2, <1>11, <2>1 DEF Inv, TypeOK, e
  <2>4. startedAgo' \in [Socket -> Age] /\ name' \in [Socket -> Sub \cup {None}]
    BY <1>2, <1>11, LeaseAssumption DEF Inv, TypeOK, Age, Stale
  <2>5. TypeOK'
    BY <1>3, <1>4, <1>6, <2>3, <2>4 DEF Inv, TypeOK
  <2>6. phase'[s] = "binding"
    BY <1>2, <1>11 DEF Inv, TypeOK
  <2>7. OwnTokens'
    <3>1. ASSUME NEW m \in Node, NEW x \in Sub, bySubdomain'[m][x] # None
          PROVE  /\ Home[bySubdomain'[m][x].token[1]] = m
                 /\ phase'[bySubdomain'[m][x].token[1]] \in Settled
      <4>1. CASE m = n /\ x = c.sub
        BY <1>2, <2>1, <2>3, <2>6, <4>1 DEF Settled, s
      <4>2. CASE ~ (m = n /\ x = c.sub)
        <5>1. bySubdomain'[m][x] = bySubdomain[m][x] /\ bySubdomain[m][x] # None
          BY <2>3, <3>1, <4>2
        <5> QED
          BY <1>2, <1>6, <5>1, EntryType DEF Settled
      <4> QED
        BY <4>1, <4>2
    <3> QED
      BY <1>7, <3>1 DEF OwnTokens
  <2>8. ReleasedTokens'
    <3>1. ASSUME NEW m \in Node, NEW d \in Range(calls'[m]), d.op = "release",
                 bySubdomain'[m][d.sub] # None
          PROVE  bySubdomain'[m][d.sub].token # d.token
      <4>1. d \in Range(calls[m]) /\ d.sub \in Sub /\ d.token[1] # s
        BY <1>5, <1>7, CallsType
      <4>2. CASE m = n /\ d.sub = c.sub
        BY <2>1, <2>3, <4>1, <4>2 DEF s
      <4>3. CASE ~ (m = n /\ d.sub = c.sub)
        BY <2>3, <3>1, <4>1, <4>3 DEF Inv, ReleasedTokens
      <4> QED
        BY <4>2, <4>3
    <3> QED
      BY <3>1 DEF ReleasedTokens
  <2>9. EntriesRight'
    <3>1. ASSUME NEW m \in Node PROVE IsFiniteSet(Entries(m)')
      <4>1. Entries(m)' \subseteq Entries(m) \cup {c.sub}
        BY <2>3 DEF Entries
      <4>2. IsFiniteSet(Entries(m) \cup {c.sub})
        BY FS_AddElement DEF Inv, EntriesRight
      <4> QED
        BY <4>1, <4>2, FS_Subset
    <3>2. ASSUME NEW m \in Node, NEW x \in Entries(m)'
          PROVE  bySubdomain'[m][x].socket = bySubdomain'[m][x].token[1]
      <4>1. x \in Sub /\ bySubdomain'[m][x] # None
        BY <3>2 DEF Entries
      <4>2. CASE m = n /\ x = c.sub
        BY <2>1, <2>3, <4>1, <4>2 DEF s
      <4>3. CASE ~ (m = n /\ x = c.sub)
        BY <2>3, <4>1, <4>3, EntryType
      <4> QED
        BY <4>2, <4>3
    <3> QED
      BY <3>1, <3>2 DEF EntriesRight
  <2>10. LeaseOutlives'
    <3>1. ASSUME healthy', NEW m \in Node, NEW x \in Sub, bySubdomain'[m][x] # None,
                 bySubdomain'[m][x].idle < TTL
          PROVE  \/ /\ lease'[x] # None /\ lease'[x].token = bySubdomain'[m][x].token
                    /\ lease'[x].left + bySubdomain'[m][x].idle >= TTL
                 \/ \E d \in Range(calls'[m]) : Renewal(d, x, bySubdomain'[m][x].token)
      <4>1. CASE m = n /\ x = c.sub
        <5>1. lease[x] # None /\ lease[x].token = c.token /\ lease[x].left = TTL
          BY <1>1, <1>2, <1>3, <1>11, <3>1, <4>1 DEF Inv, LeaseOutlives
        <5>2. lease'[x] = lease[x] /\ bySubdomain'[m][x] = e
          BY <1>3, <2>3, <4>1
        <5>3. TTL + e.idle >= TTL
          BY <2>1, LeaseAssumption
        <5> QED
          BY <2>1, <5>1, <5>2, <5>3
      <4>2. CASE ~ (m = n /\ x = c.sub)
        <5>1. bySubdomain'[m][x] = bySubdomain[m][x]
          BY <2>3, <4>2
        <5>2. CASE \E d \in Range(calls[m]) : Renewal(d, x, bySubdomain[m][x].token)
          BY <1>9, <5>1, <5>2 DEF Renewal
        <5> QED
          BY <1>3, <3>1, <5>1, <5>2 DEF Inv, LeaseOutlives
      <4> QED
        BY <4>1, <4>2
    <3>2. ASSUME healthy', NEW m \in Node, NEW d \in Range(calls'[m]), d.op = "claim",
                 d.reply = "yes"
          PROVE  lease'[d.sub] # None /\ lease'[d.sub].token = d.token /\ lease'[d.sub].left = TTL
      BY <1>3, <1>5, <3>2 DEF Inv, LeaseOutlives
    <3> QED
      BY <3>1, <3>2 DEF LeaseOutlives
  <2> QED
    BY <1>4, <1>8, <2>5, <2>7, <2>8, <2>9, <2>10 DEF Inv
<1> QED
  BY <1>3, <1>10, <1>11

\* A renewal is answered.  An entry that is dropped because its lease is lost
\* leaves a release of its token behind, and no entry with that token.
LEMMA HeartbeatAnsweredInv ==
  ASSUME Inv, NEW n \in Node, calls[n] # <<>>, Head(calls[n]).op = "heartbeat",
         Head(calls[n]).reply # "none", HeartbeatAnswered(n, Head(calls[n]))
  PROVE  Inv'
<1> DEFINE c == Head(calls[n])
           q == Tail(calls[n])
           x == c.sub
           xs == {y \in {x} : /\ bySubdomain[n][y] # None
                              /\ bySubdomain[n][y].token = c.token}
           r == NewCall("release", x, c.token)
<1>1. /\ q \in Seq(Call) /\ ClaimsOnce(q) /\ c \in Range(calls[n])
      /\ Range(q) \subseteq Range(calls[n]) /\ Range(calls[n]) \subseteq Range(q) \cup {c}
  BY CallsType, HeadAnswered
<1>2. /\ x \in Sub /\ c.token \in Token /\ c.op = "heartbeat" /\ c.reply # "none"
      /\ c \in Call
  BY <1>1, CallsType
<1>3. \/ /\ c.reply = "yes" \/ xs = {}
         /\ calls' = [calls EXCEPT ![n] = q]
         /\ UNCHANGED <<healthy, lease, bySubdomain, link, phase, wanted, attemptsLeft,
                        startedAgo, name>>
      \/ /\ xs # {}
         /\ bySubdomain' = [bySubdomain EXCEPT ![n][x] = None]
         /\ calls' = [calls EXCEPT ![n] = Append(q, r)]
         /\ link' = [link EXCEPT ![bySubdomain[n][x].socket] = "closed"]
         /\ UNCHANGED <<healthy, lease, phase, wanted, attemptsLeft, startedAgo, name>>
  BY DEF HeartbeatAnswered, registration
<1> HIDE DEF c, q, x
<1>4. CASE /\ c.reply = "yes" \/ xs = {}
           /\ calls' = [calls EXCEPT ![n] = q]
           /\ UNCHANGED <<healthy, lease, bySubdomain, link, phase, wanted, attemptsLeft,
                          startedAgo, name>>
  <2>1. \A d \in Range(calls[n]) \ Range(q) : d = c
    BY <1>1
  <2>2. ASSUME NEW y \in Sub, bySubdomain[n][y] # None, Renewal(c, y, bySubdomain[n][y].token)
        PROVE  FALSE
    <3>1. c.reply = "no" /\ y = x /\ c.token = bySubdomain[n][y].token
      BY <1>2, <2>2 DEF Renewal, x
    <3>2. y \in xs
      BY <2>2, <3>1
    <3> QED
      BY <1>4, <3>1, <3>2
  <2>3. \A d \in Range(calls[n]) \ Range(q) :
          /\ d.op = "heartbeat"
          /\ \A y \in Sub : bySubdomain[n][y] # None =>
               ~ Renewal(d, y, bySubdomain[n][y].token)
    BY <1>2, <2>1, <2>2
  <2> HIDE DEF xs
  <2> QED
    BY <1>1, <1>4, <2>3, FewerCallsInv
<1>5. CASE /\ xs # {}
           /\ bySubdomain' = [bySubdomain EXCEPT ![n][x] = None]
           /\ calls' = [calls EXCEPT ![n] = Append(q, r)]
           /\ link' = [link EXCEPT ![bySubdomain[n][x].socket] = "closed"]
           /\ UNCHANGED <<healthy, lease, phase, wanted, attemptsLeft, startedAgo, name>>
  <2> DEFINE e == bySubdomain[n][x]
  <2>1. e # None /\ e.token = c.token
    BY <1>5
  <2>2. /\ e.token[1] \in Socket /\ e.socket = e.token[1]
        /\ Home[e.token[1]] = n /\ phase[e.token[1]] \in Settled
    BY <1>2, <2>1, EntryType
  <2>3. r \in Call /\ r.op = "release" /\ r.sub = x /\ r.token = c.token
    BY <1>2 DEF NewCall, Call
  <2> HIDE DEF r, xs, e
  <2>4. /\ Append(q, r) \in Seq(Call)
        /\ Range(Append(q, r)) = Range(q) \cup {r}
        /\ ClaimsOnce(Append(q, r))
    BY <1>1, <2>3, Appended
  <2>5. /\ Queues'
        /\ \A m \in Node : calls'[m] = IF m = n THEN Append(q, r) ELSE calls[m]
        /\ \A m \in Node : \A i \in DOMAIN calls'[m] : calls'[m][i] \in Call
    BY <1>5, <2>4, QueueChanged
  <2>6. \A m \in Node :
          /\ \A d \in Range(calls'[m]) : d \in Range(calls[m]) \/ (d = r /\ m = n)
          /\ \A d \in Range(calls[m]) : d \in Range(calls'[m]) \/ (d = c /\ m = n)
    BY <1>1, <2>4, <2>5
  <2>7. /\ bySubdomain' \in [Node -> [Sub -> Entry \cup {None}]]
        /\ \A m \in Node, y \in Sub :
             bySubdomain'[m][y] = IF m = n /\ y = x THEN None ELSE bySubdomain[m][y]
    BY <1>2, <1>5 DEF Inv, TypeOK
  <2>8. /\ link' \in [Socket -> {"none", "open", "silent", "closed"}]
        /\ \A z \in Socket : link'[z] = IF z = e.socket THEN "closed" ELSE link[z]
    BY <1>5, <2>2 DEF Inv, TypeOK, e
  <2>9. TypeOK'
    BY <1>5, <2>5, <2>7, <2>8 DEF Inv, TypeOK
  <2>10. OwnTokens'
    <3>1. ASSUME NEW m \in Node, NEW y \in Sub, bySubdomain'[m][y] # None
          PROVE  /\ Home[bySubdomain'[m][y].token[1]] = m
                 /\ phase'[bySubdomain'[m][y].token[1]] \in Settled
      BY <1>5, <2>7, <3>1, EntryType
    <3>2. ASSUME NEW m \in Node, NEW d \in Range(calls'[m])
          PROVE  /\ Home[d.token[1]] = m
                 /\ d.op = "claim" => /\ phase'[d.token[1]] = "claiming"
                                      /\ d.token[2] = attemptsLeft'[d.token[1]] + 1
                 /\ d.op # "claim" => phase'[d.token[1]] \in Settled
      <4>1. CASE d \in Range(calls[m])
        BY <1>5, <4>1 DEF Inv, OwnTokens
      <4>2. CASE d = r /\ m = n
        BY <1>5, <2>1, <2>2, <2>3, <4>2
      <4> QED
        BY <2>6, <4>1, <4>2
    <3> QED
      BY <3>1, <3>2 DEF OwnTokens
  <2>11. ReleasedTokens'
    <3>1. ASSUME NEW m \in Node, NEW d \in Range(calls'[m]), d.op = "release",
                 bySubdomain'[m][d.sub] # None
          PROVE  bySubdomain'[m][d.sub].token # d.token
      <4>1. d \in Range(calls[m]) /\ d.sub \in Sub
        BY <1>2, <2>3, <2>6, <2>7, <3>1, CallsType
      <4> QED
        BY <2>7, <3>1, <4>1 DEF Inv, ReleasedTokens
    <3> QED
      BY <3>1 DEF ReleasedTokens
  <2>12. Waits'
    <3>1. ASSUME NEW z \in Socket, phase'[z] = "claiming"
          PROVE  \E d \in Range(calls'[Home[z]]) : ClaimOf(d, z)
      <4>1. PICK d \in Range(calls[Home[z]]) : ClaimOf(d, z)
        BY <1>5, <3>1 DEF Inv, Waits
      <4>2. d # c /\ Home[z] \in Node
        BY <1>2, <4>1, LeaseAssumption DEF ClaimOf
      <4> QED
        BY <2>6, <4>1, <4>2
    <3>2. \A z \in Socket : phase'[z] = "idle" <=> link'[z] = "none"
      BY <1>5, <2>2, <2>8 DEF Inv, Waits, Settled
    <3> QED
      BY <3>1, <3>2 DEF Waits
  <2>13. EntriesRight'
    <3>1. ASSUME NEW m \in Node
          PROVE  /\ Entries(m)' \subseteq Entries(m)
                 /\ \A y \in Entries(m)' : bySubdomain'[m][y] = bySubdomain[m][y]
      BY <2>7 DEF Entries
    <3>2. \A m \in Node : IsFiniteSet(Entries(m)')
      BY <3>1, FS_Subset DEF Inv, EntriesRight
    <3> QED
      BY <3>1, <3>2 DEF Inv, EntriesRight
  <2>14. LeaseOutlives'
    <3>1. ASSUME healthy', NEW m \in Node, NEW y \in Sub, bySubdomain'[m][y] # None,
                 bySubdomain'[m][y].idle < TTL
          PROVE  \/ /\ lease'[y] # None /\ lease'[y].token = bySubdomain'[m][y].token
                    /\ lease'[y].left + bySubdomain'[m][y].idle >= TTL
                 \/ \E d \in Range(calls'[m]) : Renewal(d, y, bySubdomain'[m][y].token)
      <4>1. bySubdomain'[m][y] = bySubdomain[m][y] /\ (m # n \/ y # x)
        BY <2>7, <3>1
      <4>2. CASE \E d \in Range(calls[m]) : Renewal(d, y, bySubdomain[m][y].token)
        <5>1. PICK d \in Range(calls[m]) : Renewal(d, y, bySubdomain[m][y].token)
          BY <4>2
        <5>2. ~ (d = c /\ m = n)
          BY <4>1, <5>1 DEF Renewal, x
        <5> QED
          BY <2>6, <4>1, <5>1, <5>2
      <4> QED
        BY <1>5, <3>1, <4>1, <4>2 DEF Inv, LeaseOutlives
    <3>2. ASSUME healthy', NEW m \in Node, NEW d \in Range(calls'[m]), d.op = "claim",
                 d.reply = "yes"
          PROVE  lease'[d.sub] # None /\ lease'[d.sub].token = d.token /\ lease'[d.sub].left = TTL
      <4>1. d \in Range(calls[m])
        BY <2>3, <2>6, <3>2
      <4> QED
        BY <1>5, <3>2, <4>1 DEF Inv, LeaseOutlives
    <3> QED
      BY <3>1, <3>2 DEF LeaseOutlives
  <2> QED
    BY <2>5, <2>9, <2>10, <2>11, <2>12, <2>13, <2>14 DEF Inv
<1> QED
  BY <1>3, <1>4, <1>5

\* A release is answered: it leaves the queue, and that is all.
LEMMA ReleaseAnsweredInv ==
  ASSUME Inv, NEW n \in Node, calls[n] # <<>>, Head(calls[n]).op = "release",
         ReleaseAnswered(n)
  PROVE  Inv'
<1>1. /\ Tail(calls[n]) \in Seq(Call) /\ ClaimsOnce(Tail(calls[n]))
      /\ Range(Tail(calls[n])) \subseteq Range(calls[n])
      /\ Range(calls[n]) \subseteq Range(Tail(calls[n])) \cup {Head(calls[n])}
  BY CallsType, HeadAnswered
<1>2. \A d \in Range(calls[n]) \ Range(Tail(calls[n])) :
        /\ d.op = "release"
        /\ \A y \in Sub : bySubdomain[n][y] # None => ~ Renewal(d, y, bySubdomain[n][y].token)
  BY <1>1 DEF Renewal
<1>3. /\ calls' = [calls EXCEPT ![n] = Tail(calls[n])]
      /\ UNCHANGED <<healthy, lease, bySubdomain, link, phase, wanted, attemptsLeft,
                     startedAgo, name>>
  BY DEF ReleaseAnswered, registration
<1> QED
  BY <1>1, <1>2, <1>3, FewerCallsInv

\* Whatever the oldest command is, its reply keeps the invariant.
LEMMA AnswerInv ==
  ASSUME Inv, NEW n \in Node, Answer(n)
  PROVE  Inv'
<1>1. CASE Head(calls[n]).op = "claim" /\ ClaimAnswered(Head(calls[n]))
  BY <1>1, ClaimAnsweredInv DEF Answer
<1>2. CASE Head(calls[n]).op = "heartbeat" /\ HeartbeatAnswered(n, Head(calls[n]))
  BY <1>2, HeartbeatAnsweredInv DEF Answer
<1>3. CASE Head(calls[n]).op = "release" /\ ReleaseAnswered(n)
  BY <1>3, ReleaseAnsweredInv DEF Answer
<1> QED
  BY <1>1, <1>2, <1>3 DEF Answer

-----------------------------------------------------------------------------
(***************************************************************************)
(* Redis, the way to it, and time.                                         *)
(***************************************************************************)

\* A script leaves a lease of the command's token, or none; what it renews or
\* ends is a lease of that token.
LEMMA Scripts ==
  ASSUME Inv, NEW c \in Call
  PROVE  /\ LeaseAfter(c) \in Lease \cup {None}
         /\ c.op # "release" => LeaseAfter(c) = [token |-> c.token, left |-> TTL]
         /\ c.op = "release" => LeaseAfter(c) = None
         /\ c.op = "claim" => (Granted(c) <=> lease[c.sub] = None)
         /\ c.op # "claim" /\ Granted(c) =>
              lease[c.sub] # None /\ lease[c.sub].token = c.token
<1>1. c.op \in {"claim", "heartbeat", "release"} /\ c.token \in Token /\ c.sub \in Sub
  BY DEF Call
<1>2. c.op # "release" => LeaseAfter(c) = [token |-> c.token, left |-> TTL]
  BY <1>1 DEF LeaseAfter
<1>3. c.op = "release" => LeaseAfter(c) = None
  BY <1>1 DEF LeaseAfter
<1>4. [token |-> c.token, left |-> TTL] \in Lease
  BY <1>1, LeaseAssumption DEF Lease
<1>5. c.op = "claim" => (Granted(c) <=> lease[c.sub] = None)
  BY DEF Granted
<1>6. ASSUME c.op # "claim", Granted(c)
      PROVE  lease[c.sub] # None /\ lease[c.sub].token = c.token
  BY <1>1, <1>6, LeaseAssumption DEF Granted, Matches, Holder
<1> QED
  BY <1>1, <1>2, <1>3, <1>4, <1>5, <1>6

\* A release is of a token that no entry has, on this node or another.
LEMMA ReleasedByAll ==
  ASSUME Inv, NEW n \in Node, NEW c \in Range(calls[n]), c.op = "release",
         NEW m \in Node, bySubdomain[m][c.sub] # None
  PROVE  bySubdomain[m][c.sub].token # c.token
<1>1. Home[c.token[1]] = n /\ c.sub \in Sub
  BY CallsType DEF Inv, OwnTokens
<1>2. Home[bySubdomain[m][c.sub].token[1]] = m
  BY <1>1, EntryType
<1> QED
  BY <1>1, <1>2 DEF Inv, ReleasedTokens

\* What Execute does: one command that had no reply has one now, and its script
\* has run.
LEMMA ExecuteStep ==
  ASSUME Inv, NEW n \in Node, Execute(n)
  PROVE  \E i \in DOMAIN calls[n] :
           LET c == calls[n][i]
               v == IF Granted(c) THEN "yes" ELSE "no"
           IN  /\ c.reply = "none"
               /\ calls' = [calls EXCEPT ![n] = [calls[n] EXCEPT ![i] = Replied(c, v)]]
               /\ lease' = IF Granted(c) THEN [lease EXCEPT ![c.sub] = LeaseAfter(c)]
                                         ELSE lease
               /\ UNCHANGED <<healthy, bySubdomain, link, phase, wanted, attemptsLeft,
                              startedAgo, name>>
  BY DEF Execute, Replied, registration

\* Redis executes a command: no entry loses the lease that is its own.
LEMMA ExecuteInv ==
  ASSUME Inv, NEW n \in Node, Execute(n)
  PROVE  Inv'
<1>1. PICK i \in DOMAIN calls[n] :
        LET c == calls[n][i]
            v == IF Granted(c) THEN "yes" ELSE "no"
        IN  /\ c.reply = "none"
            /\ calls' = [calls EXCEPT ![n] = [calls[n] EXCEPT ![i] = Replied(c, v)]]
            /\ lease' = IF Granted(c) THEN [lease EXCEPT ![c.sub] = LeaseAfter(c)]
                                      ELSE lease
            /\ UNCHANGED <<healthy, bySubdomain, link, phase, wanted, attemptsLeft,
                           startedAgo, name>>
  BY ExecuteStep
<1> DEFINE c == calls[n][i]
           v == IF Granted(c) THEN "yes" ELSE "no"
           d == Replied(c, v)
           q == [calls[n] EXCEPT ![i] = d]
<1>2. /\ calls' = [calls EXCEPT ![n] = q]
      /\ lease' = IF Granted(c) THEN [lease EXCEPT ![c.sub] = LeaseAfter(c)] ELSE lease
      /\ c.reply = "none"
      /\ UNCHANGED <<healthy, bySubdomain, link, phase, wanted, attemptsLeft,
                     startedAgo, name>>
  BY <1>1
<1>3. c \in Range(calls[n])
  BY DEF Range
<1>4. c \in Call /\ c.sub \in Sub /\ c.op \in {"claim", "heartbeat", "release"}
  BY <1>3, CallsType DEF Call
<1>5. v \in {"none", "yes", "no"} /\ (Granted(c) => v = "yes") /\ (~ Granted(c) => v = "no")
  OBVIOUS
<1> HIDE DEF v
<1>6. d.op = c.op /\ d.sub = c.sub /\ d.token = c.token /\ d.reply = v
  BY <1>4, <1>5, RepliedType
<1>7. /\ q \in Seq(Call) /\ ClaimsOnce(q) /\ d \in Range(q)
      /\ \A e \in Range(q) : e \in Range(calls[n]) \/ e = d
      /\ \A e \in Range(calls[n]) : e \in Range(q) \/ e = c
  BY <1>5, CallsType, OneReplied
<1> HIDE DEF c, d, q
<1>8. /\ Queues'
      /\ \A m \in Node : calls'[m] = IF m = n THEN q ELSE calls[m]
      /\ \A m \in Node : \A j \in DOMAIN calls'[m] : calls'[m][j] \in Call
  BY <1>2, <1>7, QueueChanged
<1>9. /\ \A m \in Node :
           /\ \A e \in Range(calls'[m]) : e \in Range(calls[m]) \/ (e = d /\ m = n)
           /\ \A e \in Range(calls[m]) : e \in Range(calls'[m]) \/ (e = c /\ m = n)
      /\ d \in Range(calls'[n])
  BY <1>7, <1>8
<1>10. /\ lease' \in [Sub -> Lease \cup {None}]
       /\ \A x \in Sub :
            lease'[x] = IF Granted(c) /\ x = c.sub THEN LeaseAfter(c) ELSE lease[x]
  BY <1>2, <1>4, Scripts DEF Inv, TypeOK
<1>11. TypeOK'
  BY <1>2, <1>8, <1>10 DEF Inv, TypeOK
<1>12. OwnTokens'
  <2>1. ASSUME NEW m \in Node, NEW e \in Range(calls'[m])
        PROVE  /\ Home[e.token[1]] = m
               /\ e.op = "claim" => /\ phase[e.token[1]] = "claiming"
                                    /\ e.token[2] = attemptsLeft[e.token[1]] + 1
               /\ e.op # "claim" => phase[e.token[1]] \in Settled
    <3>1. CASE e \in Range(calls[m])
      BY <3>1 DEF Inv, OwnTokens
    <3>2. CASE e = d /\ m = n
      BY <1>3, <1>6, <3>2 DEF Inv, OwnTokens
    <3> QED
      BY <1>9, <3>1, <3>2
  <2> QED
    BY <1>2, <2>1 DEF Inv, OwnTokens
<1>13. ReleasedTokens'
  <2>1. ASSUME NEW m \in Node, NEW e \in Range(calls'[m]), e.op = "release",
               bySubdomain[m][e.sub] # None
        PROVE  bySubdomain[m][e.sub].token # e.token
    BY <1>3, <1>6, <1>9, <2>1 DEF Inv, ReleasedTokens
  <2> QED
    BY <1>2, <2>1 DEF ReleasedTokens
<1>14. Waits'
  <2>1. ASSUME NEW z \in Socket, phase'[z] = "claiming"
        PROVE  \E e \in Range(calls'[Home[z]]) : ClaimOf(e, z)
    <3>1. PICK e \in Range(calls[Home[z]]) : ClaimOf(e, z)
      BY <1>2, <2>1 DEF Inv, Waits
    <3>2. Home[z] \in Node
      BY LeaseAssumption
    <3>3. CASE e = c /\ Home[z] = n
      BY <1>6, <1>9, <3>1, <3>3 DEF ClaimOf
    <3> QED
      BY <1>9, <3>1, <3>2, <3>3
  <2> QED
    BY <1>2, <2>1 DEF Inv, Waits
<1>15. EntriesRight'
  BY <1>2 DEF Inv, EntriesRight, Entries
<1>16. LeaseOutlives'
  <2>1. ASSUME healthy, NEW m \in Node, NEW x \in Sub, bySubdomain[m][x] # None,
               bySubdomain[m][x].idle < TTL
        PROVE  \/ /\ lease'[x] # None /\ lease'[x].token = bySubdomain[m][x].token
                  /\ lease'[x].left + bySubdomain[m][x].idle >= TTL
               \/ \E e \in Range(calls'[m]) : Renewal(e, x, bySubdomain[m][x].token)
    <3> DEFINE held == /\ lease[x] # None /\ lease[x].token = bySubdomain[m][x].token
                       /\ lease[x].left + bySubdomain[m][x].idle >= TTL
               coming == \E e \in Range(calls[m]) : Renewal(e, x, bySubdomain[m][x].token)
    <3>1. held \/ coming
      BY <2>1 DEF Inv, LeaseOutlives
    <3>2. ASSUME coming, ~ (m = n /\ Renewal(c, x, bySubdomain[m][x].token))
          PROVE  \E e \in Range(calls'[m]) : Renewal(e, x, bySubdomain[m][x].token)
      BY <1>9, <3>2
    <3>3. CASE ~ Granted(c)
      <4>1. ASSUME m = n, Renewal(c, x, bySubdomain[m][x].token)
            PROVE  Renewal(d, x, bySubdomain[m][x].token)
        BY <1>5, <1>6, <3>3, <4>1 DEF Renewal
      <4>2. lease'[x] = lease[x]
        BY <1>10, <3>3
      <4> QED
        BY <1>9, <3>1, <3>2, <4>1, <4>2
    <3>4. CASE Granted(c) /\ x # c.sub
      <4>1. lease'[x] = lease[x]
        BY <1>10, <3>4
      <4>2. ~ Renewal(c, x, bySubdomain[m][x].token)
        BY <3>4 DEF Renewal
      <4> QED
        BY <3>1, <3>2, <4>1, <4>2
    <3>5. CASE Granted(c) /\ x = c.sub /\ c.op = "claim"
      <4>1. ~ held
        BY <1>4, <3>5, Scripts
      <4>2. ~ Renewal(c, x, bySubdomain[m][x].token)
        BY <3>5 DEF Renewal
      <4> QED
        BY <3>1, <3>2, <4>1, <4>2
    <3>6. CASE Granted(c) /\ x = c.sub /\ c.op = "heartbeat"
      <4>1. lease'[x] = [token |-> c.token, left |-> TTL] /\ lease[x].token = c.token
        BY <1>4, <1>10, <3>6, Scripts
      <4>2. CASE c.token = bySubdomain[m][x].token
        <5>1. bySubdomain[m][x].idle \in Nat
          BY <2>1, EntryType, LeaseAssumption DEF Age, Stale
        <5>2. TTL + bySubdomain[m][x].idle >= TTL
          BY <5>1, LeaseAssumption
        <5>3. [token |-> c.token, left |-> TTL] \in Lease
          BY <1>4, LeaseAssumption DEF Lease, Call
        <5>4. lease'[x] # None
          BY <4>1, <5>3, LeaseAssumption
        <5> QED
          BY <4>1, <4>2, <5>2, <5>4
      <4>3. CASE c.token # bySubdomain[m][x].token
        <5>1. ~ held /\ ~ Renewal(c, x, bySubdomain[m][x].token)
          BY <4>1, <4>3 DEF Renewal
        <5> QED
          BY <3>1, <3>2, <5>1
      <4> QED
        BY <4>2, <4>3
    <3>7. CASE Granted(c) /\ x = c.sub /\ c.op = "release"
      <4>1. lease[x].token = c.token /\ bySubdomain[m][x].token # c.token
        BY <1>3, <1>4, <2>1, <3>7, Scripts, ReleasedByAll
      <4>2. ~ held /\ ~ Renewal(c, x, bySubdomain[m][x].token)
        BY <4>1 DEF Renewal
      <4> QED
        BY <3>1, <3>2, <4>2
    <3> QED
      BY <1>4, <3>3, <3>4, <3>5, <3>6, <3>7
  <2>2. ASSUME healthy, NEW m \in Node, NEW e \in Range(calls'[m]), e.op = "claim",
               e.reply = "yes"
        PROVE  lease'[e.sub] # None /\ lease'[e.sub].token = e.token /\ lease'[e.sub].left = TTL
    <3>1. CASE e = d /\ m = n
      <4>1. Granted(c) /\ c.op = "claim" /\ e.sub = c.sub /\ e.token = c.token
        BY <1>5, <1>6, <2>2, <3>1
      <4>2. lease'[e.sub] = [token |-> c.token, left |-> TTL]
        BY <1>4, <1>10, <4>1, Scripts
      <4>3. [token |-> c.token, left |-> TTL] \in Lease
        BY <1>4, LeaseAssumption DEF Lease, Call
      <4>4. lease'[e.sub] # None
        BY <4>2, <4>3, LeaseAssumption
      <4> QED
        BY <4>1, <4>2, <4>4
    <3>2. CASE e \in Range(calls[m])
      <4>1. /\ lease[e.sub] # None /\ lease[e.sub].token = e.token /\ lease[e.sub].left = TTL
            /\ phase[e.token[1]] = "claiming" /\ e.sub \in Sub
        BY <2>2, <3>2, CallsType DEF Inv, LeaseOutlives, OwnTokens
      <4>2. ASSUME Granted(c), e.sub = c.sub PROVE FALSE
        <5>1. c.op # "claim" /\ c.token = e.token
          BY <1>4, <4>1, <4>2, Scripts
        <5>2. phase[c.token[1]] \in Settled
          BY <1>3, <5>1 DEF Inv, OwnTokens
        <5> QED
          BY <4>1, <5>1, <5>2 DEF Settled
      <4>3. lease'[e.sub] = lease[e.sub]
        BY <1>10, <4>1, <4>2
      <4> QED
        BY <4>1, <4>3
    <3> QED
      BY <1>9, <2>2, <3>1, <3>2
  <2> QED
    BY <1>2, <2>1, <2>2 DEF LeaseOutlives
<1> QED
  BY <1>8, <1>11, <1>12, <1>13, <1>14, <1>15, <1>16 DEF Inv

\* An outage begins: nothing is promised of the leases from here on.
LEMMA OutageInv == Inv /\ Outage => Inv'
<1> SUFFICES ASSUME Inv, Outage PROVE Inv'
  OBVIOUS
<1>1. /\ healthy' = FALSE
      /\ UNCHANGED <<lease, bySubdomain, calls, link, phase, wanted, attemptsLeft,
                     startedAgo, name>>
  BY DEF Outage, registration
<1>2. TypeOK' /\ Queues' /\ ReleasedTokens' /\ LeaseOutlives'
  BY <1>1 DEF Inv, TypeOK, Queues, ReleasedTokens, LeaseOutlives
<1>3. OwnTokens' /\ Waits'
  BY <1>1 DEF Inv, OwnTokens, Waits
<1>4. EntriesRight'
  BY <1>1 DEF Inv, EntriesRight, Entries
<1> QED
  BY <1>2, <1>3, <1>4 DEF Inv

\* The commands are sent again: they are the same, their replies lost.
LEMMA ResendInv ==
  ASSUME Inv, NEW n \in Node, Resend(n)
  PROVE  Inv'
<1> DEFINE q == [i \in DOMAIN calls[n] |-> Replied(calls[n][i], "none")]
<1>1. /\ healthy = FALSE /\ healthy' = FALSE
      /\ calls' = [calls EXCEPT ![n] = q]
      /\ UNCHANGED <<lease, bySubdomain, link, phase, wanted, attemptsLeft,
                     startedAgo, name>>
  BY DEF Resend, Replied, registration, Inv, TypeOK
<1>2. /\ q \in Seq(Call) /\ ClaimsOnce(q)
      /\ \A d \in Range(q) : \E c \in Range(calls[n]) : d = Replied(c, "none")
      /\ \A c \in Range(calls[n]) : Replied(c, "none") \in Range(q)
  BY CallsType, AllResent
<1> HIDE DEF q
<1>3. /\ Queues'
      /\ \A m \in Node : calls'[m] = IF m = n THEN q ELSE calls[m]
      /\ \A m \in Node : \A i \in DOMAIN calls'[m] : calls'[m][i] \in Call
  BY <1>1, <1>2, QueueChanged
<1>4. \A c \in Range(calls[n]) :
        /\ Replied(c, "none").op = c.op /\ Replied(c, "none").sub = c.sub
        /\ Replied(c, "none").token = c.token
  BY CallsType, RepliedType
<1>5. \A m \in Node :
        /\ \A d \in Range(calls'[m]) : \E c \in Range(calls[m]) :
             d.op = c.op /\ d.sub = c.sub /\ d.token = c.token
        /\ \A c \in Range(calls[m]) : \E d \in Range(calls'[m]) :
             d.op = c.op /\ d.sub = c.sub /\ d.token = c.token
  BY <1>2, <1>3, <1>4
<1>6. TypeOK'
  BY <1>1, <1>3 DEF Inv, TypeOK
<1>7. OwnTokens'
  <2>1. ASSUME NEW m \in Node, NEW d \in Range(calls'[m])
        PROVE  /\ Home[d.token[1]] = m
               /\ d.op = "claim" => /\ phase[d.token[1]] = "claiming"
                                    /\ d.token[2] = attemptsLeft[d.token[1]] + 1
               /\ d.op # "claim" => phase[d.token[1]] \in Settled
    <3>1. PICK c \in Range(calls[m]) : d.op = c.op /\ d.sub = c.sub /\ d.token = c.token
      BY <1>5
    <3> QED
      BY <3>1 DEF Inv, OwnTokens
  <2> QED
    BY <1>1, <2>1 DEF Inv, OwnTokens
<1>8. ReleasedTokens'
  <2>1. ASSUME NEW m \in Node, NEW d \in Range(calls'[m]), d.op = "release",
               bySubdomain[m][d.sub] # None
        PROVE  bySubdomain[m][d.sub].token # d.token
    <3>1. PICK c \in Range(calls[m]) : d.op = c.op /\ d.sub = c.sub /\ d.token = c.token
      BY <1>5
    <3> QED
      BY <2>1, <3>1 DEF Inv, ReleasedTokens
  <2> QED
    BY <1>1, <2>1 DEF ReleasedTokens
<1>9. Waits'
  <2>1. ASSUME NEW z \in Socket, phase[z] = "claiming"
        PROVE  \E e \in Range(calls'[Home[z]]) : ClaimOf(e, z)
    <3>1. PICK c \in Range(calls[Home[z]]) : ClaimOf(c, z)
      BY <2>1 DEF Inv, Waits
    <3>2. Home[z] \in Node
      BY LeaseAssumption
    <3> QED
      BY <1>5, <3>1, <3>2 DEF ClaimOf
  <2> QED
    BY <1>1, <2>1 DEF Inv, Waits
<1>10. EntriesRight' /\ LeaseOutlives'
  BY <1>1 DEF Inv, EntriesRight, Entries, LeaseOutlives
<1> QED
  BY <1>3, <1>6, <1>7, <1>8, <1>9, <1>10 DEF Inv

\* A node loses its commands: the registrations that wait for one are refused,
\* whatever becomes of its entries.
LEMMA CallsLostInv ==
  ASSUME Inv, NEW n \in Node,
         healthy' = FALSE,
         calls' = [calls EXCEPT ![n] = <<>>],
         phase' \in [Socket -> Phase],
         \A s \in Socket : phase'[s] = phase[s] \/ (Home[s] = n /\ phase'[s] = "refused"),
         \A s \in Socket : Home[s] = n => phase'[s] # "claiming",
         \A s \in Socket : phase'[s] = "idle" <=> link'[s] = "none",
         \A m \in Node, x \in Sub :
           bySubdomain'[m][x] = bySubdomain[m][x] \/ bySubdomain'[m][x] = None,
         bySubdomain' \in [Node -> [Sub -> Entry \cup {None}]],
         startedAgo' \in [Socket -> Age],
         link' \in [Socket -> {"none", "open", "silent", "closed"}],
         UNCHANGED <<lease, wanted, attemptsLeft, name>>
  PROVE  Inv'
<1>1. <<>> \in Seq(Call) /\ ClaimsOnce(<<>>) /\ Range(<<>>) = {}
  BY EmptySeq DEF ClaimsOnce, Range
<1>2. /\ Queues'
      /\ \A m \in Node : calls'[m] = IF m = n THEN <<>> ELSE calls[m]
      /\ \A m \in Node : \A i \in DOMAIN calls'[m] : calls'[m][i] \in Call
  BY <1>1, QueueChanged
<1>3. \A m \in Node : \A c \in Range(calls'[m]) : m # n /\ c \in Range(calls[m])
  BY <1>1, <1>2
<1>4. TypeOK'
  BY <1>2 DEF Inv, TypeOK
<1>5. OwnTokens'
  <2>1. ASSUME NEW m \in Node, NEW x \in Sub, bySubdomain'[m][x] # None
        PROVE  /\ Home[bySubdomain'[m][x].token[1]] = m
               /\ phase'[bySubdomain'[m][x].token[1]] \in Settled
    <3>1. bySubdomain'[m][x] = bySubdomain[m][x] /\ bySubdomain[m][x] # None
      BY <2>1
    <3> QED
      BY <3>1, EntryType DEF Settled
  <2>2. ASSUME NEW m \in Node, NEW c \in Range(calls'[m])
        PROVE  /\ Home[c.token[1]] = m
               /\ c.op = "claim" => /\ phase'[c.token[1]] = "claiming"
                                    /\ c.token[2] = attemptsLeft'[c.token[1]] + 1
               /\ c.op # "claim" => phase'[c.token[1]] \in Settled
    <3>1. m # n /\ c \in Range(calls[m]) /\ c.token[1] \in Socket
      BY <1>3, CallsType
    <3>2. /\ Home[c.token[1]] = m
          /\ c.op = "claim" => /\ phase[c.token[1]] = "claiming"
                               /\ c.token[2] = attemptsLeft[c.token[1]] + 1
          /\ c.op # "claim" => phase[c.token[1]] \in Settled
      BY <3>1 DEF Inv, OwnTokens
    <3>3. phase'[c.token[1]] = phase[c.token[1]]
      BY <3>1, <3>2
    <3> QED
      BY <3>2, <3>3
  <2> QED
    BY <2>1, <2>2 DEF OwnTokens
<1>6. ReleasedTokens'
  <2>1. ASSUME NEW m \in Node, NEW c \in Range(calls'[m]), c.op = "release",
               bySubdomain'[m][c.sub] # None
        PROVE  bySubdomain'[m][c.sub].token # c.token
    <3>1. c \in Range(calls[m]) /\ c.sub \in Sub
      BY <1>3, CallsType
    <3>2. bySubdomain'[m][c.sub] = bySubdomain[m][c.sub]
      BY <2>1, <3>1
    <3> QED
      BY <2>1, <3>1, <3>2 DEF Inv, ReleasedTokens
  <2> QED
    BY <2>1 DEF ReleasedTokens
<1>7. Waits'
  <2>1. ASSUME NEW z \in Socket, phase'[z] = "claiming"
        PROVE  \E e \in Range(calls'[Home[z]]) : ClaimOf(e, z)
    <3>1. Home[z] # n /\ phase[z] = "claiming" /\ Home[z] \in Node
      BY <2>1, LeaseAssumption
    <3> QED
      BY <1>2, <3>1 DEF Inv, Waits
  <2> QED
    BY <2>1 DEF Waits
<1>8. EntriesRight'
  <2>1. ASSUME NEW m \in Node
        PROVE  /\ Entries(m)' \subseteq Entries(m)
               /\ \A x \in Entries(m)' : bySubdomain'[m][x] = bySubdomain[m][x]
    BY DEF Entries
  <2>2. \A m \in Node : IsFiniteSet(Entries(m)')
    BY <2>1, FS_Subset DEF Inv, EntriesRight
  <2> QED
    BY <2>1, <2>2 DEF Inv, EntriesRight
<1>9. LeaseOutlives'
  BY DEF LeaseOutlives
<1> QED
  BY <1>2, <1>4, <1>5, <1>6, <1>7, <1>8, <1>9 DEF Inv

\* ioredis gives up on the commands of a node, or the node dies.
LEMMA RejectOrCrashInv ==
  ASSUME Inv, NEW n \in Node, Reject(n) \/ Crash(n)
  PROVE  Inv'
<1>1. CASE Reject(n)
  <2>1. /\ healthy' = FALSE /\ calls' = [calls EXCEPT ![n] = <<>>]
        /\ phase' = [s \in Socket |-> IF s \in Waiting(n) THEN "refused" ELSE phase[s]]
        /\ startedAgo' = [s \in Socket |-> IF s \in Waiting(n) THEN 0 ELSE startedAgo[s]]
        /\ UNCHANGED <<lease, bySubdomain, link, wanted, attemptsLeft, name>>
    BY <1>1 DEF Reject, Inv, TypeOK
  <2>2. phase' \in [Socket -> Phase] /\ startedAgo' \in [Socket -> Age]
    BY <2>1, LeaseAssumption DEF Inv, TypeOK, Phase, Age, Stale
  <2>3. \A s \in Socket :
          /\ phase'[s] = phase[s] \/ (Home[s] = n /\ phase'[s] = "refused")
          /\ Home[s] = n => phase'[s] # "claiming"
    BY <2>1 DEF Waiting
  <2>4. \A s \in Socket : phase'[s] = "idle" <=> link'[s] = "none"
    BY <2>1 DEF Inv, Waits, Waiting
  <2> QED
    BY <2>1, <2>2, <2>3, <2>4, CallsLostInv DEF Inv, TypeOK
<1>2. CASE Crash(n)
  <2> DEFINE lost == {s \in Socket : Home[s] = n /\ link[s] # "none"}
  <2>1. /\ healthy' = FALSE /\ calls' = [calls EXCEPT ![n] = <<>>]
        /\ bySubdomain' = [bySubdomain EXCEPT ![n] = [x \in Sub |-> None]]
        /\ link' = [s \in Socket |-> IF s \in lost THEN "closed" ELSE link[s]]
        /\ phase' = [s \in Socket |-> IF s \in lost THEN "refused" ELSE phase[s]]
        /\ startedAgo' = [s \in Socket |-> IF s \in lost THEN 0 ELSE startedAgo[s]]
        /\ UNCHANGED <<lease, wanted, attemptsLeft, name>>
    BY <1>2 DEF Crash, Inv, TypeOK
  <2>2. /\ phase' \in [Socket -> Phase] /\ startedAgo' \in [Socket -> Age]
        /\ link' \in [Socket -> {"none", "open", "silent", "closed"}]
    BY <2>1, LeaseAssumption DEF Inv, TypeOK, Phase, Age, Stale
  <2>3. /\ bySubdomain' \in [Node -> [Sub -> Entry \cup {None}]]
        /\ \A m \in Node, x \in Sub :
             bySubdomain'[m][x] = bySubdomain[m][x] \/ bySubdomain'[m][x] = None
    BY <2>1 DEF Inv, TypeOK
  <2>4. \A s \in Socket : phase'[s] = phase[s] \/ (Home[s] = n /\ phase'[s] = "refused")
    BY <2>1
  <2>5. \A s \in Socket : Home[s] = n => phase'[s] # "claiming"
    BY <2>1 DEF Inv, Waits
  <2>6. \A s \in Socket : phase'[s] = "idle" <=> link'[s] = "none"
    BY <2>1 DEF Inv, Waits
  <2> HIDE DEF lost
  <2> QED
    BY <2>1, <2>2, <2>3, <2>4, <2>5, <2>6, CallsLostInv
<1> QED
  BY <1>1, <1>2

\* Time passes: an entry and its lease get older together.
LEMMA TickInv ==
  ASSUME Inv, Tick
  PROVE  Inv'
<1>1. /\ healthy => \A n \in Node : calls[n] = <<>>
      /\ lease' = [x \in Sub |->
                 IF lease[x] = None \/ lease[x].left = 1 THEN None
                 ELSE [lease[x] EXCEPT !.left = @ - 1]]
      /\ bySubdomain' = [n \in Node |-> [x \in Sub |->
                       IF bySubdomain[n][x] = None THEN None
                       ELSE [bySubdomain[n][x] EXCEPT !.idle = Older(@)]]]
      /\ startedAgo' = [s \in Socket |-> IF phase[s] \in {"assign", "claiming"}
                                     THEN Older(startedAgo[s]) ELSE startedAgo[s]]
      /\ UNCHANGED <<healthy, calls, link, phase, wanted, attemptsLeft, name>>
  BY DEF Tick
<1>2. \A a \in Age : /\ Older(a) \in Age
                     /\ Older(a) < TTL => Older(a) = a + 1 /\ a < TTL /\ a + 1 < TTL
  BY LeaseAssumption DEF Older, Age, Stale
<1>3. ASSUME NEW n \in Node, NEW x \in Sub, bySubdomain[n][x] # None
      PROVE  /\ bySubdomain'[n][x] \in Entry /\ bySubdomain'[n][x] # None
             /\ bySubdomain'[n][x].token = bySubdomain[n][x].token
             /\ bySubdomain'[n][x].socket = bySubdomain[n][x].socket
             /\ bySubdomain'[n][x].idle = Older(bySubdomain[n][x].idle)
  <2> DEFINE e == bySubdomain[n][x]
             f == [e EXCEPT !.idle = Older(@)]
  <2>1. e \in Entry /\ e.idle \in Age
    BY <1>3, EntryType
  <2>2. f \in Entry /\ f.token = e.token /\ f.socket = e.socket /\ f.idle = Older(e.idle)
    BY <1>2, <2>1 DEF Entry
  <2>3. bySubdomain'[n][x] = f
    BY <1>1, <1>3
  <2> HIDE DEF e, f
  <2>4. f # None
    BY <2>2, LeaseAssumption
  <2> QED
    BY <2>2, <2>3, <2>4 DEF e
<1>4. \A n \in Node, x \in Sub : bySubdomain[n][x] = None => bySubdomain'[n][x] = None
  BY <1>1
<1>5. bySubdomain' \in [Node -> [Sub -> Entry \cup {None}]]
  <2>1. \A n \in Node : \A x \in Sub : bySubdomain'[n][x] \in Entry \cup {None}
    BY <1>3, <1>4
  <2> DEFINE F(n, x) == IF bySubdomain[n][x] = None THEN None
                        ELSE [bySubdomain[n][x] EXCEPT !.idle = Older(@)]
  <2>2. bySubdomain' = [n \in Node |-> [x \in Sub |-> F(n, x)]]
    BY <1>1
  <2> HIDE DEF F
  <2>3. \A n \in Node : \A x \in Sub : F(n, x) \in Entry \cup {None}
    BY <2>1, <2>2
  <2> QED
    BY <2>2, <2>3
<1>6. ASSUME NEW x \in Sub, lease[x] # None
      PROVE  /\ lease[x].left = 1 => lease'[x] = None
             /\ lease[x].left # 1 => /\ lease'[x] \in Lease /\ lease'[x] # None
                                     /\ lease'[x].token = lease[x].token
                                     /\ lease'[x].left = lease[x].left - 1
             /\ lease[x].left \in 1..TTL
  <2> DEFINE l == lease[x]
             k == [l EXCEPT !.left = @ - 1]
  <2>1. l \in Lease
    BY <1>6 DEF Inv, TypeOK
  <2>2. l.left \in 1..TTL /\ l.token \in Token
    BY <2>1 DEF Lease
  <2>3. CASE l.left # 1
    <3>1. l.left - 1 \in 1..TTL
      BY <2>2, <2>3, LeaseAssumption
    <3>2. k \in Lease /\ k.token = l.token /\ k.left = l.left - 1
      BY <2>1, <3>1 DEF Lease
    <3>3. lease'[x] = k
      BY <1>1, <1>6, <2>3
    <3> HIDE DEF k, l
    <3>4. k # None
      BY <3>2, LeaseAssumption
    <3> QED
      BY <2>2, <2>3, <3>2, <3>3, <3>4 DEF l
  <2>4. CASE l.left = 1
    BY <1>1, <2>2, <2>4
  <2> QED
    BY <2>3, <2>4
<1>7. lease' \in [Sub -> Lease \cup {None}]
  <2> DEFINE G(x) == IF lease[x] = None \/ lease[x].left = 1 THEN None
                     ELSE [lease[x] EXCEPT !.left = @ - 1]
  <2>1. lease' = [x \in Sub |-> G(x)]
    BY <1>1
  <2>2. \A x \in Sub : lease[x] = None => lease'[x] = None
    BY <1>1
  <2> HIDE DEF G
  <2>3. \A x \in Sub : G(x) \in Lease \cup {None}
    BY <1>6, <2>1, <2>2
  <2> QED
    BY <2>1, <2>3
<1>8. startedAgo' \in [Socket -> Age]
  BY <1>1, <1>2 DEF Inv, TypeOK
<1>9. TypeOK'
  BY <1>1, <1>5, <1>7, <1>8 DEF Inv, TypeOK
<1>10. \A n \in Node, x \in Sub : bySubdomain'[n][x] # None =>
         /\ bySubdomain[n][x] # None
         /\ bySubdomain'[n][x].token = bySubdomain[n][x].token
         /\ bySubdomain'[n][x].socket = bySubdomain[n][x].socket
         /\ bySubdomain'[n][x].idle = Older(bySubdomain[n][x].idle)
  BY <1>3, <1>4
<1>11. Queues' /\ Waits'
  BY <1>1 DEF Inv, Queues, Waits
<1>12. OwnTokens'
  <2>1. ASSUME NEW n \in Node, NEW x \in Sub, bySubdomain'[n][x] # None
        PROVE  /\ Home[bySubdomain'[n][x].token[1]] = n
               /\ phase'[bySubdomain'[n][x].token[1]] \in Settled
    BY <1>1, <1>10, <2>1, EntryType
  <2> QED
    BY <1>1, <2>1 DEF Inv, OwnTokens
<1>13. ReleasedTokens'
  <2>1. ASSUME NEW m \in Node, NEW d \in Range(calls[m]), d.op = "release",
               bySubdomain'[m][d.sub] # None
        PROVE  bySubdomain'[m][d.sub].token # d.token
    <3>1. d.sub \in Sub
      BY CallsType
    <3> QED
      BY <1>10, <2>1, <3>1 DEF Inv, ReleasedTokens
  <2> QED
    BY <1>1, <2>1 DEF ReleasedTokens
<1>14. EntriesRight'
  <2>1. \A n \in Node : Entries(n)' \subseteq Entries(n)
    BY <1>10 DEF Entries
  <2>2. \A n \in Node : IsFiniteSet(Entries(n)')
    BY <2>1, FS_Subset DEF Inv, EntriesRight
  <2>3. ASSUME NEW n \in Node, NEW x \in Entries(n)'
        PROVE  bySubdomain'[n][x].socket = bySubdomain'[n][x].token[1]
    <3>1. x \in Sub /\ bySubdomain'[n][x] # None
      BY <2>3 DEF Entries
    <3>2. bySubdomain[n][x] # None
      BY <1>10, <3>1
    <3>3. bySubdomain[n][x].socket = bySubdomain[n][x].token[1]
      BY <3>1, <3>2, EntryType
    <3> QED
      BY <1>10, <3>1, <3>3
  <2> QED
    BY <2>2, <2>3 DEF EntriesRight
<1>15. LeaseOutlives'
  <2> SUFFICES ASSUME healthy' PROVE LeaseOutlives'
    BY DEF LeaseOutlives
  <2>1. \A n \in Node : Range(calls[n]) = {} /\ Range(calls'[n]) = {}
    BY <1>1, EmptySeq DEF Range
  <2>2. ASSUME NEW n \in Node, NEW x \in Sub, bySubdomain'[n][x] # None,
               bySubdomain'[n][x].idle < TTL
        PROVE  /\ lease'[x] # None /\ lease'[x].token = bySubdomain'[n][x].token
               /\ lease'[x].left + bySubdomain'[n][x].idle >= TTL
    <3>1. /\ bySubdomain[n][x] # None /\ bySubdomain[n][x].idle \in Age
          /\ bySubdomain'[n][x].token = bySubdomain[n][x].token
          /\ bySubdomain'[n][x].idle = Older(bySubdomain[n][x].idle)
      BY <1>10, <2>2, EntryType
    <3>2. /\ bySubdomain'[n][x].idle = bySubdomain[n][x].idle + 1
          /\ bySubdomain[n][x].idle < TTL /\ bySubdomain[n][x].idle + 1 < TTL
      BY <1>2, <2>2, <3>1
    <3>3. /\ lease[x] # None /\ lease[x].token = bySubdomain[n][x].token
          /\ lease[x].left + bySubdomain[n][x].idle >= TTL
      BY <1>1, <2>1, <3>1, <3>2 DEF Inv, LeaseOutlives
    <3>4. lease[x].left \in 1..TTL
      BY <1>6, <3>3
    <3>5. lease[x].left # 1
      BY <3>1, <3>2, <3>3, <3>4, LeaseAssumption DEF Age, Stale
    <3>6. /\ lease'[x] # None /\ lease'[x].token = lease[x].token
          /\ lease'[x].left = lease[x].left - 1
      BY <1>6, <3>3, <3>5
    <3>7. lease'[x].left + bySubdomain'[n][x].idle >= TTL
      BY <3>1, <3>2, <3>3, <3>4, <3>6, LeaseAssumption DEF Age, Stale
    <3> QED
      BY <3>1, <3>3, <3>6, <3>7
  <2> QED
    BY <2>1, <2>2 DEF LeaseOutlives
<1> QED
  BY <1>9, <1>11, <1>12, <1>13, <1>14, <1>15 DEF Inv

-----------------------------------------------------------------------------
(***************************************************************************)
(* The theorems.                                                           *)
(***************************************************************************)

\* Every step keeps the invariant.
LEMMA NextInv == Inv /\ [Next]_vars => Inv'
<1> SUFFICES ASSUME Inv, [Next]_vars PROVE Inv'
  OBVIOUS
<1>1. ASSUME NEW s \in Socket, NEW x \in Sub \cup {None}, Assign(s, x) PROVE Inv'
  BY <1>1, AssignInv
<1>2. ASSUME NEW s \in Socket, NEW x \in Sub, tryClaim(s, x) PROVE Inv'
  BY <1>2, tryClaimInv
<1>3. ASSUME NEW s \in Socket, Refuse(s) \/ GoSilent(s) \/ Registered(s) PROVE Inv'
  BY <1>3, QuietActionsInv
<1>4. ASSUME NEW s \in Socket, Disconnect(s) \/ UndoRegistration(s) PROVE Inv'
  BY <1>4, DropActionsInv
<1>5. ASSUME NEW s \in Socket, heartbeat(s) PROVE Inv'
  BY <1>5, heartbeatInv
<1>6. ASSUME NEW n \in Node, sweepStaleSockets(n) \/ \E x \in Sub : findBySubdomain(n, x)
      PROVE  Inv'
  BY <1>6, DropActionsInv
<1>7. ASSUME NEW n \in Node, Execute(n) PROVE Inv'
  BY <1>7, ExecuteInv
<1>8. ASSUME NEW n \in Node, Answer(n) PROVE Inv'
  BY <1>8, AnswerInv
<1>9. ASSUME NEW n \in Node, Resend(n) PROVE Inv'
  BY <1>9, ResendInv
<1>10. ASSUME NEW n \in Node, Reject(n) \/ Crash(n) PROVE Inv'
  BY <1>10, RejectOrCrashInv
<1>11. CASE Outage
  BY <1>11, OutageInv
<1>12. CASE Tick
  BY <1>12, TickInv
<1>13. CASE UNCHANGED vars
  <2>1. UNCHANGED <<healthy, lease, bySubdomain, calls, link, phase, wanted, attemptsLeft,
                    startedAgo, name>>
    BY <1>13 DEF vars
  <2>2. TypeOK' /\ Queues' /\ ReleasedTokens' /\ LeaseOutlives'
    BY <2>1 DEF Inv, TypeOK, Queues, ReleasedTokens, LeaseOutlives
  <2>3. OwnTokens' /\ Waits'
    BY <2>1 DEF Inv, OwnTokens, Waits
  <2>4. EntriesRight'
    BY <2>1 DEF Inv, EntriesRight, Entries
  <2> QED
    BY <2>2, <2>3, <2>4 DEF Inv
<1> QED
  BY <1>1, <1>2, <1>3, <1>4, <1>5, <1>6, <1>7, <1>8, <1>9, <1>10, <1>11, <1>12, <1>13
  DEF Next

\* The invariant holds of the registry and the Redis it shares.
THEOREM LeaseInvariant == Spec => []Inv
  BY InitInv, NextInv, PTL DEF Spec

\* Every variable has its type, whatever is lost, late or sent twice.
THEOREM LeaseTypeOK == Spec => []TypeOK
<1>1. Inv => TypeOK
  BY DEF Inv
<1> QED
  BY <1>1, LeaseInvariant, PTL

\* Every claim that waits has one command on its way, and a command that is a
\* claim has a registration that waits for it: no resend, rejection, crash or
\* disconnect leaves one without the other.
THEOREM LeaseClaimInFlight == Spec => []ClaimInFlight
<1>1. ASSUME Inv PROVE ClaimInFlight
  <2> SUFFICES ASSUME NEW s \in Socket
               PROVE  phase[s] = "claiming" <=>
                        \E i \in DOMAIN calls[Home[s]] :
                          LET c == calls[Home[s]][i]
                          IN  c.op = "claim" /\ c.token = <<s, attemptsLeft[s] + 1>>
    BY DEF ClaimInFlight
  <2>1. Home[s] \in Node
    BY LeaseAssumption
  <2>2. Range(calls[Home[s]]) = {calls[Home[s]][i] : i \in DOMAIN calls[Home[s]]}
    BY DEF Range
  <2>3. ASSUME phase[s] = "claiming"
        PROVE  \E c \in Range(calls[Home[s]]) :
                 c.op = "claim" /\ c.token = <<s, attemptsLeft[s] + 1>>
    <3>1. PICK c \in Range(calls[Home[s]]) : c.op = "claim" /\ c.token[1] = s
      BY <1>1, <2>3 DEF Inv, Waits, ClaimOf
    <3>2. c.token[2] = attemptsLeft[s] + 1
      BY <1>1, <2>1, <3>1 DEF Inv, OwnTokens
    <3>3. c.token = <<c.token[1], c.token[2]>>
      BY <1>1, <2>1, CallsType
    <3> QED
      BY <3>1, <3>2, <3>3
  <2>4. ASSUME NEW c \in Range(calls[Home[s]]), c.op = "claim",
               c.token = <<s, attemptsLeft[s] + 1>>
        PROVE  phase[s] = "claiming"
    <3>1. c.token[1] = s
      BY <2>4
    <3> QED
      BY <1>1, <2>1, <2>4, <3>1 DEF Inv, OwnTokens
  <2> QED
    BY <2>2, <2>3, <2>4
<1> QED
  BY <1>1, LeaseInvariant, PTL

\* While Redis is healthy, a client that was heard of within the TTL holds its
\* lease: no other node serves its name.
THEOREM LeaseBeating == Spec => []BeatingHoldsLease
<1>1. ASSUME Inv PROVE BeatingHoldsLease
  <2> SUFFICES ASSUME NEW n \in Node, NEW x \in Sub, healthy, calls[n] = <<>>,
                      bySubdomain[n][x] # None, bySubdomain[n][x].idle < TTL
               PROVE  Holder(x) = bySubdomain[n][x].token
    BY DEF BeatingHoldsLease
  <2>1. Range(calls[n]) = {}
    BY EmptySeq DEF Range
  <2>2. lease[x] # None /\ lease[x].token = bySubdomain[n][x].token
    BY <1>1, <2>1 DEF Inv, LeaseOutlives
  <2> QED
    BY <2>2 DEF Holder
<1> QED
  BY <1>1, LeaseInvariant, PTL

\* A lease ends by expiry or because its holder has let go of it: a release
\* that is late, or sent twice, never frees the name of the present holder.
THEOREM LeaseEnds == Spec => LeaseEndsByItsHolder
<1> DEFINE P == \A x \in Sub :
       lease[x] # None /\ (lease'[x] = None \/ lease'[x].token # lease[x].token) =>
         /\ lease'[x] = None
         /\ \/ lease[x].left = 1
            \/ \A n \in Node : bySubdomain[n][x] # None =>
                 bySubdomain[n][x].token # lease[x].token
<1>1. ASSUME Inv, [Next]_vars PROVE P
  <2>1. CASE UNCHANGED lease
    BY <2>1
  <2>2. ASSUME NEW n \in Node, Execute(n) PROVE P
    <3>1. PICK i \in DOMAIN calls[n] :
            LET c == calls[n][i]
            IN  lease' = IF Granted(c) THEN [lease EXCEPT ![c.sub] = LeaseAfter(c)]
                                       ELSE lease
      BY <1>1, <2>2, ExecuteStep
    <3> DEFINE c == calls[n][i]
    <3>2. lease' = IF Granted(c) THEN [lease EXCEPT ![c.sub] = LeaseAfter(c)] ELSE lease
      BY <3>1
    <3>3. c \in Range(calls[n])
      BY DEF Range
    <3>4. c \in Call /\ c.sub \in Sub /\ c.op \in {"claim", "heartbeat", "release"}
      BY <1>1, <3>3, CallsType DEF Call
    <3> HIDE DEF c
    <3> SUFFICES ASSUME NEW x \in Sub, lease[x] # None,
                        lease'[x] = None \/ lease'[x].token # lease[x].token
                 PROVE  /\ lease'[x] = None
                        /\ \A m \in Node : bySubdomain[m][x] # None =>
                             bySubdomain[m][x].token # lease[x].token
      OBVIOUS
    <3>5. Granted(c) /\ x = c.sub /\ lease'[x] = LeaseAfter(c)
      <4>1. lease \in [Sub -> Lease \cup {None}]
        BY <1>1 DEF Inv, TypeOK
      <4>2. CASE Granted(c) /\ x = c.sub
        BY <3>2, <4>1, <4>2
      <4>3. CASE Granted(c) /\ x # c.sub
        BY <3>2, <4>1, <4>3
      <4>4. CASE ~ Granted(c)
        BY <3>2, <4>4
      <4> QED
        BY <4>2, <4>3, <4>4
    <3>6. c.op # "claim" /\ lease[x].token = c.token
      BY <1>1, <3>4, <3>5, Scripts
    <3>7. c.op # "heartbeat"
      <4>1. SUFFICES ASSUME c.op = "heartbeat" PROVE FALSE
        OBVIOUS
      <4>2. lease'[x] = [token |-> c.token, left |-> TTL]
        BY <1>1, <3>4, <3>5, <4>1, Scripts
      <4>3. [token |-> c.token, left |-> TTL] \in Lease
        BY <3>4, LeaseAssumption DEF Lease, Call
      <4> QED
        BY <3>6, <4>2, <4>3, LeaseAssumption
    <3>8. c.op = "release" /\ lease'[x] = None
      BY <1>1, <3>4, <3>5, <3>6, <3>7, Scripts
    <3> QED
      BY <1>1, <3>3, <3>5, <3>6, <3>8, ReleasedByAll
  <2>3. CASE Tick
    <3>1. lease' = [x \in Sub |->
                 IF lease[x] = None \/ lease[x].left = 1 THEN None
                 ELSE [lease[x] EXCEPT !.left = @ - 1]]
      BY <2>3 DEF Tick
    <3> SUFFICES ASSUME NEW x \in Sub, lease[x] # None,
                        lease'[x] = None \/ lease'[x].token # lease[x].token
                 PROVE  lease'[x] = None /\ lease[x].left = 1
      OBVIOUS
    <3>2. CASE lease[x].left = 1
      BY <3>1, <3>2
    <3>3. CASE lease[x].left # 1
      <4> DEFINE l == lease[x]
                 k == [l EXCEPT !.left = @ - 1]
      <4>1. l \in Lease
        BY <1>1 DEF Inv, TypeOK
      <4>2. k \in Lease /\ k.token = l.token
        BY <3>3, <4>1, LeaseAssumption DEF Lease
      <4>3. lease'[x] = k
        BY <3>1, <3>3
      <4> HIDE DEF k
      <4> QED
        BY <4>2, <4>3, LeaseAssumption
    <3> QED
      BY <3>2, <3>3
  <2>4. CASE UNCHANGED vars
    BY <2>1, <2>4 DEF vars
  <2>5. ASSUME NEW s \in Socket,
               \/ \E x \in Sub \cup {None} : Assign(s, x)
               \/ \E x \in Sub : tryClaim(s, x)
               \/ Refuse(s)
               \/ Disconnect(s)
               \/ GoSilent(s)
               \/ Registered(s)
               \/ UndoRegistration(s)
               \/ heartbeat(s)
        PROVE  UNCHANGED lease
    BY <2>5 DEF Assign, tryClaim, Refuse, Disconnect, GoSilent, Registered,
                UndoRegistration, heartbeat
  <2>6. ASSUME NEW n \in Node,
               \/ sweepStaleSockets(n)
               \/ \E x \in Sub : findBySubdomain(n, x)
               \/ Answer(n)
               \/ Resend(n)
               \/ Reject(n)
               \/ Crash(n)
        PROVE  UNCHANGED lease
    BY <2>6 DEF sweepStaleSockets, findBySubdomain, ForceClose, Answer, ClaimAnswered,
                HeartbeatAnswered, ReleaseAnswered, Resend, Reject, Crash
  <2>7. CASE Outage
    BY <2>1, <2>7 DEF Outage
  <2> HIDE DEF P
  <2> QED
    BY <1>1, <2>1, <2>2, <2>3, <2>4, <2>5, <2>6, <2>7 DEF Next
<1>2. Inv /\ [Next]_vars => P
  BY <1>1
<1> QED
  BY <1>2, LeaseInvariant, PTL DEF Spec, LeaseEndsByItsHolder

==============================================================================
