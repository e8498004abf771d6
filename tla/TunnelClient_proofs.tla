------------------------- MODULE TunnelClient_proofs -------------------------
(***************************************************************************)
(* The tunnel client is right about its own state, and keeps its promise,  *)
(* for every configuration, bound and edition: TunnelClient, and the       *)
(* system of PublishedClient in which the configuration says which edition *)
(* of the client runs.                                                     *)
(*                                                                         *)
(* ClientIsRight is not inductive.  A client believes rightly because the  *)
(* frames behind the one it reads still tell the truth: a session that is  *)
(* closed has a close as its last frame (LinkState), a session is served   *)
(* once and says so once (RegisteredOnce).  A client that has stopped      *)
(* stays quiet because only a heartbeat can be running by then, and a      *)
(* reconnect is only ever pending behind a link that is gone (TimersRight).*)
(***************************************************************************)
EXTENDS PublishedClient, SequenceTheorems, TLAPS

\* The state of the client's socket, and what the gateway has of it.
LinkState ==
  /\ tries = 0 <=> socket = "none"
  /\ tries = 0 => verdict = None /\ ~ stopped /\ timers = {}
  /\ socket \in {"none", "connecting"} => session = "none" /\ ~ registered
  /\ session = "none" => down = <<>>
  /\ socket \in {"open", "closing"} /\ session = "closed" =>
       down # <<>> /\ down[Len(down)].type = "close"

\* Which timers may run, and who may exit.
TimersRight ==
  /\ stopped => timers \subseteq {"heartbeat"}
  /\ socket = "closing" => stopped
  /\ "reconnect" \in timers => socket \in {"terminated", "closed"}
  /\ "exit" \in timers => config.exitAfter
  /\ verdict = "exit" => config.once \/ config.exitAfter

\* A connection is told once that it is registered, with a token the client
\* has or one that is this connection's.
Tells(i) == down[i].type = "registered"

RegisteredOnce ==
  /\ registered => session \in {"serving", "closed"} /\ redirectToken # None
  /\ \A i \in DOMAIN down : Tells(i) =>
       /\ ~ registered /\ session \in {"serving", "closed"}
       /\ down[i].token \in {tries, redirectToken} \ {None}
       /\ \A j \in DOMAIN down : Tells(j) => j = i

\* A connection asks for its tunnel once, before anything else.
AsksOnce ==
  \A i \in DOMAIN up : up[i] = "register_tunnel" =>
    i = 1 /\ session \in {"auth", "idle", "closed"}

Inv ==
  /\ TypeOK /\ LinkState /\ TimersRight /\ AsksOnce /\ RegisteredOnce
  /\ StoppedIsQuiet

\* What TLC checks of the client follows from Inv.
LEMMA InvIsRight == Inv => ClientIsRight
  BY DEF Inv, LinkState, RegisteredOnce, ClientIsRight, BelievesRightly

\* Inv holds before the client is started.
LEMMA InitInv == Init => Inv
<1> SUFFICES ASSUME Init PROVE Inv
  OBVIOUS
<1>1. TypeOK
  <2>1. tries \in 0..MaxTries /\ silent \in 0..Silence
    BY ClientAssumption DEF Init
  <2>2. up \in Seq({"register_tunnel", "heartbeat"}) /\ down \in Seq(Down)
    BY EmptySeq DEF Init
  <2> QED
    BY <2>1, <2>2 DEF Init, TypeOK
<1>2. LinkState /\ TimersRight /\ StoppedIsQuiet
  BY ClientAssumption DEF Init, LinkState, TimersRight, StoppedIsQuiet, Ends
<1>3. AsksOnce /\ RegisteredOnce
  BY DEF Init, AsksOnce, RegisteredOnce
<1> QED
  BY <1>1, <1>2, <1>3 DEF Inv

-----------------------------------------------------------------------------
(***************************************************************************)
(* The gateway's steps: all of them go through Becomes.                    *)
(***************************************************************************)

\* What a gateway may do to a session and what it may say of it.
Honest(s, frames) ==
  /\ s \in Live \cup {"closed"} /\ frames \in Seq(Down)
  /\ s = "closed" => frames # <<>> /\ frames[Len(frames)].type = "close"
  /\ s \in {"serving", "closed"} \/ session # "serving"
  /\ \A i \in DOMAIN frames : frames[i].type = "registered" =>
       /\ session = "binding" /\ s = "serving" /\ frames = <<frames[i]>>
       /\ frames[i].token \in {tries, redirectToken} \ {None}

\* An honest step of the gateway leaves the client right.
LEMMA BecomesInv ==
  ASSUME Inv, NEW s, NEW frames, session \in Live, Honest(s, frames), Becomes(s, frames),
         UNCHANGED others, up' \in Seq({"register_tunnel", "heartbeat"}), AsksOnce',
         mode' \in {"accepting", "draining", "down"}, keyValid' \in BOOLEAN
  PROVE  Inv'
<1>1. /\ down \in Seq(Down) /\ frames \in Seq(Down)
      /\ down' = down \o frames /\ session' = s
      /\ UNCHANGED <<config, stopped, registered, timers, redirectToken, tries,
                     socket, silent, verdict, cut>>
  BY DEF Inv, TypeOK, Honest, Becomes, others, clientVars
<1>2. /\ down' \in Seq(Down)
      /\ DOMAIN down' = 1..(Len(down) + Len(frames)) /\ DOMAIN down = 1..Len(down)
      /\ DOMAIN frames = 1..Len(frames) /\ Len(down) \in Nat /\ Len(frames) \in Nat
      /\ Len(down') = Len(down) + Len(frames)
      /\ \A i \in 1..(Len(down) + Len(frames)) :
           down'[i] = IF i <= Len(down) THEN down[i] ELSE frames[i - Len(down)]
  BY <1>1, ConcatProperties, LenProperties
<1>3. TypeOK'
  BY <1>1, <1>2 DEF Inv, TypeOK, Honest, Live, Known
<1>4. LinkState'
  <2>1. s = "closed" => down' # <<>> /\ down'[Len(down')].type = "close"
    BY <1>1, <1>2 DEF Honest
  <2> QED
    BY <1>1, <2>1 DEF Inv, LinkState, Live, Honest
<1>5. TimersRight'
  BY <1>1 DEF Inv, TimersRight
<1>6. RegisteredOnce'
  <2>1. ~ registered \/ s \in {"serving", "closed"}
    BY DEF Inv, RegisteredOnce, Honest, Live
  <2>2. CASE \E i \in DOMAIN frames : frames[i].type = "registered"
    <3>1. PICK k \in DOMAIN frames : frames[k].type = "registered"
      BY <2>2
    <3>2. /\ session = "binding" /\ s = "serving" /\ Len(frames) = 1 /\ k = 1
          /\ frames[1].token \in {tries, redirectToken} \ {None}
      BY <1>2, <3>1 DEF Honest
    <3>3. ~ registered /\ \A i \in DOMAIN down : ~ Tells(i)
      BY <3>2 DEF Inv, RegisteredOnce
    <3>4. \A i \in DOMAIN down' : Tells(i)' => i = Len(down) + 1
      BY <1>2, <3>2, <3>3 DEF Tells
    <3>5. down'[Len(down) + 1] = frames[1]
      BY <1>2, <3>2
    <3> QED
      BY <1>1, <3>2, <3>3, <3>4, <3>5 DEF RegisteredOnce
  <2>3. CASE \A i \in DOMAIN frames : frames[i].type # "registered"
    <3>1. \A i \in DOMAIN down' : Tells(i)' => i \in DOMAIN down /\ Tells(i) /\ down'[i] = down[i]
      <4> SUFFICES ASSUME NEW i \in DOMAIN down', Tells(i)'
                   PROVE  i \in DOMAIN down /\ Tells(i) /\ down'[i] = down[i]
        OBVIOUS
      <4>1. i <= Len(down)
        <5> SUFFICES ASSUME ~ i <= Len(down) PROVE FALSE
          OBVIOUS
        <5>1. i - Len(down) \in DOMAIN frames /\ down'[i] = frames[i - Len(down)]
          BY <1>2
        <5> QED
          BY <2>3, <5>1 DEF Tells
      <4> QED
        BY <1>2, <4>1 DEF Tells
    <3>2. \A i \in DOMAIN down : Tells(i) => s \in {"serving", "closed"}
      BY DEF Inv, RegisteredOnce, Honest, Live
    <3> QED
      BY <1>1, <2>1, <3>1, <3>2 DEF Inv, RegisteredOnce
  <2> QED
    BY <2>2, <2>3
<1>7. StoppedIsQuiet'
  BY <1>1 DEF Inv, StoppedIsQuiet
<1> QED
  BY <1>3, <1>4, <1>5, <1>6, <1>7 DEF Inv

\* What the frames of the gateway are: of their type, and last of all a close.
LEMMA Frames ==
  /\ <<>> \in Seq(Down)
  /\ \A f \in Down : /\ <<f>> \in Seq(Down) /\ Len(<<f>>) = 1
                     /\ DOMAIN <<f>> = {1} /\ <<f>>[1] = f
  /\ \A f, g \in Down : /\ <<f, g>> \in Seq(Down) /\ Len(<<f, g>>) = 2
                        /\ DOMAIN <<f, g>> = {1, 2}
                        /\ <<f, g>>[1] = f /\ <<f, g>>[2] = g
  /\ Plain("error") \in Down /\ Plain("error").type # "registered"
  /\ Plain("heartbeat_ack") \in Down /\ Plain("heartbeat_ack").type # "registered"
  /\ Plain("tunnel_revoked") \in Down /\ Plain("tunnel_revoked").type # "registered"
  /\ \A c \in Codes : Close(c) \in Down /\ Close(c).type = "close"
<1>1. /\ Plain("error") \in Down /\ Plain("error").type # "registered"
      /\ Plain("heartbeat_ack") \in Down /\ Plain("heartbeat_ack").type # "registered"
      /\ Plain("tunnel_revoked") \in Down /\ Plain("tunnel_revoked").type # "registered"
  BY DEF Plain, Down
<1>2. \A c \in Codes : Close(c) \in Down /\ Close(c).type = "close"
  BY DEF Close, Down
<1>3. <<>> \in Seq(Down)
  OBVIOUS
<1>4. \A f \in Down : /\ <<f>> \in Seq(Down) /\ Len(<<f>>) = 1
                     /\ DOMAIN <<f>> = {1} /\ <<f>>[1] = f
  OBVIOUS
<1>5. \A f, g \in Down : /\ <<f, g>> \in Seq(Down) /\ Len(<<f, g>>) = 2
                        /\ DOMAIN <<f, g>> = {1, 2}
                        /\ <<f, g>>[1] = f /\ <<f, g>>[2] = g
  OBVIOUS
<1> QED
  BY <1>1, <1>2, <1>3, <1>4, <1>5

\* The gateway answers for what it was sent, and the client asked once.
LEMMA LinkStepAsksOnce ==
  ASSUME Inv, LinkStep
  PROVE  AsksOnce' /\ up' \in Seq({"register_tunnel", "heartbeat"})
<1>1. up \in Seq({"register_tunnel", "heartbeat"}) /\ AsksOnce
  BY DEF Inv, TypeOK
<1>2. CASE GatewayFrame
  <2>1. up # <<>> /\ up' = Tail(up) /\ session \in Known
    BY <1>2 DEF GatewayFrame
  <2>2. /\ up' \in Seq({"register_tunnel", "heartbeat"})
        /\ DOMAIN up = 1..Len(up) /\ DOMAIN up' = 1..(Len(up) - 1) /\ Len(up) \in Nat
        /\ \A i \in 1..(Len(up) - 1) : up'[i] = up[i + 1]
    BY <1>1, <2>1, HeadTailProperties, LenProperties
  <2>3. \A i \in DOMAIN up' : up'[i] # "register_tunnel"
    BY <1>1, <2>2 DEF AsksOnce
  <2> QED
    BY <2>2, <2>3 DEF AsksOnce
<1>3. CASE \/ Authenticated \/ Flagged \/ RegistrationFails \/ Cut \/ GatewayCloses
           \/ \E token \in Try : Registered(token)
           \/ \E key \in BOOLEAN : Revoke(key)
           \/ \E m \in {"accepting", "draining", "down"} : ModeChanges(m)
  <2>1. /\ up' = up
        /\ \/ session' = session \/ session' \in {"idle", "closed"}
           \/ session \in {"registering", "binding"}
    <3>1. CASE Authenticated
      <4>1. up' = up
        BY <3>1 DEF Authenticated
      <4>2. CASE keyValid
        BY <3>1, <4>1, <4>2 DEF Authenticated, Becomes
      <4>3. CASE ~ keyValid
        BY <3>1, <4>1, <4>3 DEF Authenticated, Becomes
      <4> QED
        BY <4>2, <4>3
    <3>2. CASE Flagged \/ RegistrationFails \/ Cut \/ GatewayCloses
      BY <3>2 DEF Flagged, RegistrationFails, Cut, GatewayCloses, Becomes, gatewayVars
    <3>3. ASSUME NEW token \in Try, Registered(token)
          PROVE  up' = up /\ session \in {"registering", "binding"}
      BY <3>3 DEF Registered
    <3>4. ASSUME NEW key \in BOOLEAN, Revoke(key)
          PROVE  up' = up /\ session' = "closed"
      BY <3>4, Zenon DEF Revoke, Becomes
    <3>5. ASSUME NEW m \in {"accepting", "draining", "down"}, ModeChanges(m)
          PROVE  up' = up /\ session' = session
      BY <3>5 DEF ModeChanges
    <3> QED
      BY <1>3, <3>1, <3>2, <3>3, <3>4, <3>5
  <2> QED
    BY <1>1, <2>1 DEF AsksOnce
<1> QED
  BY <1>2, <1>3 DEF LinkStep

\* Every step of the gateway and of the link is honest.
LEMMA LinkStepInv ==
  ASSUME Inv, LinkStep
  PROVE  Inv'
<1> USE Frames
<1> DEFINE Quiet == /\ UNCHANGED others
                    /\ up' \in Seq({"register_tunnel", "heartbeat"})
                    /\ mode' \in {"accepting", "draining", "down"} /\ keyValid' \in BOOLEAN
<1>t. /\ up \in Seq({"register_tunnel", "heartbeat"}) /\ down \in Seq(Down)
      /\ mode \in {"accepting", "draining", "down"} /\ keyValid \in BOOLEAN
  BY DEF Inv, TypeOK
<1>a. AsksOnce' /\ up' \in Seq({"register_tunnel", "heartbeat"})
  BY LinkStepAsksOnce
<1>1. CASE Authenticated
  <2>1. session = "auth" /\ Quiet
    BY <1>1, <1>t DEF Authenticated
  <2>2. CASE keyValid
    <3>1. Becomes("idle", <<>>) /\ Honest("idle", <<>>)
      BY <1>1, <2>1, <2>2 DEF Authenticated, Honest, Live
    <3> QED
      BY <1>a, <2>1, <3>1, BecomesInv DEF Live
  <2>3. CASE ~ keyValid
    <3>1. Becomes("closed", <<Close(4401)>>) /\ Honest("closed", <<Close(4401)>>)
      BY <1>1, <2>1, <2>3 DEF Authenticated, Honest, Live, Codes
    <3> QED
      BY <1>a, <2>1, <3>1, BecomesInv DEF Live
  <2> QED
    BY <2>2, <2>3
<1>2. CASE GatewayFrame
  <2>1. session \in Live /\ up # <<>> /\ up' = Tail(up) /\ Quiet
    BY <1>2, <1>t, HeadTailProperties DEF GatewayFrame, Known
  <2>2. CASE Head(up) = "register_tunnel"
    <3>1. Becomes("registering", <<>>) /\ session # "serving"
      BY <1>2, <1>t, <2>1, <2>2, LenProperties DEF GatewayFrame, Inv, AsksOnce
    <3>2. Honest("registering", <<>>)
      BY <2>1, <3>1 DEF Honest, Live
    <3> QED
      BY <1>a, <2>1, <3>1, <3>2, BecomesInv
  <2>3. CASE Head(up) # "register_tunnel"
    <3>1. PICK type \in {"error", "heartbeat_ack"} : Becomes(session, <<Plain(type)>>)
      BY <1>2, <2>3, Zenon DEF GatewayFrame
    <3>2. Honest(session, <<Plain(type)>>)
      BY <2>1, <3>1 DEF Honest, Live
    <3> QED
      BY <1>a, <2>1, <3>1, <3>2, BecomesInv
  <2> QED
    BY <2>2, <2>3
<1>3. CASE Flagged
  <2>1. session = "registering" /\ Quiet /\ Becomes("binding", <<>>)
    BY <1>3, <1>t DEF Flagged
  <2>2. Honest("binding", <<>>)
    BY <2>1 DEF Honest, Live
  <2> QED
    BY <1>a, <2>1, <2>2, BecomesInv DEF Live
<1>4. ASSUME NEW token \in Try, Registered(token) PROVE Inv'
  <2> DEFINE f == [type |-> "registered", token |-> token]
  <2>1. session = "binding" /\ Quiet /\ Becomes("serving", <<f>>)
    BY <1>4, <1>t DEF Registered
  <2>2. f \in Down /\ f.type = "registered" /\ f.token \in {tries, redirectToken} \ {None}
    BY <1>4 DEF Down, Registered
  <2> HIDE DEF f
  <2>3. Honest("serving", <<f>>)
    BY <2>1, <2>2 DEF Honest, Live
  <2> QED
    BY <1>a, <2>1, <2>3, BecomesInv DEF Live
<1>5. CASE RegistrationFails
  <2>1. session \in {"registering", "binding"} /\ Quiet /\ Becomes("idle", <<Plain("error")>>)
    BY <1>5, <1>t DEF RegistrationFails
  <2>2. Honest("idle", <<Plain("error")>>)
    BY <2>1 DEF Honest, Live
  <2> QED
    BY <1>a, <2>1, <2>2, BecomesInv DEF Live
<1>6. ASSUME NEW key \in BOOLEAN, Revoke(key) PROVE Inv'
  <2>1. session \in Live /\ Quiet
    BY <1>6, <1>t DEF Revoke, Known
  <2>2. PICK c \in {4401, 4000} : Becomes("closed", <<Plain("tunnel_revoked"), Close(c)>>)
    <3>1. CASE key
      BY <1>6, <3>1 DEF Revoke
    <3>2. CASE ~ key
      BY <1>6, <3>2 DEF Revoke
    <3> QED
      BY <3>1, <3>2
  <2>3. Close(c) \in Down /\ Close(c).type = "close"
    BY DEF Codes
  <2>4. Honest("closed", <<Plain("tunnel_revoked"), Close(c)>>)
    BY <2>1, <2>3 DEF Honest, Live
  <2> QED
    BY <1>a, <2>1, <2>2, <2>4, BecomesInv
<1>7. CASE GatewayCloses
  <2>1. session \in Live /\ Quiet /\ Becomes("closed", <<Close(4000)>>)
    BY <1>7, <1>t DEF GatewayCloses
  <2>2. Close(4000) \in Down /\ Close(4000).type = "close"
    BY DEF Codes
  <2>3. Honest("closed", <<Close(4000)>>)
    BY <2>1, <2>2 DEF Honest, Live
  <2> QED
    BY <1>a, <2>1, <2>3, BecomesInv
<1>8. CASE Cut \/ \E m \in {"accepting", "draining", "down"} : ModeChanges(m)
  <2>1. /\ UNCHANGED <<clientVars, up, down, keyValid, session>>
        /\ cut' \in BOOLEAN /\ mode' \in {"accepting", "draining", "down"}
    BY <1>8, Zenon DEF Cut, ModeChanges, others, gatewayVars, Inv, TypeOK
  <2> QED
    BY <2>1 DEF clientVars, Inv, TypeOK, LinkState, TimersRight, AsksOnce,
                RegisteredOnce, Tells, StoppedIsQuiet
<1> QED
  BY <1>1, <1>2, <1>3, <1>4, <1>5, <1>6, <1>7, <1>8 DEF LinkStep

-----------------------------------------------------------------------------
(***************************************************************************)
(* The client's steps.  The two editions differ in which timers they keep  *)
(* and how they schedule a reconnect, so each lemma says only what both    *)
(* leave of those.                                                         *)
(***************************************************************************)

\* A fresh socket starts with an empty link, and nothing is believed of it.
LEMMA ConnectInv ==
  ASSUME Inv, Connect, ~ stopped, timers' \subseteq {"heartbeat", "exit"},
         "exit" \in timers' => config.exitAfter,
         UNCHANGED <<config, stopped, redirectToken, silent, verdict, mode, keyValid>>
  PROVE  Inv'
<1>1. tries \in Nat /\ tries' \in 0..MaxTries /\ tries' # 0
  BY ClientAssumption DEF Inv, TypeOK, Connect
<1>2. up' = <<>> /\ down' = <<>>
  BY DEF Connect
<1>3. TypeOK'
  <2>1. up' \in Seq({"register_tunnel", "heartbeat"}) /\ down' \in Seq(Down)
    BY <1>2, EmptySeq
  <2> QED
    BY <1>1, <2>1 DEF Inv, TypeOK, Connect
<1>4. LinkState'
  BY <1>1 DEF Inv, LinkState, Connect
<1>5. TimersRight' /\ StoppedIsQuiet'
  BY DEF Inv, TimersRight, StoppedIsQuiet, Connect
<1>6. AsksOnce' /\ RegisteredOnce'
  BY <1>2 DEF AsksOnce, RegisteredOnce, Connect
<1> QED
  BY <1>3, <1>4, <1>5, <1>6 DEF Inv

\* The socket opens: the client asks, the gateway authenticates or declines.
LEMMA OpenedInv ==
  ASSUME Inv, Opened
  PROVE  Inv'
<1>1. /\ socket = "connecting" /\ socket' = "open" /\ tries # 0
      /\ down = <<>> /\ session = "none" /\ ~ registered
      /\ timers' = timers \cup {"heartbeat"} /\ silent' = 0
      /\ UNCHANGED <<config, stopped, registered, redirectToken, tries, verdict, cut, mode, keyValid>>
  BY DEF Opened, Inv, LinkState
<1>2. /\ up' = <<"register_tunnel">> /\ DOMAIN up' = {1}
      /\ up' \in Seq({"register_tunnel", "heartbeat"})
  BY DEF Opened
<1>3. \/ down' = <<>> /\ session' = "auth"
      \/ down' = <<Plain("error"), Close(1013)>> /\ session' = "closed"
  BY <1>1 DEF Opened
<1>4. /\ down' \in Seq(Down) /\ \A i \in DOMAIN down' : ~ Tells(i)'
      /\ session' = "closed" => down' # <<>> /\ down'[Len(down')].type = "close"
  <2>1. CASE down' = <<>> /\ session' = "auth"
    BY <2>1, EmptySeq
  <2>2. CASE down' = <<Plain("error"), Close(1013)>> /\ session' = "closed"
    <3>1. Close(1013) \in Down /\ Close(1013).type = "close"
      BY Frames DEF Codes
    <3> QED
      BY <2>2, <3>1, Frames DEF Tells
  <2> QED
    BY <1>3, <2>1, <2>2
<1>5. TypeOK'
  BY <1>1, <1>2, <1>3, <1>4, ClientAssumption DEF Inv, TypeOK, Live
<1>6. LinkState'
  BY <1>1, <1>3, <1>4 DEF Inv, LinkState
<1>7. TimersRight' /\ StoppedIsQuiet'
  BY <1>1 DEF Inv, TimersRight, StoppedIsQuiet
<1>8. AsksOnce' /\ RegisteredOnce'
  BY <1>1, <1>2, <1>3, <1>4 DEF AsksOnce, RegisteredOnce
<1> QED
  BY <1>5, <1>6, <1>7, <1>8 DEF Inv

\* stop() by the owner.
LEMMA StopCalledInv ==
  ASSUME Inv, tries > 0, ~ stopped, stopped' = TRUE, timers' = {},
         socket' = (IF socket = "open" THEN "closing" ELSE socket),
         verdict' = (IF socket = "connecting" THEN "early" ELSE "stopped"),
         UNCHANGED <<config, registered, redirectToken, tries, silent, linkVars, gatewayVars>>
  PROVE  Inv'
<1>1. UNCHANGED <<config, registered, redirectToken, tries, silent, up, down, cut, mode,
                  keyValid, session>>
  BY DEF linkVars, gatewayVars
<1>2. TypeOK'
  BY <1>1 DEF Inv, TypeOK, Ends
<1>3. LinkState'
  BY <1>1 DEF Inv, LinkState
<1>4. TimersRight' /\ StoppedIsQuiet'
  BY <1>1 DEF Inv, TypeOK, LinkState, TimersRight, StoppedIsQuiet
<1>5. AsksOnce' /\ RegisteredOnce'
  BY <1>1 DEF Inv, AsksOnce, RegisteredOnce, Tells
<1> QED
  BY <1>2, <1>3, <1>4, <1>5 DEF Inv

\* The socket errs while connecting, or the process gives up on it.
LEMMA SocketEndsInv ==
  ASSUME Inv, tries # 0, socket' \in {"terminated", "closed"},
         timers' \subseteq timers \cup {"reconnect"},
         stopped => timers' \subseteq timers,
         \/ verdict' = verdict
         \/ verdict' = "exit" /\ (config.once \/ config.exitAfter) /\ (stopped => timers' = {}),
         UNCHANGED <<config, stopped, registered, redirectToken, tries, silent, linkVars,
                     gatewayVars>>
  PROVE  Inv'
<1>1. UNCHANGED <<config, stopped, registered, redirectToken, tries, silent, up, down, cut,
                  mode, keyValid, session>>
  BY DEF linkVars, gatewayVars
<1>2. TypeOK'
  BY <1>1 DEF Inv, TypeOK, Ends
<1>3. LinkState'
  BY <1>1 DEF Inv, LinkState
<1>4. TimersRight' /\ StoppedIsQuiet'
  BY <1>1 DEF Inv, TimersRight, StoppedIsQuiet
<1>5. AsksOnce' /\ RegisteredOnce'
  BY <1>1 DEF Inv, AsksOnce, RegisteredOnce, Tells
<1> QED
  BY <1>2, <1>3, <1>4, <1>5 DEF Inv

\* What scheduleReconnect does, whichever timers are left to run.
LEMMA ScheduleReconnectEffect ==
  ASSUME NEW running, ScheduleReconnect(running)
  PROVE  /\ timers' \in {running, running \cup {"reconnect"}}
         /\ stopped => timers' = running
         /\ \/ verdict' = verdict
            \/ verdict' = "exit" /\ config.once /\ ~ stopped
  BY DEF ScheduleReconnect

\* A heartbeat is sent, or held back.
LEMMA BeatInv ==
  ASSUME Inv, up' = up \/ up' = Append(up, "heartbeat"), silent' \in 0..Silence,
         UNCHANGED <<config, stopped, registered, timers, redirectToken, tries, socket,
                     verdict, down, cut, gatewayVars>>
  PROVE  Inv'
<1>1. UNCHANGED <<config, stopped, registered, timers, redirectToken, tries, socket, verdict,
                  down, cut, mode, keyValid, session>>
  BY DEF gatewayVars
<1>2. /\ up' \in Seq({"register_tunnel", "heartbeat"})
      /\ \A i \in DOMAIN up' : up'[i] = "register_tunnel" =>
           i \in DOMAIN up /\ up[i] = "register_tunnel"
  <2>1. up \in Seq({"register_tunnel", "heartbeat"})
    BY DEF Inv, TypeOK
  <2>2. CASE up' = up
    BY <2>1, <2>2
  <2>3. CASE up' = Append(up, "heartbeat")
    BY <2>1, <2>3, AppendProperties, LenProperties
  <2> QED
    BY <2>2, <2>3
<1>3. TypeOK'
  BY <1>1, <1>2 DEF Inv, TypeOK
<1>4. LinkState' /\ TimersRight' /\ StoppedIsQuiet'
  BY <1>1 DEF Inv, LinkState, TimersRight, StoppedIsQuiet
<1>5. AsksOnce'
  BY <1>1, <1>2 DEF Inv, AsksOnce
<1>6. RegisteredOnce'
  BY <1>1 DEF Inv, RegisteredOnce, Tells
<1> QED
  BY <1>3, <1>4, <1>5, <1>6 DEF Inv

\* A tick of the heartbeat, with the liveness check.
LEMMA HeartbeatTickInv ==
  ASSUME Inv, HeartbeatTick
  PROVE  Inv'
<1>1. CASE GatewaySilent
  <2>1. /\ socket' = "terminated" /\ ScheduleReconnect(timers \ {"heartbeat"})
        /\ UNCHANGED <<silent, up, config, stopped, registered, redirectToken, tries, down,
                       cut, gatewayVars>>
    BY <1>1 DEF HeartbeatTick
  <2>2. tries # 0
    BY DEF HeartbeatTick, Inv, LinkState
  <2>3. /\ timers' \subseteq timers \cup {"reconnect"}
        /\ stopped => timers' \subseteq timers
        /\ \/ verdict' = verdict
           \/ verdict' = "exit" /\ config.once /\ ~ stopped
    BY <2>1, ScheduleReconnectEffect
  <2>4. UNCHANGED linkVars
    BY <2>1 DEF linkVars
  <2> QED
    BY <2>1, <2>2, <2>3, <2>4, SocketEndsInv
<1>2. CASE ~ GatewaySilent
  <2>1. /\ silent' = IF config.liveness THEN silent + 1 ELSE silent
        /\ up' = up \/ up' = Append(up, "heartbeat")
        /\ UNCHANGED <<config, stopped, registered, timers, redirectToken, tries, socket,
                       verdict, down, cut, gatewayVars>>
    BY <1>2 DEF HeartbeatTick
  <2>2. silent' \in 0..Silence
    BY <1>2, <2>1, ClientAssumption DEF GatewaySilent, Inv, TypeOK
  <2> QED
    BY <2>1, <2>2, BeatInv
<1> QED
  BY <1>1, <1>2

\* What is known of the frame that the client reads, and of those behind it.
LEMMA ReceivesFacts ==
  ASSUME Inv, NEW type, Receives(type), type # "close"
  PROVE  /\ Head(down) \in Down /\ down' \in Seq(Down)
         /\ tries # 0 /\ session # "none"
         /\ session = "closed" => down' # <<>> /\ down'[Len(down')].type = "close"
         /\ type = "registered" =>
              /\ ~ registered /\ session \in {"serving", "closed"}
              /\ Head(down).token \in {tries, redirectToken} \ {None}
         /\ \A i \in DOMAIN down' : Tells(i)' =>
              /\ type # "registered" /\ ~ registered /\ session \in {"serving", "closed"}
              /\ down'[i].token \in {tries, redirectToken} \ {None}
              /\ \A j \in DOMAIN down' : Tells(j)' => j = i
<1>1. /\ down # <<>> /\ Head(down).type = type /\ down' = Tail(down) /\ down \in Seq(Down)
      /\ socket \in {"open", "closing"}
  BY DEF Receives, Inv, TypeOK
<1>2. /\ Head(down) \in Down /\ down' \in Seq(Down)
      /\ DOMAIN down = 1..Len(down) /\ DOMAIN down' = 1..(Len(down) - 1)
      /\ Len(down) \in Nat /\ Len(down) > 0 /\ Len(down') = Len(down) - 1
      /\ Head(down) = down[1] /\ \A i \in 1..(Len(down) - 1) : down'[i] = down[i + 1]
  BY <1>1, HeadTailProperties, LenProperties, EmptySeq
<1>3. tries # 0 /\ session # "none"
  BY <1>1 DEF Inv, LinkState
<1>4. session = "closed" => down' # <<>> /\ down'[Len(down')].type = "close"
  <2> SUFFICES ASSUME session = "closed"
               PROVE  down' # <<>> /\ down'[Len(down')].type = "close"
    OBVIOUS
  <2>1. down[Len(down)].type = "close"
    BY <1>1 DEF Inv, LinkState
  <2>2. Len(down) # 1
    BY <1>1, <1>2, <2>1
  <2>3. down' # <<>> /\ down'[Len(down')] = down[Len(down)]
    BY <1>2, <2>2
  <2> QED
    BY <2>1, <2>3
<1>5. type = "registered" =>
        /\ ~ registered /\ session \in {"serving", "closed"}
        /\ Head(down).token \in {tries, redirectToken} \ {None}
  BY <1>1, <1>2 DEF Inv, RegisteredOnce, Tells
<1>6. ASSUME NEW i \in DOMAIN down', Tells(i)'
      PROVE  /\ type # "registered" /\ ~ registered /\ session \in {"serving", "closed"}
             /\ down'[i].token \in {tries, redirectToken} \ {None}
             /\ \A j \in DOMAIN down' : Tells(j)' => j = i
  <2>1. i + 1 \in DOMAIN down /\ down'[i] = down[i + 1] /\ Tells(i + 1)
    BY <1>2, <1>6 DEF Tells
  <2>2. type # "registered"
    BY <1>1, <1>2, <2>1 DEF Inv, RegisteredOnce, Tells
  <2>3. ASSUME NEW j \in DOMAIN down', Tells(j)' PROVE j = i
    <3>1. j + 1 \in DOMAIN down /\ Tells(j + 1)
      BY <1>2, <2>3 DEF Tells
    <3>2. j + 1 = i + 1
      BY <2>1, <3>1 DEF Inv, RegisteredOnce
    <3> QED
      BY <1>2, <3>2
  <2> QED
    BY <2>1, <2>2, <2>3 DEF Inv, RegisteredOnce
<1> QED
  BY <1>2, <1>3, <1>4, <1>5, <1>6

\* A frame that settles nothing: an acknowledgement, or an error of a tunnel that is up.
LEMMA AckInv ==
  ASSUME Inv, NEW type, Receives(type), type # "close", timers' \subseteq timers,
         UNCHANGED <<stopped, registered, redirectToken, socket, verdict>>
  PROVE  Inv'
<1>1. /\ UNCHANGED <<config, stopped, registered, redirectToken, tries, socket, verdict, up,
                     cut, mode, keyValid, session>>
      /\ silent' = 0
  BY DEF Receives, gatewayVars
<1>2. TypeOK'
  BY <1>1, ReceivesFacts, ClientAssumption DEF Inv, TypeOK
<1>3. LinkState'
  BY <1>1, ReceivesFacts DEF Inv, LinkState
<1>4. TimersRight' /\ StoppedIsQuiet'
  BY <1>1 DEF Inv, TimersRight, StoppedIsQuiet
<1>5. AsksOnce'
  BY <1>1 DEF Inv, AsksOnce
<1>6. RegisteredOnce'
  BY <1>1, ReceivesFacts DEF Inv, RegisteredOnce
<1> QED
  BY <1>2, <1>3, <1>4, <1>5, <1>6 DEF Inv

\* The tunnel is registered.
LEMMA RegisteredInv ==
  ASSUME Inv, Receives("registered"), timers' \subseteq timers, registered' = TRUE,
         redirectToken' = Head(down).token, UNCHANGED <<stopped, socket, verdict>>
  PROVE  Inv'
<1>1. /\ UNCHANGED <<config, stopped, tries, socket, verdict, up, cut, mode, keyValid, session>>
      /\ silent' = 0
  BY DEF Receives, gatewayVars
<1>2. /\ Head(down).token \in {tries, redirectToken} \ {None} /\ down' \in Seq(Down)
      /\ session \in {"serving", "closed"} /\ tries # 0
      /\ \A i \in DOMAIN down' : ~ Tells(i)'
      /\ session = "closed" => down' # <<>> /\ down'[Len(down')].type = "close"
  BY ReceivesFacts
<1>3. socket \in {"open", "closing"}
  BY DEF Receives
<1>4. TypeOK'
  <2>1. redirectToken' \in Try \cup {None}
    BY <1>2, ClientAssumption DEF Inv, TypeOK, Try
  <2> QED
    BY <1>1, <1>2, <2>1, ClientAssumption DEF Inv, TypeOK
<1>5. LinkState'
  BY <1>1, <1>2, <1>3 DEF Inv, LinkState
<1>6. TimersRight' /\ StoppedIsQuiet'
  BY <1>1 DEF Inv, TimersRight, StoppedIsQuiet
<1>7. AsksOnce' /\ RegisteredOnce'
  BY <1>1, <1>2 DEF Inv, AsksOnce, RegisteredOnce
<1> QED
  BY <1>4, <1>5, <1>6, <1>7 DEF Inv

\* The gateway tells the client to stop.
LEMMA ToldToStopInv ==
  ASSUME Inv, NEW type, Receives(type), type # "close", stopped' = TRUE, timers' = {},
         socket' = (IF socket = "open" THEN "closing" ELSE socket),
         verdict' \in {"fatal", "revoked"}, UNCHANGED <<registered, redirectToken>>
  PROVE  Inv'
<1>1. /\ UNCHANGED <<config, registered, redirectToken, tries, up, cut, mode, keyValid, session>>
      /\ silent' = 0 /\ socket' = "closing" /\ socket \in {"open", "closing"}
  BY DEF Receives, gatewayVars
<1>2. TypeOK'
  BY <1>1, ReceivesFacts, ClientAssumption DEF Inv, TypeOK, Ends
<1>3. LinkState'
  BY <1>1, ReceivesFacts DEF Inv, LinkState
<1>4. TimersRight' /\ StoppedIsQuiet'
  BY <1>1 DEF TimersRight, StoppedIsQuiet, Inv
<1>5. AsksOnce'
  BY <1>1 DEF Inv, AsksOnce
<1>6. RegisteredOnce'
  BY <1>1, ReceivesFacts DEF Inv, RegisteredOnce
<1> QED
  BY <1>2, <1>3, <1>4, <1>5, <1>6 DEF Inv

\* The close event, by either edition.
LEMMA ClosedInv ==
  ASSUME Inv, socket \in {"open", "closing", "terminated"}, socket' = "closed", down' = <<>>,
         \/ stopped' = TRUE /\ timers' = {} /\ verdict' = "fatal"
         \/ /\ UNCHANGED stopped /\ timers' \subseteq timers \cup {"reconnect"}
            /\ stopped => timers' \subseteq timers
            /\ \/ verdict' = verdict
               \/ verdict' = "exit" /\ config.once /\ ~ stopped,
         UNCHANGED <<config, registered, redirectToken, tries, silent, up, cut, gatewayVars>>
  PROVE  Inv'
<1>1. UNCHANGED <<config, registered, redirectToken, tries, silent, up, cut, mode, keyValid,
                  session>>
  BY DEF gatewayVars
<1>2. TypeOK'
  BY <1>1, EmptySeq DEF Inv, TypeOK, Ends
<1>3. LinkState'
  BY <1>1 DEF Inv, LinkState
<1>4. TimersRight' /\ StoppedIsQuiet'
  BY <1>1 DEF Inv, TimersRight, StoppedIsQuiet
<1>5. AsksOnce' /\ RegisteredOnce'
  BY <1>1 DEF Inv, AsksOnce, RegisteredOnce
<1> QED
  BY <1>2, <1>3, <1>4, <1>5 DEF Inv

\* The steps that the command line asks for.
LEMMA CommandLineStepInv ==
  ASSUME Inv, CommandLineStep
  PROVE  Inv'
<1>1. CASE Start
  BY <1>1, ConnectInv DEF Start
<1>2. CASE StopCalled
  BY <1>2, StopCalledInv DEF StopCalled, Stop
<1>3. CASE ConnectFails
  <2>1. tries # 0
    BY <1>3 DEF ConnectFails, Inv, LinkState
  <2> QED
    BY <1>3, <2>1, SocketEndsInv DEF ConnectFails
<1>4. CASE ExitTimer
  <2>1. tries # 0 /\ config.exitAfter
    BY <1>4 DEF ExitTimer, Inv, LinkState, TimersRight
  <2> QED
    BY <1>4, <2>1, SocketEndsInv DEF ExitTimer
<1> QED
  BY <1>1, <1>2, <1>3, <1>4 DEF CommandLineStep

\* The client's own steps.
LEMMA ClientStepInv ==
  ASSUME Inv, ClientStep
  PROVE  Inv'
<1>1. CASE ReconnectTimer
  BY <1>1, ConnectInv DEF ReconnectTimer, Inv, TypeOK, TimersRight
<1>2. CASE GotRegistered
  BY <1>2, RegisteredInv DEF GotRegistered
<1>3. CASE GotAck
  BY <1>3, AckInv DEF GotAck
<1>4. CASE GotError
  <2>1. CASE registered
    BY <1>4, <2>1, AckInv DEF GotError
  <2>2. CASE ~ registered
    BY <1>4, <2>2, ToldToStopInv DEF GotError, Stop
  <2> QED
    BY <2>1, <2>2
<1>5. CASE GotRevoked
  BY <1>5, ToldToStopInv DEF GotRevoked, Stop
<1>6. ASSUME NEW code \in Codes, SocketClosed(code) PROVE Inv'
  <2>1. /\ socket \in {"open", "closing", "terminated"} /\ socket' = "closed" /\ down' = <<>>
        /\ UNCHANGED <<config, registered, redirectToken, tries, silent, up, cut, gatewayVars>>
    BY <1>6 DEF SocketClosed
  <2>2. CASE Rejected(code)
    BY <1>6, <2>1, <2>2, ClosedInv DEF SocketClosed
  <2>3. CASE ~ Rejected(code)
    <3>1. ScheduleReconnect(timers \ {"heartbeat"}) /\ UNCHANGED stopped
      BY <1>6, <2>3 DEF SocketClosed
    <3>2. /\ timers' \subseteq timers \cup {"reconnect"}
          /\ stopped => timers' \subseteq timers
          /\ \/ verdict' = verdict
             \/ verdict' = "exit" /\ config.once /\ ~ stopped
      BY <3>1, ScheduleReconnectEffect
    <3> QED
      BY <2>1, <3>1, <3>2, ClosedInv
  <2> QED
    BY <2>2, <2>3
<1> QED
  BY <1>1, <1>2, <1>3, <1>4, <1>5, <1>6, OpenedInv, HeartbeatTickInv DEF ClientStep

\* The steps of the published edition: it has no exit timer to leave running.
LEMMA PublishedStepInv ==
  ASSUME Inv, config = Published, PublishedStep
  PROVE  Inv'
<1>1. "exit" \notin timers /\ timers \subseteq {"heartbeat", "reconnect", "exit"}
  BY DEF Inv, TypeOK, TimersRight, Published
<1>2. CASE PublishedStart
  BY <1>1, <1>2, ConnectInv DEF PublishedStart, Inv, LinkState
<1>3. CASE PublishedStopCalled
  BY <1>1, <1>3, StopCalledInv DEF PublishedStopCalled, PublishedStop
<1>4. CASE PublishedRegistered
  BY <1>4, RegisteredInv DEF PublishedRegistered
<1>5. CASE PublishedError
  <2>1. CASE registered
    BY <1>5, <2>1, AckInv DEF PublishedError
  <2>2. CASE ~ registered
    BY <1>1, <1>5, <2>2, ToldToStopInv DEF PublishedError, PublishedStop
  <2> QED
    BY <2>1, <2>2
<1>6. CASE PublishedRevoked
  BY <1>1, <1>6, ToldToStopInv DEF PublishedRevoked, PublishedStop
<1>7. CASE PublishedHeartbeat
  BY <1>7, BeatInv DEF PublishedHeartbeat, clientVars, Inv, TypeOK
<1>8. ASSUME NEW code \in Codes, PublishedClosed(code) PROVE Inv'
  <2>1. /\ socket \in {"open", "closing", "terminated"} /\ socket' = "closed" /\ down' = <<>>
        /\ UNCHANGED <<config, registered, redirectToken, tries, silent, up, cut, gatewayVars>>
    BY <1>8 DEF PublishedClosed
  <2>2. CASE Rejected(code)
    BY <1>8, <2>1, <2>2, ClosedInv DEF PublishedClosed
  <2>3. CASE ~ Rejected(code)
    BY <1>8, <2>1, <2>3, ClosedInv DEF PublishedClosed, PublishedScheduleReconnect, Inv, TypeOK
  <2> QED
    BY <2>2, <2>3
<1>9. CASE PublishedOpened \/ PublishedFails \/ PublishedAck \/ PublishedReconnects
  BY <1>9, ClientStepInv, CommandLineStepInv
  DEF PublishedOpened, PublishedFails, PublishedAck, PublishedReconnects, ClientStep, CommandLineStep
<1> QED
  BY <1>2, <1>3, <1>4, <1>5, <1>6, <1>7, <1>8, <1>9 DEF PublishedStep

\* Inv survives every step of either system.
LEMMA NextInv == Inv /\ [Next \/ TwoClients]_vars => Inv'
<1>1. ASSUME Inv, UNCHANGED vars PROVE Inv'
  BY <1>1 DEF vars, clientVars, linkVars, gatewayVars, Inv, TypeOK, LinkState, TimersRight,
              AsksOnce, RegisteredOnce, Tells, StoppedIsQuiet
<1> QED
  BY <1>1, CommandLineStepInv, ClientStepInv, LinkStepInv, PublishedStepInv
  DEF Next, TwoClients

-----------------------------------------------------------------------------
(***************************************************************************)
(* The promise.  A step of either edition is a step of TunnelPromise, or   *)
(* one that changes nothing of what is promised.                           *)
(***************************************************************************)
Keeps == Promise!Next \/ UNCHANGED Promise!vars

\* A step that changes neither what the client believes nor its tries.
LEMMA StutterKeeps ==
  ASSUME UNCHANGED <<stopped, verdict, tries, redirectToken>>,
         (registered /\ socket = "open") = (registered /\ socket = "open")'
  PROVE  Keeps
  BY DEF Keeps, Promise!vars, Alive

\* A client that has ended stays so, and its page may still be this connection's.
LEMMA EndedKeeps ==
  ASSUME stopped \/ ~ Alive, stopped' \/ ~ Alive', tries # 0, tries \in Nat, UNCHANGED tries,
         redirectToken' \in {tries, redirectToken}
  PROVE  Keeps
<1>1. CASE redirectToken' = redirectToken
  BY <1>1 DEF Keeps, Promise!vars
<1>2. CASE redirectToken' = tries
  BY <1>2 DEF Keeps, Promise!Next, Promise!Late
<1> QED
  BY <1>1, <1>2

\* A client may end at any time.
LEMMA EndKeeps ==
  ASSUME ~ stopped, Alive, stopped' \/ ~ Alive', UNCHANGED <<tries, redirectToken>>
  PROVE  Keeps
  BY DEF Keeps, Promise!Next, Promise!End

\* A client that goes on connects again only if it is not serving.
LEMMA ConnectKeeps ==
  ASSUME ~ stopped, Alive, tries \in Nat, tries < MaxTries, tries' = tries + 1,
         ~ (registered /\ socket = "open"), socket' = "connecting",
         UNCHANGED <<stopped, verdict, redirectToken>>
  PROVE  Keeps
  BY DEF Keeps, Promise!Next, Promise!Try, Alive

\* A client that loses its tunnel is trying again.
LEMMA LoseKeeps ==
  ASSUME tries # 0, socket' # "open", UNCHANGED <<stopped, verdict, tries, redirectToken>>
  PROVE  Keeps
  BY DEF Keeps, Promise!Next, Promise!Lose, Promise!vars, Alive

\* Being registered is serving, on the page that the gateway gave.
LEMMA RegisteredKeeps ==
  ASSUME Inv, Alive, Receives("registered"), registered' = TRUE,
         redirectToken' = Head(down).token, UNCHANGED <<stopped, socket, verdict>>
  PROVE  Keeps
<1>1. /\ ~ registered /\ tries # 0 /\ tries \in Nat /\ UNCHANGED tries
      /\ redirectToken' \in {tries, redirectToken} \ {None}
  BY ReceivesFacts, ClientAssumption DEF Receives, Inv, TypeOK
<1>2. CASE stopped
  BY <1>1, <1>2, EndedKeeps
<1>3. CASE ~ stopped
  <2>1. socket = "open"
    BY <1>3 DEF Receives, Inv, TimersRight
  <2>2. Promise!Serve
    BY <1>1, <1>3, <2>1 DEF Promise!Serve, Alive
  <2> QED
    BY <2>2 DEF Keeps, Promise!Next
<1> QED
  BY <1>2, <1>3

\* The close event, by either edition.
LEMMA ClosedKeeps ==
  ASSUME Inv, Alive, socket # "none", socket' = "closed", 
         \/ stopped' = TRUE
         \/ UNCHANGED stopped /\ (verdict' = verdict \/ verdict' = "exit"),
         UNCHANGED <<tries, redirectToken>>
  PROVE  Keeps
<1>1. tries # 0 /\ tries \in Nat
  BY ClientAssumption DEF Inv, LinkState, TypeOK
<1>2. CASE stopped
  BY <1>1, <1>2, EndedKeeps
<1>3. CASE ~ stopped /\ (stopped' \/ ~ Alive')
  BY <1>3, EndKeeps
<1>4. CASE ~ stopped /\ ~ stopped' /\ Alive'
  BY <1>1, <1>4, LoseKeeps DEF Alive
<1> QED
  BY <1>2, <1>3, <1>4 DEF Inv, TypeOK

\* The steps that the command line asks for.
LEMMA CommandLineStepKeeps ==
  ASSUME Inv, CommandLineStep
  PROVE  Keeps
<1>1. tries \in Nat /\ MaxTries \in Nat /\ stopped \in BOOLEAN
  BY ClientAssumption DEF Inv, TypeOK
<1>2. CASE Start
  <2>1. Alive /\ ~ registered
    BY <1>2, ClientAssumption DEF Start, Inv, LinkState, Alive, Ends
  <2> QED
    BY <1>1, <1>2, <2>1, ConnectKeeps DEF Start, Connect
<1>3. CASE StopCalled
  BY <1>3, EndKeeps DEF StopCalled, Stop
<1>4. CASE ConnectFails
  <2>1. ~ registered
    BY <1>4 DEF ConnectFails, Inv, LinkState
  <2> QED
    BY <1>4, <2>1, StutterKeeps DEF ConnectFails
<1>5. CASE ExitTimer
  <2>1. tries # 0 /\ ~ Alive' /\ UNCHANGED <<tries, redirectToken, stopped>> /\ Alive
    BY <1>5 DEF ExitTimer, Inv, LinkState, Alive
  <2> QED
    BY <1>1, <2>1, EndedKeeps, EndKeeps
<1> QED
  BY <1>2, <1>3, <1>4, <1>5 DEF CommandLineStep

\* The client's own steps.
LEMMA ClientStepKeeps ==
  ASSUME Inv, ClientStep
  PROVE  Keeps
<1>1. tries \in Nat /\ MaxTries \in Nat /\ stopped \in BOOLEAN
  BY ClientAssumption DEF Inv, TypeOK
<1>2. CASE Opened
  <2>1. ~ registered
    BY <1>2 DEF Opened, Inv, LinkState
  <2> QED
    BY <1>2, <2>1, StutterKeeps DEF Opened
<1>3. CASE ReconnectTimer
  <2>1. ~ stopped /\ socket # "open"
    BY <1>3 DEF ReconnectTimer, Inv, TimersRight
  <2> QED
    BY <1>1, <1>3, <2>1, ConnectKeeps DEF ReconnectTimer, Connect
<1>4. CASE HeartbeatTick
  <2>1. tries # 0 /\ Alive /\ UNCHANGED <<stopped, registered, redirectToken, tries>>
    BY <1>4 DEF HeartbeatTick, Inv, LinkState
  <2>2. CASE GatewaySilent
    <3>1. socket' = "terminated" /\ ScheduleReconnect(timers \ {"heartbeat"})
      BY <1>4, <2>2 DEF HeartbeatTick
    <3>2. verdict' = verdict \/ ~ Alive'
      BY <3>1, ScheduleReconnectEffect DEF Alive
    <3>3. CASE stopped
      BY <1>1, <2>1, <3>3, EndedKeeps
    <3>4. CASE ~ stopped /\ ~ Alive'
      BY <2>1, <3>4, EndKeeps
    <3>5. CASE ~ stopped /\ verdict' = verdict
      BY <2>1, <3>1, <3>5, LoseKeeps
    <3> QED
      BY <3>2, <3>3, <3>4, <3>5
  <2>3. CASE ~ GatewaySilent
    BY <1>4, <2>1, <2>3, StutterKeeps DEF HeartbeatTick
  <2> QED
    BY <2>2, <2>3
<1>5. CASE GotRegistered
  BY <1>5, RegisteredKeeps DEF GotRegistered, Receives
<1>6. CASE GotAck
  BY <1>6, StutterKeeps DEF GotAck, Receives
<1>7. CASE GotError \/ GotRevoked
  <2>1. Alive /\ tries # 0 /\ UNCHANGED <<redirectToken, tries>>
    BY <1>7 DEF GotError, GotRevoked, Receives, Inv, LinkState
  <2>2. stopped' \/ UNCHANGED <<stopped, registered, socket, verdict>>
    BY <1>7 DEF GotError, GotRevoked, Stop
  <2> QED
    BY <1>1, <2>1, <2>2, EndedKeeps, EndKeeps, StutterKeeps
<1>8. ASSUME NEW code \in Codes, SocketClosed(code) PROVE Keeps
  <2>1. /\ Alive /\ socket # "none" /\ socket' = "closed"
        /\ UNCHANGED <<tries, redirectToken>>
    BY <1>8 DEF SocketClosed
  <2>2. CASE Rejected(code)
    BY <1>8, <2>1, <2>2, ClosedKeeps DEF SocketClosed
  <2>3. CASE ~ Rejected(code)
    <3>1. ScheduleReconnect(timers \ {"heartbeat"}) /\ UNCHANGED stopped
      BY <1>8, <2>3 DEF SocketClosed
    <3>2. verdict' = verdict \/ verdict' = "exit"
      BY <3>1, ScheduleReconnectEffect
    <3> QED
      BY <2>1, <3>1, <3>2, ClosedKeeps
  <2> QED
    BY <2>2, <2>3
<1> QED
  BY <1>2, <1>3, <1>4, <1>5, <1>6, <1>7, <1>8 DEF ClientStep

\* The steps of the published edition, which never exits.
LEMMA PublishedStepKeeps ==
  ASSUME Inv, config = Published, PublishedStep
  PROVE  Keeps
<1>1. tries \in Nat /\ MaxTries \in Nat /\ stopped \in BOOLEAN /\ Alive
  BY ClientAssumption DEF Inv, TypeOK, TimersRight, Published, Alive
<1>2. CASE PublishedStart
  <2>1. ~ registered
    BY <1>2 DEF PublishedStart, Inv, LinkState
  <2> QED
    BY <1>1, <1>2, <2>1, ConnectKeeps DEF PublishedStart, Connect
<1>3. CASE PublishedStopCalled
  BY <1>1, <1>3, EndKeeps DEF PublishedStopCalled, PublishedStop
<1>4. CASE PublishedRegistered
  BY <1>1, <1>4, RegisteredKeeps DEF PublishedRegistered
<1>5. CASE PublishedError \/ PublishedRevoked
  <2>1. tries # 0 /\ UNCHANGED <<redirectToken, tries>>
    BY <1>5 DEF PublishedError, PublishedRevoked, Receives, Inv, LinkState
  <2>2. stopped' \/ UNCHANGED <<stopped, registered, socket, verdict>>
    BY <1>5 DEF PublishedError, PublishedRevoked, PublishedStop
  <2> QED
    BY <1>1, <2>1, <2>2, EndedKeeps, EndKeeps, StutterKeeps
<1>6. CASE PublishedHeartbeat
  BY <1>6, StutterKeeps DEF PublishedHeartbeat, clientVars
<1>7. ASSUME NEW code \in Codes, PublishedClosed(code) PROVE Keeps
  <2>1. socket # "none" /\ socket' = "closed" /\ UNCHANGED <<tries, redirectToken>>
    BY <1>7 DEF PublishedClosed
  <2>2. stopped' = TRUE \/ UNCHANGED <<stopped, verdict>>
    BY <1>7 DEF PublishedClosed
  <2> QED
    BY <1>1, <2>1, <2>2, ClosedKeeps
<1>8. CASE PublishedOpened \/ PublishedFails \/ PublishedAck \/ PublishedReconnects
  BY <1>8, ClientStepKeeps, CommandLineStepKeeps
  DEF PublishedOpened, PublishedFails, PublishedAck, PublishedReconnects, ClientStep, CommandLineStep
<1> QED
  BY <1>2, <1>3, <1>4, <1>5, <1>6, <1>7, <1>8 DEF PublishedStep

\* What the gateway and the network do is not the client's promise.
LEMMA LinkStepKeeps ==
  ASSUME LinkStep
  PROVE  Keeps
<1>1. UNCHANGED clientVars
  <2>1. CASE \/ Authenticated \/ GatewayFrame \/ Flagged \/ RegistrationFails \/ Cut \/ GatewayCloses
    BY <2>1 DEF Authenticated, GatewayFrame, Flagged, RegistrationFails, Cut, GatewayCloses, others
  <2>2. ASSUME NEW token \in Try, Registered(token) PROVE UNCHANGED clientVars
    BY <2>2 DEF Registered, others
  <2>3. ASSUME NEW key \in BOOLEAN, Revoke(key) PROVE UNCHANGED clientVars
    BY <2>3 DEF Revoke, others
  <2>4. ASSUME NEW m \in {"accepting", "draining", "down"}, ModeChanges(m)
        PROVE  UNCHANGED clientVars
    BY <2>4 DEF ModeChanges, others
  <2> QED
    BY <2>1, <2>2, <2>3, <2>4 DEF LinkStep
<1> QED
  BY <1>1, StutterKeeps DEF clientVars

\* Every step of either system keeps the promise.
LEMMA NextKeeps == Inv /\ [Next \/ TwoClients]_vars => [Promise!Next]_Promise!vars
<1>1. ASSUME UNCHANGED vars PROVE Keeps
  BY <1>1, StutterKeeps DEF vars, clientVars
<1> QED
  BY <1>1, CommandLineStepKeeps, ClientStepKeeps, PublishedStepKeeps, LinkStepKeeps
  DEF Keeps, Next, TwoClients

\* A client that has not been started has promised nothing yet.
LEMMA InitPromise == Init => Promise!Init
  BY ClientAssumption DEF Init, Promise!Init, Alive, Ends

-----------------------------------------------------------------------------
\* The system whose configuration says which edition runs, without fairness.
TwoClientsSpec == Init /\ [][TwoClients]_vars

\* The inductive invariant of the client of client.ts, and of either edition.
THEOREM ClientInvariant == Spec \/ TwoClientsSpec => []Inv
<1>1. Spec \/ TwoClientsSpec => Init /\ [][Next \/ TwoClients]_vars
  <2>1. [Next]_vars => [Next \/ TwoClients]_vars
    OBVIOUS
  <2>2. [TwoClients]_vars => [Next \/ TwoClients]_vars
    OBVIOUS
  <2> QED
    BY <2>1, <2>2, PTL DEF Spec, TwoClientsSpec
<1> QED
  BY <1>1, InitInv, NextInv, PTL

\* What the client of client.ts thinks of itself is so: that it serves, and
\* that it has stopped.
THEOREM ClientRight == Spec => []ClientIsRight
  BY ClientInvariant, InvIsRight, PTL

\* The same of either edition, under the fairness that the run assumes.
THEOREM EitherClientRight == FairTwoClients => []ClientIsRight
<1>1. FairTwoClients => TwoClientsSpec
  BY PTL DEF FairTwoClients, TwoClientsSpec
<1> QED
  BY <1>1, ClientInvariant, InvIsRight, PTL

\* The client of client.ts implements TunnelPromise.
THEOREM ClientPromise == Spec => PromiseKept
<1>1. [Next]_vars => [Next \/ TwoClients]_vars
  OBVIOUS
<1> QED
  BY <1>1, ClientInvariant, NextKeeps, InitPromise, PTL DEF Spec, PromiseKept, Promise!Spec

\* Either edition implements TunnelPromise: it goes on trying until it serves,
\* keeps its page, and once it has ended it never connects again.
THEOREM EitherClientPromise == FairTwoClients => PromiseKept
<1>1. FairTwoClients => TwoClientsSpec
  BY PTL DEF FairTwoClients, TwoClientsSpec
<1>2. [TwoClients]_vars => [Next \/ TwoClients]_vars
  OBVIOUS
<1> QED
  BY <1>1, <1>2, ClientInvariant, NextKeeps, InitPromise, PTL
  DEF TwoClientsSpec, PromiseKept, Promise!Spec
=============================================================================
