--------------------------- MODULE ConnectionProofs ---------------------------
(***************************************************************************)
(* Proofs about what is kept open and shared: SessionProvider, one         *)
(* forwarder and its SSH session, for any number of connections and        *)
(* sessions and any deadline; TunnelRegistry, the commands that start and  *)
(* stop forwarders, for any set of tunnel ids and any number of commands   *)
(* in flight; ClusterAccess, the daemon's cluster and database client, for *)
(* any callers and namespaces, any time to live and time limit and any     *)
(* number of changes and failures.                                         *)
(***************************************************************************)
EXTENDS SessionProvider, TunnelRegistry, ClusterAccess, TLAPS

\* The types first: sequences and sets of sessions only change in the ways
\* the mutex and the provider allow.
LEMMA TypeInvariant == Spec => []TypeOK
<1> USE ProviderAssumption DEF TypeOK, Getters, Owning, Active, InGet
<1>1. Init => TypeOK
  BY DEF Init
<1>2. TypeOK /\ [Next]_vars => TypeOK'
  <2> SUFFICES ASSUME TypeOK, [Next]_vars PROVE TypeOK'
    OBVIOUS
  <2> USE DEF Step, Unlock, AfterGet, DropProvider
  <2>1. ASSUME NEW g \in Getters, Request(g) PROVE TypeOK'
    BY <2>1 DEF Request
  <2>2. ASSUME NEW g \in Getters, Acquire(g) PROVE TypeOK'
    BY <2>2 DEF Acquire
  <2>3. ASSUME NEW g \in Getters, Reuse(g) PROVE TypeOK'
    BY <2>3 DEF Reuse
  <2>12. ASSUME NEW g \in Getters, Reconnect(g) PROVE TypeOK'
    BY <2>12 DEF Reconnect
  <2>4. ASSUME NEW g \in Getters, ConnectOk(g) PROVE TypeOK'
    BY <2>4 DEF ConnectOk
  <2>5. ASSUME NEW g \in Getters, ConnectFails(g) PROVE TypeOK'
    BY <2>5 DEF ConnectFails, TimePasses
  <2>6. ASSUME NEW g \in Getters, GiveUp(g) PROVE TypeOK'
    <3>1. CASE g = Starter
      BY <2>6, <3>1 DEF GiveUp, TimePasses
    <3>2. CASE g # Starter
      BY <2>6, <3>2 DEF GiveUp, TimePasses
    <3> QED BY <3>1, <3>2
  <2>7. CASE ForwarderStep
    <3>1. CASE Listen \/ BindFails
      <4>1. CASE Listen
        BY <4>1 DEF Listen
      <4>2. CASE BindFails
        <5>1. current' \in 0..MaxSessions
          BY <4>2 DEF BindFails
        <5>2. alive' \subseteq 1..MaxSessions
          BY <4>2 DEF BindFails
        <5> QED BY <4>2, <5>1, <5>2 DEF BindFails
      <4> QED BY <3>1, <4>1, <4>2
    <3>2. CASE LoopExits
      BY <3>2 DEF LoopExits
    <3>3. CASE CloserAcquires
      BY <3>3 DEF CloserAcquires
    <3>4. CASE Close
      BY <3>4 DEF Close
    <3> QED BY <2>7, <3>1, <3>2, <3>3, <3>4 DEF ForwarderStep
  <2>8. CASE Stop \/ Drop
    <3>1. CASE Stop
      BY <3>1 DEF Stop
    <3>2. CASE Drop
      <4>1. CASE Connected
        BY <3>2, <4>1 DEF Drop
      <4>2. CASE ~Connected
        BY <3>2, <4>2 DEF Drop
      <4> QED BY <4>1, <4>2
    <3> QED BY <2>8, <3>1, <3>2
  <2>9. ASSUME NEW c \in Conns, Accept(c) \/ ProxyEnds(c) PROVE TypeOK'
    <3>1. CASE Accept(c)
      BY <3>1 DEF Accept
    <3>2. CASE ProxyEnds(c)
      <4>1. current' \in 0..MaxSessions
        BY <3>2 DEF ProxyEnds
      <4>2. alive' \subseteq 1..MaxSessions
        BY <3>2 DEF ProxyEnds
      <4> QED BY <3>2, <4>1, <4>2 DEF ProxyEnds
    <3> QED BY <2>9, <3>1, <3>2
  <2>10. ASSUME NEW s \in alive, SessionDies(s) PROVE TypeOK'
    BY <2>10 DEF SessionDies
  <2>11. CASE UNCHANGED vars
    BY <2>11 DEF vars
  <2> QED
    BY <2>1, <2>2, <2>3, <2>4, <2>5, <2>6, <2>7, <2>8, <2>9, <2>10, <2>11,
       <2>12 DEF Next, GetStep
<1> QED BY <1>1, <1>2, PTL DEF Spec

\* A session that is up is the kept one because the mutex is held from the
\* check to the end of the reconnect (forwarder.rs, 154-200), and start, stop
\* and the last owner only take it away.
Safe == ProviderInv /\ OneSession /\ NothingLeftOpen

LEMMA Safety == Spec => []Safe
<1> USE ProviderAssumption DEF TypeOK, Safe, ProviderInv, OneSession, NothingLeftOpen, Getters,
       Owning, Active, InGet
<1>1. Init => Safe
  <2> SUFFICES ASSUME Init PROVE Safe
    OBVIOUS
  <2>1. \A g \in Getters : holder # g /\ pc[g] \notin {"holding", "connecting"}
    BY DEF Init
  <2>2. /\ holder # Closer /\ forwarder = "starting" /\ current <= made
        /\ \A c \in Conns : pc[c] = "idle"
    BY DEF Init
  <2>4. ProviderInv
    BY <2>1, <2>2
  <2>3. OneSession /\ NothingLeftOpen
    BY DEF Init
  <2> QED BY <2>3, <2>4
<1>2. TypeOK /\ Safe /\ [Next]_vars => Safe'
  <2> SUFFICES ASSUME TypeOK, Safe, [Next]_vars PROVE Safe'
    OBVIOUS
  <2> USE DEF Step, Unlock, AfterGet, DropProvider
  <2>1. ASSUME NEW g \in Getters, Request(g) PROVE Safe'
    BY <2>1 DEF Request
  <2>2. ASSUME NEW g \in Getters, Acquire(g) PROVE Safe'
    BY <2>2 DEF Acquire
  <2>3. ASSUME NEW g \in Getters, Reuse(g) PROVE Safe'
    BY <2>3 DEF Reuse, Healthy
  <2>4. ASSUME NEW g \in Getters, Reconnect(g) PROVE Safe'
    BY <2>4 DEF Reconnect, Healthy
  <2>5. ASSUME NEW g \in Getters, ConnectOk(g) PROVE Safe'
    BY <2>5 DEF ConnectOk
  <2>6. ASSUME NEW g \in Getters, ConnectFails(g) PROVE Safe'
    BY <2>6 DEF ConnectFails
  <2>7. ASSUME NEW g \in Getters, GiveUp(g) PROVE Safe'
    BY <2>7 DEF GiveUp
  <2>8. CASE Listen
    BY <2>8 DEF Listen
  <2>9. CASE BindFails
    BY <2>9 DEF BindFails
  <2>10. CASE LoopExits
    BY <2>10 DEF LoopExits
  <2>11. CASE CloserAcquires
    BY <2>11 DEF CloserAcquires
  <2>12. CASE Close
    BY <2>12 DEF Close
  <2>13. CASE Stop \/ Drop
    <3>1. CASE Stop
      BY <3>1 DEF Stop
    <3>2. CASE Drop
      <4>1. CASE Connected
        BY <3>2, <4>1 DEF Drop, Connected
      <4>2. CASE ~Connected
        BY <3>2, <4>2 DEF Drop
      <4> QED BY <4>1, <4>2
    <3> QED BY <2>13, <3>1, <3>2
  <2>14. ASSUME NEW c \in Conns, Accept(c) PROVE Safe'
    BY <2>14 DEF Accept
  <2>15. ASSUME NEW c \in Conns, ProxyEnds(c) PROVE Safe'
    <3>1. c \in Getters /\ pc[c] = "proxying"
      BY <2>15 DEF ProxyEnds
    <3>2. CASE ~OthersOwn(c)
      BY <2>15, <3>1, <3>2 DEF ProxyEnds, OthersOwn
    <3>3. CASE OthersOwn(c)
      <4>1. ProviderInv' /\ OneSession'
        BY <2>15, <3>1, <3>3 DEF ProxyEnds
      <4>2. NothingLeftOpen'
        <5>1. forwarder' = forwarder /\ \A h \in Getters \ {c} : pc'[h] = pc[h]
          BY <2>15, <3>1 DEF ProxyEnds
        <5> QED BY <3>3, <5>1 DEF OthersOwn
      <4> QED BY <4>1, <4>2
    <3> QED BY <3>2, <3>3
  <2>16. ASSUME NEW s \in alive, SessionDies(s) PROVE Safe'
    BY <2>16 DEF SessionDies
  <2>17. CASE UNCHANGED vars
    BY <2>17 DEF vars
  <2> QED
    BY <2>1, <2>2, <2>3, <2>4, <2>5, <2>6, <2>7, <2>8, <2>9, <2>10, <2>11, <2>12, <2>13,
       <2>14, <2>15, <2>16, <2>17 DEF Next, GetStep, ForwarderStep
<1> QED BY <1>1, <1>2, TypeInvariant, PTL DEF Spec

\* A forwarder's state stays of its type; no reconnect outlives its deadline.
THEOREM TypeCorrect == Spec => []TypeOK
BY TypeInvariant

\* One SSH session at most is up, for any number of connections that find the
\* old one dead at once.
THEOREM OneSessionHolds == Spec => []OneSession
BY Safety, PTL DEF Safe

\* The mutex, the callers and the closer agree on who holds it.
THEOREM ProviderInvHolds == Spec => []ProviderInv
BY Safety, PTL DEF Safe

\* No session outlives the forwarder and its connections.
THEOREM NothingLeftOpenHolds == Spec => []NothingLeftOpen
BY Safety, PTL DEF Safe

\* A connection is only ever proxied over a live session, and a live session
\* is never replaced.
THEOREM HandsOutLiveSessionHolds == Spec => HandsOutLiveSession
<1>1. TypeOK /\ Safe /\ [Next]_vars =>
        [\A g \in Getters :
            pc[g] \in {"holding", "connecting"} /\ pc'[g] = "proxying"
              => current' \in alive' /\ (Healthy => made' = made)]_vars
  <2> SUFFICES ASSUME TypeOK, Safe, Next, NEW g \in Getters,
                      pc[g] \in {"holding", "connecting"}, pc'[g] = "proxying"
               PROVE  current' \in alive' /\ (Healthy => made' = made)
    OBVIOUS
  <2> USE ProviderAssumption DEF TypeOK, Safe, ProviderInv, Getters, Step
  <2>1. Reuse(g) \/ ConnectOk(g)
    <3>1. ASSUME NEW h \in Getters, GetStep(h) PROVE Reuse(g) \/ ConnectOk(g)
      BY <3>1 DEF GetStep, Request, Acquire, Reuse, Reconnect, ConnectOk, ConnectFails, GiveUp,
                  AfterGet
    <3>2. ~ForwarderStep /\ ~Stop /\ ~Drop
      BY DEF ForwarderStep, Listen, BindFails, LoopExits, CloserAcquires, Close, Stop, Drop
    <3>3. ASSUME NEW c \in Conns PROVE ~Accept(c) /\ ~ProxyEnds(c)
      BY DEF Accept, ProxyEnds
    <3>4. ASSUME NEW s \in alive PROVE ~SessionDies(s)
      BY DEF SessionDies
    <3> QED BY <3>1, <3>2, <3>3, <3>4 DEF Next
  <2>2. CASE Reuse(g)
    BY <2>2 DEF Reuse, Healthy
  <2>3. CASE ConnectOk(g)
    BY <2>3 DEF ConnectOk, Healthy
  <2> QED BY <2>1, <2>2, <2>3
<1> QED BY <1>1, TypeInvariant, Safety, PTL DEF Spec, HandsOutLiveSession
-----------------------------------------------------------------------------
LEMMA RegistryTypeInvariant == RegistrySpec => []RegistryTypeOK
<1> USE RegistryAssumption DEF RegistryTypeOK, InFlight
<1>0. 0 \in OrNone /\ Forwarders \subseteq OrNone
  BY DEF OrNone
<1>1. RegistryInit => RegistryTypeOK
  <2> SUFFICES ASSUME RegistryInit PROVE RegistryTypeOK
    OBVIOUS
  <2>1. started \in 0..MaxForwarders /\ app = "open"
    BY DEF RegistryInit
  <2>4. poisoned \in BOOLEAN
    BY Zenon DEF RegistryInit
  <2>2. /\ tunnels \in [Ids -> OrNone] /\ fwd \in [Calls -> OrNone]
        /\ answer \in [Calls -> OrNone] /\ live \subseteq Forwarders
    BY <1>0 DEF RegistryInit
  <2>3. /\ at \in [Calls -> InFlight \cup {"idle", "lost"}] /\ id \in [Calls -> Ids]
        /\ port \in [Calls -> {1, 2}]
    BY DEF RegistryInit
  <2> QED BY <2>1, <2>2, <2>3, <2>4
<1>2. RegistryTypeOK /\ [RegistryNext]_registryVars => RegistryTypeOK'
  <2> SUFFICES ASSUME RegistryTypeOK, [RegistryNext]_registryVars PROVE RegistryTypeOK'
    OBVIOUS
  <2> USE DEF Goto, Answers, Fails, LetGo
  <2>1. ASSUME NEW c \in Calls, NEW i \in Ids, NEW op \in InFlight, Call(c, op, i)
        PROVE  RegistryTypeOK'
    BY <1>0, <2>1 DEF Call
  <2>2. ASSUME NEW c \in Calls, Unavailable(c) PROVE RegistryTypeOK'
    BY <1>0, <2>2 DEF Unavailable
  <2>3. ASSUME NEW c \in Calls, Existing(c) PROVE RegistryTypeOK'
    BY <1>0, <2>3 DEF Existing
  <2>4. ASSUME NEW c \in Calls, NotRunning(c) PROVE RegistryTypeOK'
    BY <1>0, <2>4 DEF NotRunning
  <2>5. ASSUME NEW c \in Calls, Connect(c) PROVE RegistryTypeOK'
    <3>1. started + 1 \in Forwarders /\ started + 1 \in 0..MaxForwarders
      BY <2>5 DEF Connect, Forwarders
    <3> QED BY <1>0, <2>5, <3>1 DEF Connect
  <2>6. ASSUME NEW c \in Calls, StartFails(c) \/ ProbeOk(c) PROVE RegistryTypeOK'
    BY <1>0, <2>6 DEF StartFails, ProbeOk
  <2>7. ASSUME NEW c \in Calls, ProbeFails(c) PROVE RegistryTypeOK'
    BY <1>0, <2>7 DEF ProbeFails
  <2>8. ASSUME NEW c \in Calls, Insert(c) PROVE RegistryTypeOK'
    BY <1>0, <2>8 DEF Insert
  <2>9. ASSUME NEW c \in Calls, StopOne(c) PROVE RegistryTypeOK'
    BY <1>0, <2>9 DEF StopOne
  <2>10. ASSUME NEW c \in Calls, StopAllNothing(c) PROVE RegistryTypeOK'
    BY <1>0, <2>10 DEF StopAllNothing
  <2>11. ASSUME NEW c \in Calls, StopAllPanics(c) PROVE RegistryTypeOK'
    BY <1>0, <2>11 DEF StopAllPanics
  <2>12. CASE CloseWindow
    BY <1>0, <2>12 DEF CloseWindow
  <2>13. ASSUME NEW f \in live, LoopDies(f) PROVE RegistryTypeOK'
    BY <1>0, <2>13 DEF LoopDies, callVars
  <2>14. CASE UNCHANGED registryVars
    BY <1>0, <2>14 DEF registryVars
  <2>15. ASSUME NEW c \in Calls, StopAll(c) PROVE RegistryTypeOK'
    <3>1. id[c] \in Ids
      OBVIOUS
    <3> QED BY <2>1, <2>15, <3>1 DEF StopAll
  <2> QED
    BY <2>1, <2>2, <2>3, <2>4, <2>5, <2>6, <2>7, <2>8, <2>9, <2>10, <2>11, <2>12, <2>13,
       <2>14, <2>15 DEF RegistryNext, Works, StartTunnel, TunnelStatus, StopTunnel
<1> QED BY <1>1, <1>2, PTL DEF RegistrySpec

\* What follows is needed in one piece: the place of each forwarder
\* (RegistryInv) shows that stopping what the registry holds under one id
\* stops nobody else's forwarder, so that none is left without a place.
RegistrySafe == RegistryInv /\ NoOrphans

LEMMA RegistrySafety == RegistrySpec => []RegistrySafe
<1> USE RegistryAssumption DEF RegistryTypeOK, InFlight, RegistrySafe, RegistryInv, NoOrphans,
       InHands, InHand,
       Registered
<1>1. RegistryInit => RegistrySafe
  BY DEF RegistryInit
<1>2. RegistryTypeOK /\ RegistrySafe /\ [RegistryNext]_registryVars => RegistrySafe'
  <2> SUFFICES ASSUME RegistryTypeOK, RegistrySafe, [RegistryNext]_registryVars PROVE RegistrySafe'
    OBVIOUS
  <2> USE DEF Goto, Answers, Fails, LetGo, Locked
  <2>1. ASSUME NEW c \in Calls, NEW i \in Ids, NEW op \in {"check", "status", "stop", "stop_all"},
               Call(c, op, i)
        PROVE  RegistrySafe'
    <3>1. InHands' = InHands
      BY <2>1 DEF Call
    <3>2. Registered' = Registered /\ fwd' = fwd /\ tunnels' = tunnels
      BY <2>1 DEF Call
    <3>3. app' = app /\ live' = live /\ started' = started
      BY <2>1 DEF Call
    <3>4. poisoned' = poisoned
      BY <2>1, Zenon DEF Call
    <3> HIDE DEF InHands, Registered
    <3> QED BY <3>1, <3>2, <3>3, <3>4
  <2>2. ASSUME NEW c \in Calls, Unavailable(c) PROVE RegistrySafe'
    <3>1. /\ \A d \in Calls : fwd'[d] # 0 <=> (app' = "open" /\ d \in InHands')
          /\ \A d \in InHands' : app' = "open" => fwd'[d] \in live' /\ fwd'[d] \notin Registered'
      BY <2>2 DEF Unavailable
    <3>2. /\ \A d, e \in Calls : fwd'[d] = fwd'[e] /\ fwd'[d] # 0 => d = e
          /\ \A i, j \in Ids : tunnels'[i] = tunnels'[j] /\ tunnels'[i] # 0 => i = j
          /\ poisoned' /\ app' = "open" => Registered' = {}
      <4>1. tunnels' = tunnels /\ app' = app
        BY <2>2 DEF Unavailable
      <4>2. \A d \in Calls : fwd'[d] \in {0, fwd[d]}
        BY <2>2 DEF Unavailable
      <4>3. poisoned' = poisoned
        BY <2>2, Zenon DEF Unavailable
      <4> HIDE DEF Goto, Answers, Fails, LetGo, Locked, RegistryTypeOK
      <4>4. \A d, e \in Calls : fwd'[d] = fwd'[e] /\ fwd'[d] # 0 => d = e
        BY <4>2
      <4>5. Registered' = Registered
        BY <4>1
      <4> QED BY <4>1, <4>3, <4>4, <4>5
    <3>3. /\ \A i \in Ids : tunnels'[i] <= started'
          /\ \A d \in Calls : fwd'[d] <= started'
          /\ \A f \in live' : f <= started'
      <4>1. 0 <= started /\ started' = started /\ tunnels' = tunnels /\ live' \subseteq live
        BY <2>2 DEF Unavailable, OrNone
      <4>2. \A d \in Calls : fwd'[d] \in {0, fwd[d]}
        BY <2>2 DEF Unavailable
      <4> HIDE DEF Goto, Answers, Fails, LetGo, Locked, RegistryTypeOK
      <4> QED BY <4>1, <4>2
    <3>4. NoOrphans'
      BY <2>2 DEF Unavailable
    <3> QED BY <3>1, <3>2, <3>3, <3>4
  <2>3. ASSUME NEW c \in Calls, Existing(c) PROVE RegistrySafe'
    BY <2>3 DEF Existing
  <2>4. ASSUME NEW c \in Calls, NotRunning(c) PROVE RegistrySafe'
    BY <2>4 DEF NotRunning, Running
  <2>5. ASSUME NEW c \in Calls, Connect(c) PROVE RegistrySafe'
    <3>1. started \in Nat /\ OrNone \subseteq Nat
      BY DEF OrNone, Forwarders
    <3>2. /\ \A i \in Ids : tunnels[i] # started + 1
          /\ \A d \in Calls : fwd[d] # started + 1
          /\ started + 1 # 0
      BY <3>1
    <3>3. \A n \in OrNone : n <= started => n <= started + 1
      BY <3>1
    <3>4. /\ \A i \in Ids : tunnels'[i] <= started'
          /\ \A d \in Calls : fwd'[d] <= started'
          /\ \A f \in live' : f <= started'
      <4>1. live \subseteq OrNone /\ started + 1 <= started + 1
        BY <3>1 DEF OrNone
      <4> QED BY <2>5, <3>3, <4>1 DEF Connect
    <3>5. /\ \A d \in Calls : fwd'[d] # 0 <=> (app' = "open" /\ d \in InHands')
          /\ \A d \in InHands' : app' = "open" => fwd'[d] \in live' /\ fwd'[d] \notin Registered'
      BY <2>5, <3>2 DEF Connect
    <3>6. /\ \A d, e \in Calls : fwd'[d] = fwd'[e] /\ fwd'[d] # 0 => d = e
          /\ \A i, j \in Ids : tunnels'[i] = tunnels'[j] /\ tunnels'[i] # 0 => i = j
          /\ poisoned' /\ app' = "open" => Registered' = {}
      BY <2>5, <3>2 DEF Connect
    <3>7. NoOrphans'
      BY <2>5, <3>2 DEF Connect
    <3> QED BY <3>4, <3>5, <3>6, <3>7
  <2>6. ASSUME NEW c \in Calls, StartFails(c) \/ ProbeOk(c) PROVE RegistrySafe'
    BY <2>6 DEF StartFails, ProbeOk
  <2>7. ASSUME NEW c \in Calls, ProbeFails(c) PROVE RegistrySafe'
    <3>1. /\ \A d \in Calls : fwd'[d] # 0 <=> (app' = "open" /\ d \in InHands')
          /\ \A d \in InHands' : app' = "open" => fwd'[d] \in live' /\ fwd'[d] \notin Registered'
      BY <2>7 DEF ProbeFails
    <3>2. /\ \A d, e \in Calls : fwd'[d] = fwd'[e] /\ fwd'[d] # 0 => d = e
          /\ \A i, j \in Ids : tunnels'[i] = tunnels'[j] /\ tunnels'[i] # 0 => i = j
          /\ poisoned' /\ app' = "open" => Registered' = {}
      <4>1. tunnels' = tunnels /\ app' = app
        BY <2>7 DEF ProbeFails
      <4>2. \A d \in Calls : fwd'[d] \in {0, fwd[d]}
        BY <2>7 DEF ProbeFails
      <4>3. poisoned' = poisoned
        BY <2>7, Zenon DEF ProbeFails
      <4> HIDE DEF Goto, Answers, Fails, LetGo, Locked, RegistryTypeOK
      <4>4. \A d, e \in Calls : fwd'[d] = fwd'[e] /\ fwd'[d] # 0 => d = e
        BY <4>2
      <4>5. Registered' = Registered
        BY <4>1
      <4> QED BY <4>1, <4>3, <4>4, <4>5
    <3>3. /\ \A i \in Ids : tunnels'[i] <= started'
          /\ \A d \in Calls : fwd'[d] <= started'
          /\ \A f \in live' : f <= started'
      <4>1. 0 <= started /\ started' = started /\ tunnels' = tunnels /\ live' \subseteq live
        BY <2>7 DEF ProbeFails, OrNone
      <4>2. \A d \in Calls : fwd'[d] \in {0, fwd[d]}
        BY <2>7 DEF ProbeFails
      <4> HIDE DEF Goto, Answers, Fails, LetGo, Locked, RegistryTypeOK
      <4> QED BY <4>1, <4>2
    <3>4. NoOrphans'
      BY <2>7 DEF ProbeFails
    <3> QED BY <3>1, <3>2, <3>3, <3>4
  <2>8. ASSUME NEW c \in Calls, Insert(c) PROVE RegistrySafe'
    BY <2>8 DEF Insert
  <2>9. ASSUME NEW c \in Calls, StopOne(c) PROVE RegistrySafe'
    BY <2>9 DEF StopOne
  <2>10. ASSUME NEW c \in Calls, StopAllNothing(c) PROVE RegistrySafe'
    BY <2>10 DEF StopAllNothing
  <2>11. ASSUME NEW c \in Calls, StopAllPanics(c) PROVE RegistrySafe'
    BY <2>11 DEF StopAllPanics
  <2>12. CASE CloseWindow
    BY <2>12 DEF CloseWindow
  <2>13. ASSUME NEW f \in live, LoopDies(f) PROVE RegistrySafe'
    BY <2>13 DEF LoopDies, callVars
  <2>14. CASE UNCHANGED registryVars
    BY <2>14 DEF registryVars
  <2>15. ASSUME NEW c \in Calls, StopAll(c) PROVE RegistrySafe'
    <3>1. id[c] \in Ids
      OBVIOUS
    <3> QED BY <2>1, <2>15, <3>1 DEF StopAll
  <2> QED
    BY <2>1, <2>2, <2>3, <2>4, <2>5, <2>6, <2>7, <2>8, <2>9, <2>10, <2>11, <2>12, <2>13,
       <2>14, <2>15 DEF RegistryNext, Works, StartTunnel, TunnelStatus, StopTunnel
<1> QED BY <1>1, <1>2, RegistryTypeInvariant, PTL DEF RegistrySpec

\* The registry's state stays of its type; only two ports are ever probed.
THEOREM RegistryTypeCorrect == RegistrySpec => []RegistryTypeOK
BY RegistryTypeInvariant

\* Every forwarder that is up can be stopped: no overlap of starts, stops,
\* probes and panics leaves one behind.
THEOREM NoOrphansHolds == RegistrySpec => []NoOrphans
BY RegistrySafety, PTL DEF RegistrySafe

\* A forwarder is under one id or in one start's hands.
THEOREM RegistryInvHolds == RegistrySpec => []RegistryInv
BY RegistrySafety, PTL DEF RegistrySafe

\* A start or a status never answers with a tunnel that is not registered
\* and up at that moment.
THEOREM AnswersAreRegisteredHolds == RegistrySpec => AnswersAreRegistered
<1>1. RegistryTypeOK /\ RegistrySafe /\ [RegistryNext]_registryVars =>
        [\A c \in Calls :
            answer'[c] # answer[c] /\ answer'[c] # 0
              => answer'[c] \in live' /\ tunnels'[id[c]] = answer'[c]]_registryVars
  <2> SUFFICES ASSUME RegistryTypeOK, RegistrySafe, RegistryNext, NEW c \in Calls,
                      answer'[c] # answer[c], answer'[c] # 0
               PROVE  answer'[c] \in live' /\ tunnels'[id[c]] = answer'[c]
    OBVIOUS
  <2> USE DEF RegistryTypeOK, Goto, Answers, Fails
  <2>1. Existing(c) \/ Insert(c)
    <3>1. ASSUME NEW d \in Calls, NEW i \in Ids, NEW op, Call(d, op, i) PROVE FALSE
      BY <3>1 DEF Call
    <3>2. ASSUME NEW d \in Calls, Works(d) PROVE Existing(c) \/ Insert(c)
      BY <3>2 DEF Works, Unavailable, Existing, NotRunning, Connect, StartFails, ProbeOk,
                  ProbeFails, Insert, StopOne, StopAllNothing, StopAllPanics
    <3>3. ~CloseWindow /\ \A f \in live : ~LoopDies(f)
      BY DEF CloseWindow, LoopDies, callVars
    <3>4. \A d \in Calls : id[d] \in Ids
      OBVIOUS
    <3> QED BY <3>1, <3>2, <3>3, <3>4 DEF RegistryNext, StopAll, StartTunnel, TunnelStatus, StopTunnel
  <2>2. CASE Existing(c)
    BY <2>2 DEF Existing, Running
  <2>3. CASE Insert(c)
    <3>1. c \in InHands /\ app = "open" /\ id[c] \in Ids
      BY <2>3 DEF Insert, Locked, InHands, InHand
    <3>2. fwd[c] \in live /\ fwd[c] # tunnels[id[c]]
      <4>1. fwd[c] \in live /\ fwd[c] \notin Registered /\ fwd[c] # 0
        BY <3>1 DEF RegistrySafe, RegistryInv
      <4> QED BY <3>1, <4>1 DEF Registered
    <3> QED BY <2>3, <3>1, <3>2 DEF Insert
  <2> QED BY <2>1, <2>2, <2>3
<1> QED BY <1>1, RegistryTypeInvariant, RegistrySafety, PTL DEF RegistrySpec, AnswersAreRegistered

-------------------------------------------------------------------------------
\* The cluster cache and the database client.

\* The parts of the state that the proofs compute with.
Typed ==
  /\ call = [p \in Callers |-> call[p]]
  /\ since \in [Namespaces -> Nat]
  /\ cached = [ns |-> cached.ns, age |-> cached.age]
  /\ cached.ns \in Namespaces \cup {None} /\ cached.age \in 0 .. TTL

\* The only namespace with a broker has been so since this tick.
CountsFromNow == \A ns \in Namespaces : Candidates = {ns} => since[ns] = 0

\* What a caller has found is as old as its search at most, and no search outlasts
\* the time limits of its commands.
FoundInTime(p) ==
  call[p].pc \in {"broker", "pod"} =>
    /\ call[p].ns \in Namespaces
    /\ call[p].took \in Nat
    /\ since[call[p].ns] \leq call[p].took
    /\ call[p].took \leq 2 * Limit
    /\ call[p].pc = "broker" => call[p].took \leq Limit

\* What is cached was at most as old as a search when it was stored.
CachedInTime ==
  cached.ns # None /\ cached.age < TTL => since[cached.ns] \leq 2 * Limit + cached.age

AccessInv ==
  /\ Typed
  /\ CountsFromNow
  /\ \A p \in Callers : FoundInTime(p)
  /\ CachedInTime
  /\ TransactionsStayInTheirWorld

LEMMA InitInv == AccessInit => AccessInv
<1> USE AccessAssumption
<1> SUFFICES ASSUME AccessInit PROVE AccessInv
  OBVIOUS
<1>1. Typed
  BY DEF AccessInit, Typed, Stale
<1>2. CountsFromNow
  BY DEF AccessInit, CountsFromNow, Candidates
<1>3. \A p \in Callers : FoundInTime(p)
  BY DEF AccessInit, FoundInTime, Idle
<1>4. CachedInTime /\ TransactionsStayInTheirWorld
  BY DEF AccessInit, CachedInTime, TransactionsStayInTheirWorld, At, Idle
<1> QED
  BY <1>1, <1>2, <1>3, <1>4 DEF AccessInv

LEMMA NextInv == AccessInv /\ [AccessNext]_accessVars => AccessInv'
<1> USE AccessAssumption
<1> SUFFICES ASSUME AccessInv, [AccessNext]_accessVars PROVE AccessInv'
  OBVIOUS
<1> USE DEF AccessInv, Typed, CountsFromNow, FoundInTime, CachedInTime,
            TransactionsStayInTheirWorld, At, Gives, Answer, Idle, outside
<1>1. ASSUME NEW p \in Callers, Hit(p) PROVE AccessInv'
  BY <1>1 DEF Hit, Candidates
<1>2. ASSUME NEW p \in Callers, Miss(p) PROVE AccessInv'
  BY <1>2 DEF Miss, Candidates
<1>3. ASSUME NEW p \in Callers, DetectNamespace(p) PROVE AccessInv'
  BY <1>3 DEF DetectNamespace, Candidates
<1>4. ASSUME NEW p \in Callers, DetectBroker(p) PROVE AccessInv'
  BY <1>4 DEF DetectBroker, Candidates
<1>5. ASSUME NEW p \in Callers, DetectDatabase(p) PROVE AccessInv'
  BY <1>5 DEF DetectDatabase, Candidates
<1>6. ASSUME NEW p \in Callers, Client(p) PROVE AccessInv'
  BY <1>6 DEF Client, Candidates, Connecting
<1>7. ASSUME NEW p \in Callers, Credentials(p) PROVE AccessInv'
  BY <1>7 DEF Credentials, Candidates
<1>8. ASSUME NEW p \in Callers, Endpoint(p) PROVE AccessInv'
  BY <1>8 DEF Endpoint, Candidates
<1>9. ASSUME NEW p \in Callers, ConnectDatabase(p) PROVE AccessInv'
  BY <1>9 DEF ConnectDatabase, Candidates, Accepts, Reached
<1>10. ASSUME NEW p \in Callers, Query(p) PROVE AccessInv'
  BY <1>10 DEF Query, Candidates, OwnClient, Connecting
<1>11. ASSUME NEW p \in Callers, Write(p) PROVE AccessInv'
  BY <1>11 DEF Write, Candidates
<1>12. ASSUME NEW p \in Callers, CommandFails(p) PROVE AccessInv'
  BY <1>12 DEF CommandFails, Candidates
<1>13. CASE Closes
  BY <1>13 DEF Closes, Candidates
<1>14. CASE Tick
  BY <1>14 DEF Tick, Candidates, Stale
<1>15. ASSUME NEW ns \in Namespaces, NEW to \in {"absent", "up", "stopped"}, Change(ns, to)
       PROVE AccessInv'
  BY <1>15 DEF Change, Candidates
<1>16. CASE UNCHANGED accessVars
  BY <1>16 DEF accessVars, Candidates
<1> QED
  BY <1>1, <1>2, <1>3, <1>4, <1>5, <1>6, <1>7, <1>8, <1>9, <1>10, <1>11, <1>12,
     <1>13, <1>14, <1>15, <1>16 DEF AccessNext, Steps

\* The invariant holds in every reachable state.
THEOREM AccessInvHolds == AccessSpec => []AccessInv
  BY InitInv, NextInv, PTL DEF AccessSpec

\* Whatever listens on the host port and whatever the shared client is connected to,
\* a transaction is made in the database of the namespace its caller was answered.
THEOREM TransactionsStayInTheirWorldHolds == AccessSpec => []TransactionsStayInTheirWorld
<1>1. AccessInv => TransactionsStayInTheirWorld
  BY DEF AccessInv
<1> QED
  BY <1>1, AccessInvHolds, PTL

\* A caller answered in this step is answered with a namespace that is fresh: from
\* the cache, or from a search that just ended.
LEMMA AnsweredFresh ==
  ASSUME AccessInv, [AccessNext]_accessVars, NEW p \in Callers,
         call[p].pc # "client", call'[p].pc = "client"
  PROVE  since[call'[p].ns] < Stale
<1> USE AccessAssumption
<1> USE DEF AccessInv, Typed, At, Gives, Answer, Idle, Stale
<1>1. ASSUME NEW q \in Callers, Hit(q) PROVE since[call'[p].ns] < Stale
  BY <1>1 DEF Hit, CachedInTime
<1>2. ASSUME NEW q \in Callers, DetectDatabase(q) PROVE since[call'[p].ns] < Stale
  BY <1>2 DEF DetectDatabase, FoundInTime
<1>3. ASSUME NEW q \in Callers,
             Miss(q) \/ DetectNamespace(q) \/ DetectBroker(q) \/ Client(q) \/ Credentials(q)
             \/ Endpoint(q) \/ ConnectDatabase(q) \/ Query(q) \/ Write(q) \/ CommandFails(q)
      PROVE FALSE
  BY <1>3 DEF Miss, DetectNamespace, DetectBroker, Client, Credentials, Endpoint,
              ConnectDatabase, Query, Write, CommandFails, Connecting, OwnClient
<1>4. CASE Closes \/ Tick
  BY <1>4 DEF Closes, Tick
<1>5. ASSUME NEW ns \in Namespaces, NEW to \in {"absent", "up", "stopped"}, Change(ns, to)
      PROVE FALSE
  BY <1>5 DEF Change
<1>6. CASE UNCHANGED accessVars
  BY <1>6 DEF accessVars
<1> QED
  BY <1>1, <1>2, <1>3, <1>4, <1>5, <1>6 DEF AccessNext, Steps

\* No answer of the cluster cache is older than a cached one may be and two commands
\* may last, however many callers detect at once and in whatever order they store.
THEOREM AnswersAreFreshHolds == AccessSpec => AnswersAreFresh
<1>1. AccessInv /\ [AccessNext]_accessVars =>
        [\A p \in Callers :
           call[p].pc # "client" /\ call'[p].pc = "client"
             => since[call'[p].ns] < Stale]_accessVars
  BY AnsweredFresh
<1> QED
  BY <1>1, AccessInvHolds, PTL DEF AccessSpec, AnswersAreFresh
===============================================================================
