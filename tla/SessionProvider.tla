-------------------------- MODULE SessionProvider --------------------------
(***************************************************************************)
(* One SSH port forwarder: its start, the accept loop, the connections it  *)
(* proxies, its stop, and the SessionProvider they share, which keeps one  *)
(* SSH session behind a mutex and reconnects when it finds it dead.        *)
(*                                                                         *)
(* A failed connection attempt with its backoff is one unit of time, and   *)
(* RECONNECT_DEADLINE holds Deadline of them.  The mutex serves its        *)
(* waiters in the order they came, as tokio's does.  The accept loop needs *)
(* no lock to see the shutdown, so the five seconds stop waits for it are  *)
(* not modelled.                                                           *)
(***************************************************************************)
EXTENDS Naturals, Sequences

CONSTANTS
    Conns,         \* the clients' connections
    Starter,       \* the call of LocalForwarder::start
    Closer,        \* the call of LocalForwarder::stop
    Nobody,        \* the mutex is free
    Deadline,      \* failed attempts until get gives up
    MaxSessions    \* bound: sessions that are established

ASSUME ProviderAssumption ==
    /\ Starter \notin Conns /\ Closer \notin Conns /\ Nobody \notin Conns
    /\ Starter # Closer /\ Starter # Nobody /\ Closer # Nobody
    /\ Deadline \in Nat \ {0}
    /\ MaxSessions \in Nat

VARIABLES
    forwarder,   \* the forwarder's life
    pc,          \* where each caller of get is
    holder,      \* who holds the mutex of `current`
    queue,       \* who waits for it
    current,     \* the session kept there, 0 for none
    alive,       \* the sessions whose connection is up
    made,        \* sessions established so far
    tries,       \* failed attempts of the present reconnect
    waited       \* units of time each caller has spent inside get

vars == <<forwarder, pc, holder, queue, current, alive, made, tries, waited>>

Getters == Conns \cup {Starter}
InGet == {"waiting", "holding", "connecting"}
Owning == {"starting", "running", "stopping", "closing"}
Active == InGet \cup {"spawned", "proxying"}

TypeOK ==
    /\ forwarder \in Owning \cup {"failed", "stopped", "dropped"}
    /\ pc \in [Getters -> Active \cup {"idle", "done"}]
    /\ holder \in Getters \cup {Closer, Nobody}
    /\ queue \in Seq(Getters \cup {Closer})
    /\ current \in 0..MaxSessions
    /\ alive \subseteq 1..MaxSessions
    /\ made \in 0..MaxSessions
    /\ tries \in 0..Deadline
    /\ waited \in [Getters -> Nat]

Init ==
    /\ forwarder = "starting"
    /\ pc = [g \in Getters |-> IF g = Starter THEN "spawned" ELSE "idle"]
    /\ holder = Nobody
    /\ queue = <<>>
    /\ current = 0
    /\ alive = {}
    /\ made = 0
    /\ tries = 0
    /\ waited = [g \in Getters |-> 0]

Step(g, label) == pc' = [pc EXCEPT ![g] = label]
Unlock == holder' = Nobody

\* A connection's task has a reference to the provider.
Connected == \E c \in Conns : pc[c] \in Active

\* Someone other than caller g still has a reference to the provider.
OthersOwn(g) ==
    \/ forwarder \in Owning
    \/ \E h \in Getters \ {g} : pc[h] \in Active

\* The provider's last owner drops it, and its session with it.
DropProvider == current' = 0 /\ alive' = {}

\* Where a caller is after get: start goes on, a connection is proxied.
AfterGet(g) == IF g = Starter THEN "done" ELSE "proxying"
-----------------------------------------------------------------------------
(* SessionProvider::get. *)

Request(g) ==
    /\ pc[g] = "spawned"
    /\ Step(g, "waiting")
    /\ queue' = Append(queue, g)
    /\ UNCHANGED <<forwarder, holder, current, alive, made, tries, waited>>

Acquire(g) ==
    /\ pc[g] = "waiting" /\ holder = Nobody
    /\ queue # <<>> /\ Head(queue) = g
    /\ Step(g, "holding")
    /\ holder' = g
    /\ queue' = Tail(queue)
    /\ UNCHANGED <<forwarder, current, alive, made, tries, waited>>

\* The mutant hands out whatever is kept.
HealthyUnchecked == current # 0

Healthy == current # 0 /\ current \in alive

Reuse(g) ==
    /\ pc[g] = "holding" /\ Healthy
    /\ Step(g, AfterGet(g))
    /\ Unlock
    /\ UNCHANGED <<forwarder, queue, current, alive, made, tries, waited>>

\* The mutant releases the mutex before it connects.
ReconnectUnlocked(g) ==
    /\ pc[g] = "holding" /\ ~Healthy
    /\ Step(g, "connecting")
    /\ Unlock
    /\ current' = 0
    /\ tries' = 0
    /\ UNCHANGED <<forwarder, queue, alive, made, waited>>

Reconnect(g) ==
    /\ pc[g] = "holding" /\ ~Healthy
    /\ Step(g, "connecting")
    /\ current' = 0
    /\ tries' = 0
    /\ UNCHANGED <<forwarder, holder, queue, alive, made, waited>>

ConnectOk(g) ==
    /\ pc[g] = "connecting" /\ made < MaxSessions
    /\ made' = made + 1
    /\ current' = made + 1
    /\ alive' = alive \cup {made + 1}
    /\ Step(g, AfterGet(g))
    /\ Unlock
    /\ UNCHANGED <<forwarder, queue, tries, waited>>

\* A unit of time passes for everyone inside get.
TimePasses ==
    waited' = [g \in Getters |-> IF pc[g] \in InGet THEN waited[g] + 1 ELSE waited[g]]

ConnectFails(g) ==
    /\ pc[g] = "connecting" /\ tries + 1 < Deadline
    /\ tries' = tries + 1
    /\ TimePasses
    /\ UNCHANGED <<forwarder, pc, holder, queue, current, alive, made>>

\* The mutant gives up and keeps the mutex.
GivesUpLocked(g) ==
    /\ pc[g] = "connecting" /\ tries + 1 = Deadline
    /\ tries' = tries + 1
    /\ TimePasses
    /\ Step(g, "done")
    /\ UNCHANGED <<forwarder, holder, queue, current, alive, made>>

GiveUp(g) ==
    /\ pc[g] = "connecting" /\ tries + 1 = Deadline
    /\ tries' = tries + 1
    /\ TimePasses
    /\ Step(g, "done")
    /\ Unlock
    /\ forwarder' = IF g = Starter THEN "failed" ELSE forwarder
    /\ UNCHANGED <<queue, current, alive, made>>
-----------------------------------------------------------------------------
(* LocalForwarder. *)

Listen ==
    /\ forwarder = "starting" /\ pc[Starter] = "done"
    /\ forwarder' = "running"
    /\ UNCHANGED <<pc, holder, queue, current, alive, made, tries, waited>>

\* The mutant leaves the eager session open.
BindKeepsSession ==
    /\ forwarder = "starting" /\ pc[Starter] = "done"
    /\ forwarder' = "failed"
    /\ UNCHANGED <<pc, holder, queue, current, alive, made, tries, waited>>

\* The local port is taken: start fails and drops the provider.
BindFails ==
    /\ forwarder = "starting" /\ pc[Starter] = "done"
    /\ forwarder' = "failed"
    /\ DropProvider
    /\ UNCHANGED <<pc, holder, queue, made, tries, waited>>

Accept(c) ==
    /\ forwarder = "running" /\ pc[c] = "idle"
    /\ Step(c, "spawned")
    /\ UNCHANGED <<forwarder, holder, queue, current, alive, made, tries, waited>>

\* stop sends the shutdown to the accept loop.
Stop ==
    /\ forwarder = "running"
    /\ forwarder' = "stopping"
    /\ UNCHANGED <<pc, holder, queue, current, alive, made, tries, waited>>

\* The loop has exited; stop waits for the mutex to close the session.
LoopExits ==
    /\ forwarder = "stopping"
    /\ forwarder' = "closing"
    /\ queue' = Append(queue, Closer)
    /\ UNCHANGED <<pc, holder, current, alive, made, tries, waited>>

CloserAcquires ==
    /\ forwarder = "closing" /\ holder = Nobody
    /\ queue # <<>> /\ Head(queue) = Closer
    /\ holder' = Closer
    /\ queue' = Tail(queue)
    /\ UNCHANGED <<forwarder, pc, current, alive, made, tries, waited>>

Close ==
    /\ forwarder = "closing" /\ holder = Closer
    /\ alive' = alive \ {current}
    /\ current' = 0
    /\ Unlock
    /\ forwarder' = "stopped"
    /\ UNCHANGED <<pc, queue, made, tries, waited>>

\* The handle goes out of scope without stop: the loop is aborted, the
\* connections keep the provider.
Drop ==
    /\ forwarder = "running"
    /\ forwarder' = "dropped"
    /\ \/ Connected /\ UNCHANGED <<current, alive>>
       \/ ~Connected /\ DropProvider
    /\ UNCHANGED <<pc, holder, queue, made, tries, waited>>

\* A proxied connection ends: its client leaves or the session died.
ProxyEnds(c) ==
    /\ pc[c] = "proxying"
    /\ Step(c, "done")
    /\ \/ OthersOwn(c) /\ UNCHANGED <<current, alive>>
       \/ ~OthersOwn(c) /\ DropProvider
    /\ UNCHANGED <<forwarder, holder, queue, made, tries, waited>>

\* The network or the server ends a session, or keepalives go unanswered.
SessionDies(s) ==
    /\ s \in alive
    /\ alive' = alive \ {s}
    /\ UNCHANGED <<forwarder, pc, holder, queue, current, made, tries, waited>>
-----------------------------------------------------------------------------
GetStep(g) ==
    \/ Request(g) \/ Acquire(g) \/ Reuse(g) \/ Reconnect(g)
    \/ ConnectOk(g) \/ ConnectFails(g) \/ GiveUp(g)

ForwarderStep == Listen \/ BindFails \/ LoopExits \/ CloserAcquires \/ Close

Next ==
    \/ \E g \in Getters : GetStep(g)
    \/ ForwarderStep
    \/ Stop \/ Drop
    \/ \E c \in Conns : Accept(c) \/ ProxyEnds(c)
    \/ \E s \in alive : SessionDies(s)

Spec == Init /\ [][Next]_vars

\* The runtime polls every task again; nothing says when clients leave.
Fairness ==
    /\ \A g \in Getters : WF_vars(GetStep(g))
    /\ WF_vars(ForwarderStep)

FairSpec == Spec /\ Fairness
-----------------------------------------------------------------------------
(* Properties. *)

\* At most one SSH session of a forwarder is up, and it is the one in
\* `current`, whatever connections, deaths of sessions, start and stop do at
\* once ("only one reconnect should ever be in flight", forwarder.rs).
OneSession == \A s \in alive : s = current

\* When the forwarder is gone and its last connection ended, no session is up.
NothingLeftOpen ==
    (forwarder \notin Owning /\ \A g \in Getters : pc[g] \notin Active) => alive = {}

\* Only the holder of the mutex reconnects, and while it does no session is
\* kept; the closer holds it only to close.
ProviderInv ==
    /\ \A g \in Getters : pc[g] \in {"holding", "connecting"} <=> holder = g
    /\ \A g \in Getters : pc[g] = "connecting" => current = 0
    /\ holder = Closer => forwarder = "closing"
    /\ forwarder = "starting" => \A c \in Conns : pc[c] = "idle"
    /\ forwarder # "starting" => pc[Starter] = "done"
    /\ current <= made

\* A connection is proxied only over a session that was up when get returned
\* it, and a session found up is not replaced.
HandsOutLiveSession ==
    [][\A g \in Getters :
        pc[g] \in {"holding", "connecting"} /\ pc'[g] = "proxying"
            => current' \in alive' /\ (Healthy => made' = made)]_vars

\* get returns for every connection, stop returns, and start ends one way or
\* the other.
GetReturns == \A g \in Getters : pc[g] \in InGet \cup {"spawned"} ~> pc[g] \in {"proxying", "done"}
StopReturns == forwarder = "stopping" ~> forwarder = "stopped"
EveryoneReturns == GetReturns /\ StopReturns

\* The comment of SessionProvider::get: "Blocks for at most
\* `RECONNECT_DEADLINE`".  The wait for the mutex comes before the deadline's
\* clock starts.
GetWithinDeadline == \A g \in Getters : waited[g] <= Deadline
=============================================================================
