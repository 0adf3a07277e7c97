----------------------------- MODULE ClusterAccess -----------------------------
(***************************************************************************)
(* How the daemon finds the game's cluster and database: the cache of what *)
(* kubectl last found (kubectl/cluster.rs) and the database client that is *)
(* kept and shared, beside the one a transaction opens for itself          *)
(* (postgres/conn.rs).  Callers, the tasks and the API's handlers, share   *)
(* both; each kubectl command and each connection attempt is a step, and   *)
(* neither cache keeps its mutex meanwhile.  The worlds come and go by the *)
(* administrators' hands: external.  A kubectl command answers what is so   *)
(* when it ends; each world's database has a password of its own.          *)
(***************************************************************************)
EXTENDS Integers

CONSTANTS
  Callers,
  Namespaces,
  None,
  TTL,        \* how long a cached cluster is good, in ticks
  Limit,      \* kubectl's time limit for one command, in ticks
  MaxChanges, \* bound: what administrators do to the worlds
  MaxFaults   \* bound: commands that fail by themselves

ASSUME AccessAssumption ==
  /\ TTL \in Nat \ {0} /\ Limit \in Nat \ {0}
  /\ MaxChanges \in Nat /\ MaxFaults \in Nat
  /\ None \notin Namespaces

VARIABLES
  world,    \* a namespace is absent, up, or stopped: its broker gone, its database up
  life,     \* which database of a namespace it is: each has passwords of its own
  hostPort, \* the namespace whose database has the host port 15432
  since,    \* ticks since a namespace was the only one with a broker
  cached,   \* the cached cluster and its age
  shared,   \* the shared client's connection
  call,     \* what each caller does
  changes,
  faults

outside == <<world, life, hostPort, changes>>
accessVars == <<outside, since, cached, shared, call, faults>>

Stale == TTL + 2 * Limit
Idle == [pc |-> "idle"]
NoConnection == [db |-> None, life |-> 0, closed |-> TRUE]

Candidates == {ns \in Namespaces : world[ns] = "up"}
HasDatabase(ns) == world[ns] # "absent"
Alive(c) == c.db # None /\ HasDatabase(c.db) /\ life[c.db] = c.life

AccessInit ==
  /\ world \in [Namespaces -> {"absent", "up"}]
  /\ \E ns \in Namespaces : Candidates = {ns}
  /\ life = [ns \in Namespaces |-> 0]
  /\ hostPort \in {ns \in Namespaces : HasDatabase(ns)} \cup {None}
  /\ since = [ns \in Namespaces |-> IF ns \in Candidates THEN 0 ELSE Stale]
  /\ cached = [ns |-> None, age |-> 0]
  /\ shared = NoConnection
  /\ call = [p \in Callers |-> Idle]
  /\ changes = 0 /\ faults = 0

--------------------------------------------------------------------------------
(* get_with(): the cluster.                                                 *)

At(p, pc) == call[p].pc = pc
Gives(p)  == call' = [call EXCEPT ![p] = Idle]
Answer(p, ns) == call' = [call EXCEPT ![p] = [pc |-> "client", ns |-> ns]]

\* (A bug: what was used is kept for longer.)
HitRenews(p) ==
  /\ At(p, "idle") /\ cached.ns # None /\ cached.age < TTL
  /\ Answer(p, cached.ns)
  /\ cached' = [ns |-> cached.ns, age |-> 0]
  /\ UNCHANGED <<outside, since, shared, faults>>

Hit(p) ==
  /\ At(p, "idle")
  /\ cached.ns # None /\ cached.age < TTL
  /\ Answer(p, cached.ns)
  /\ UNCHANGED <<outside, since, cached, shared, faults>>

\* A miss leaves the mutex, and every caller that misses detects on its own.
Miss(p) ==
  /\ At(p, "idle")
  /\ cached.ns = None \/ cached.age \geq TTL
  /\ call' = [call EXCEPT ![p] = [pc |-> "list"]]
  /\ UNCHANGED <<outside, since, cached, shared, faults>>

\* detect_namespace(): none or several candidates are an error.
DetectNamespace(p) ==
  /\ At(p, "list")
  /\ \/ \E ns \in Namespaces :
          /\ Candidates = {ns}
          /\ call' = [call EXCEPT ![p] = [pc |-> "broker", ns |-> ns, took |-> 0]]
     \/ (\A ns \in Namespaces : Candidates # {ns}) /\ Gives(p)
  /\ UNCHANGED <<outside, since, cached, shared, faults>>

\* detect_pod(): without the broker's pod there is no cluster.
DetectBroker(p) ==
  /\ At(p, "broker")
  /\ IF call[p].ns \in Candidates
     THEN call' = [call EXCEPT ![p] = [pc |-> "pod", ns |-> call[p].ns, took |-> call[p].took]]
     ELSE Gives(p)
  /\ UNCHANGED <<outside, since, cached, shared, faults>>

\* The database's pod may be missing.  What was detected is stored over what
\* another caller stored meanwhile, and answered.
DetectDatabase(p) ==
  /\ At(p, "pod")
  /\ cached' = [ns |-> call[p].ns, age |-> 0]
  /\ Answer(p, call[p].ns)
  /\ UNCHANGED <<outside, since, shared, faults>>

--------------------------------------------------------------------------------
(* client(), dedicated_client() and connect(): the database.                *)

Connecting(p, for) == [pc |-> "credentials", ns |-> call[p].ns, for |-> for]

\* (A bug: what was connected once is used for good.)
ClientUnchecked(p) ==
  /\ At(p, "client")
  /\ call' = [call EXCEPT ![p] = IF shared.db # None
                                 THEN [pc |-> "query", ns |-> call[p].ns, on |-> shared]
                                 ELSE Connecting(p, "shared")]
  /\ UNCHANGED <<outside, since, cached, shared, faults>>

\* The shared client is used whatever namespace is asked for, until its connection
\* is known to be closed.
Client(p) ==
  /\ At(p, "client")
  /\ call' = [call EXCEPT ![p] = IF ~shared.closed
                                 THEN [pc |-> "query", ns |-> call[p].ns, on |-> shared]
                                 ELSE Connecting(p, "shared")]
  /\ UNCHANGED <<outside, since, cached, shared, faults>>

\* resolve_credentials(): from the battlegroup object of the namespace.
Credentials(p) ==
  /\ At(p, "credentials")
  /\ IF HasDatabase(call[p].ns)
     THEN call' = [call EXCEPT ![p] = [pc |-> "endpoint", ns |-> call[p].ns,
                                       for |-> call[p].for, life |-> life[call[p].ns]]]
     ELSE Gives(p)
  /\ UNCHANGED <<outside, since, cached, shared, faults>>

\* resolve_endpoint(): whatever listens on the host port comes first, then the
\* service of the namespace.
Endpoint(p) ==
  /\ At(p, "endpoint")
  /\ IF hostPort # None \/ HasDatabase(call[p].ns)
     THEN call' = [call EXCEPT ![p] = [pc |-> IF hostPort # None THEN "port" ELSE "service",
                                       ns |-> call[p].ns, for |-> call[p].for,
                                       life |-> call[p].life]]
     ELSE Gives(p)
  /\ UNCHANGED <<outside, since, cached, shared, faults>>

\* The database that answers takes the credentials that are its own.
Reached(p) == IF At(p, "port") THEN hostPort ELSE call[p].ns
Accepts(p) ==
  /\ Reached(p) = call[p].ns
  /\ HasDatabase(call[p].ns) /\ life[call[p].ns] = call[p].life

ConnectDatabase(p) ==
  /\ At(p, "port") \/ At(p, "service")
  /\ LET c == [db |-> Reached(p), life |-> call[p].life, closed |-> FALSE]
     IN  /\ IF ~Accepts(p) THEN Gives(p)
            ELSE call' = [call EXCEPT ![p] =
                            [pc |-> IF call[p].for = "shared" THEN "query" ELSE "write",
                             ns |-> call[p].ns, on |-> c]]
         /\ shared' = IF Accepts(p) /\ call[p].for = "shared" THEN c ELSE shared
  /\ UNCHANGED <<outside, since, cached, faults>>

\* (A bug: the transaction takes the shared client.)
OwnFromShared(p) ==
  IF ~shared.closed THEN [pc |-> "write", ns |-> call[p].ns, on |-> shared]
                    ELSE Connecting(p, "own")

OwnClient(p) == Connecting(p, "own")

\* A query on the shared client; the caller has what it wanted, or goes on to a
\* transaction on a connection of its own.
Query(p) ==
  /\ At(p, "query")
  /\ \/ Gives(p)
     \/ Alive(call[p].on) /\ call' = [call EXCEPT ![p] = OwnClient(p)]
  /\ UNCHANGED <<outside, since, cached, shared, faults>>

Write(p) ==
  /\ At(p, "write")
  /\ Gives(p)
  /\ UNCHANGED <<outside, since, cached, shared, faults>>

\* A command or a connection attempt fails or times out.
CommandFails(p) ==
  /\ call[p].pc \notin {"idle", "client"}
  /\ faults < MaxFaults
  /\ faults' = faults + 1
  /\ Gives(p)
  /\ UNCHANGED <<outside, since, cached, shared>>

\* The connection's task notices that its database is gone.
Closes ==
  /\ ~shared.closed /\ ~Alive(shared)
  /\ shared' = [shared EXCEPT !.closed = TRUE]
  /\ UNCHANGED <<outside, since, cached, call, faults>>

--------------------------------------------------------------------------------
(* Time and the administrators.                                             *)

\* No command outlives its limit.
Tick ==
  /\ \A p \in Callers : /\ At(p, "broker") => call[p].took < Limit
                        /\ At(p, "pod") => call[p].took < 2 * Limit
  /\ since' = [ns \in Namespaces |->
                 IF Candidates = {ns} THEN 0 ELSE IF since[ns] = Stale THEN Stale
                                                  ELSE since[ns] + 1]
  /\ cached' = [ns |-> cached.ns,
                age |-> IF cached.age = TTL THEN TTL ELSE cached.age + 1]
  /\ call' = [p \in Callers |->
                IF call[p].pc \in {"broker", "pod"}
                THEN [pc |-> call[p].pc, ns |-> call[p].ns, took |-> call[p].took + 1]
                ELSE call[p]]
  /\ UNCHANGED <<outside, shared, faults>>

\* A world is set up, stopped, started or removed; the host port goes to a
\* database that runs.
Change(ns, to) ==
  /\ changes < MaxChanges
  /\ to \in CASE world[ns] = "absent" -> {"up"}
             [] world[ns] = "up" -> {"stopped", "absent"}
             [] world[ns] = "stopped" -> {"up", "absent"}
  /\ changes' = changes + 1
  /\ world' = [world EXCEPT ![ns] = to]
  /\ life' = IF to = "absent" THEN [life EXCEPT ![ns] = @ + 1] ELSE life
  /\ hostPort' \in IF hostPort # None /\ world'[hostPort] # "absent" THEN {hostPort}
               ELSE {n \in Namespaces : world'[n] # "absent"} \cup {None}
  /\ since' = [n \in Namespaces |->
                 IF {m \in Namespaces : world'[m] = "up"} = {n} THEN 0 ELSE since[n]]
  /\ UNCHANGED <<cached, shared, call, faults>>

Steps(p) ==
  \/ Hit(p) \/ Miss(p) \/ DetectNamespace(p) \/ DetectBroker(p) \/ DetectDatabase(p)
  \/ Client(p) \/ Credentials(p) \/ Endpoint(p) \/ ConnectDatabase(p) \/ Query(p) \/ Write(p)

AccessNext ==
  \/ \E p \in Callers : Steps(p) \/ CommandFails(p)
  \/ Closes \/ Tick
  \/ \E ns \in Namespaces, to \in {"absent", "up", "stopped"} : Change(ns, to)

\* The runtime runs every task that is ready, time passes, and a connection whose
\* database is gone ends.
AccessFairness ==
  /\ WF_accessVars(Tick) /\ WF_accessVars(Closes)
  /\ \A p \in Callers : WF_accessVars(Steps(p))
AccessSpec == AccessInit /\ [][AccessNext]_accessVars /\ AccessFairness

--------------------------------------------------------------------------------
\* A caller is answered with a namespace that was the only one with a broker not
\* longer ago than a cached cluster is good and two commands may last, however
\* slowly others detect and whatever they store over it (cluster.rs:51).
AnswersAreFresh ==
  [][\A p \in Callers :
       call[p].pc # "client" /\ call'[p].pc = "client" => since[call'[p].ns] < Stale]_accessVars

\* A transaction is made in the database of the namespace its caller was answered,
\* whatever listens on the host port and whatever the shared client is connected
\* to (conn.rs:80).
TransactionsStayInTheirWorld ==
  \A p \in Callers : At(p, "write") => call[p].on.db = call[p].ns

\* Once one world is left, callers come to query its database and no other, again
\* and again (conn.rs:40).
Settled ==
  \E ns \in Namespaces : Candidates = {ns} /\ {n \in Namespaces : HasDatabase(n)} = {ns}
Recovers ==
  \A p \in Callers :
    <>[]Settled => /\ <>[](At(p, "query") => call[p].on.db \in Candidates)
                   /\ []<>(At(p, "query") /\ Alive(call[p].on))
================================================================================
