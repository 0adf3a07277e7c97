--------------------------- MODULE TunnelRegistry ---------------------------
(***************************************************************************)
(* The desktop's tunnel commands over the shared registry: start, stop and *)
(* status run on blocking threads and meet only at the registry's mutex;   *)
(* stop_all_tunnels is an async command, the closing window calls stop_all *)
(* on the main thread.  A forwarder is live while its accept loop is up    *)
(* (SessionProvider models its inside).  What a command does under the     *)
(* mutex, stopping a forwarder included, is one step.                      *)
(***************************************************************************)
EXTENDS Naturals, FiniteSets

CONSTANTS
    Ids,             \* tunnel ids
    Management,      \* those that tunnel to the management service
    Calls,           \* the commands the web view may have in flight
    MaxForwarders    \* bound: forwarders that are started

ASSUME RegistryAssumption ==
    Management \subseteq Ids /\ MaxForwarders \in Nat

VARIABLES
    app,         \* "open" or "closed"
    tunnels,     \* the registry: of each id its forwarder, 0 for none
    poisoned,    \* whether a panic has poisoned the mutex
    live,        \* forwarders whose accept loop is up
    started,        \* forwarders started so far
    at,          \* where each command is
    id,          \* the id it was called with
    port,        \* the remote port it tries: 1, or 2 for the legacy one
    fwd,         \* the forwarder it has started and not yet registered
    answer       \* the forwarder it answered with, 0 for none or an error

callVars == <<at, id, port, fwd, answer>>
registryVars == <<app, tunnels, poisoned, live, started, at, id, port, fwd, answer>>

InFlight == {"check", "connect", "probe", "insert", "status", "stop", "stop_all"}
InHand == {"probe", "insert"}

Forwarders == 1..MaxForwarders
OrNone == Forwarders \cup {0}

RegistryTypeOK ==
    /\ app \in {"open", "closed"}
    /\ tunnels \in [Ids -> OrNone]
    /\ poisoned \in BOOLEAN
    /\ live \subseteq Forwarders
    /\ started \in 0..MaxForwarders
    /\ at \in [Calls -> InFlight \cup {"idle", "lost"}]
    /\ id \in [Calls -> Ids]
    /\ port \in [Calls -> {1, 2}]
    /\ fwd \in [Calls -> OrNone]
    /\ answer \in [Calls -> OrNone]

RegistryInit ==
    /\ app = "open"
    /\ tunnels = [i \in Ids |-> 0]
    /\ poisoned = FALSE
    /\ live = {}
    /\ started = 0
    /\ at = [c \in Calls |-> "idle"]
    /\ id \in [Calls -> Ids]
    /\ port = [c \in Calls |-> 1]
    /\ fwd = [c \in Calls |-> 0]
    /\ answer = [c \in Calls |-> 0]

Goto(c, label) == at' = [at EXCEPT ![c] = label]
Answers(c, f) == Goto(c, "idle") /\ answer' = [answer EXCEPT ![c] = f]
Fails(c) == Answers(c, 0)
LetGo(c) == fwd' = [fwd EXCEPT ![c] = 0]
Registered == {tunnels[i] : i \in Ids} \ {0}
-----------------------------------------------------------------------------
(* The commands, as the web view calls them. *)

Call(c, op, i) ==
    /\ app = "open" /\ at[c] = "idle"
    /\ Goto(c, op)
    /\ id' = [id EXCEPT ![c] = i]
    /\ port' = [port EXCEPT ![c] = 1]
    /\ answer' = [answer EXCEPT ![c] = 0]
    /\ UNCHANGED <<app, tunnels, poisoned, live, started, fwd>>

StartTunnel(c, i) == Call(c, "check", i)
TunnelStatus(c, i) == Call(c, "status", i)
StopTunnel(c, i) == Call(c, "stop", i)
StopAll(c) == Call(c, "stop_all", id[c])

\* The mutant forgets the forwarder instead of dropping it.
UnavailableLeaks(c) ==
    /\ app = "open" /\ poisoned
    /\ at[c] \in {"check", "insert", "status", "stop", "stop_all"}
    /\ Fails(c)
    /\ LetGo(c)
    /\ UNCHANGED <<app, tunnels, poisoned, live, started, id, port>>

\* Every command fails once the mutex is poisoned; start then drops the
\* forwarder it may have started.
Unavailable(c) ==
    /\ app = "open" /\ poisoned
    /\ at[c] \in {"check", "insert", "status", "stop", "stop_all"}
    /\ Fails(c)
    /\ LetGo(c)
    /\ live' = live \ {fwd[c]}
    /\ UNCHANGED <<app, tunnels, poisoned, started, id, port>>

Locked == app = "open" /\ ~poisoned
-----------------------------------------------------------------------------
(* existing_running_tunnel, for start and for status. *)

Running(i) == tunnels[i] # 0 /\ tunnels[i] \in live
Existing(c) ==
    /\ Locked /\ at[c] \in {"check", "status"}
    /\ Running(id[c])
    /\ Answers(c, tunnels[id[c]])
    /\ UNCHANGED <<app, tunnels, poisoned, live, started, id, port, fwd>>

\* A forwarder whose loop has ended is taken out.
NotRunning(c) ==
    /\ Locked /\ at[c] \in {"check", "status"}
    /\ ~Running(id[c])
    /\ tunnels' = [tunnels EXCEPT ![id[c]] = 0]
    /\ \/ at[c] = "check" /\ Goto(c, "connect") /\ UNCHANGED answer
       \/ at[c] = "status" /\ Fails(c)
    /\ UNCHANGED <<app, poisoned, live, started, id, port, fwd>>
-----------------------------------------------------------------------------
(* The rest of start. *)

Connect(c) ==
    /\ app = "open" /\ at[c] = "connect" /\ started < MaxForwarders
    /\ started' = started + 1
    /\ live' = live \cup {started + 1}
    /\ fwd' = [fwd EXCEPT ![c] = started + 1]
    /\ Goto(c, IF id[c] \in Management THEN "probe" ELSE "insert")
    /\ UNCHANGED <<app, tunnels, poisoned, id, port, answer>>

\* The mutant tries again until the host answers.
ConnectRetries(c) ==
    /\ app = "open" /\ at[c] = "connect"
    /\ UNCHANGED registryVars

\* The port's discovery, the SSH connection or the local bind fails.
StartFails(c) ==
    /\ app = "open" /\ at[c] = "connect"
    /\ Fails(c)
    /\ UNCHANGED <<app, tunnels, poisoned, live, started, id, port, fwd>>

ProbeOk(c) ==
    /\ app = "open" /\ at[c] = "probe"
    /\ Goto(c, "insert")
    /\ UNCHANGED <<app, tunnels, poisoned, live, started, id, port, fwd, answer>>

\* Nothing answers there: the forwarder is stopped and the legacy port is
\* tried, once.
ProbeFails(c) ==
    /\ app = "open" /\ at[c] = "probe"
    /\ live' = live \ {fwd[c]}
    /\ LetGo(c)
    /\ \/ port[c] = 1 /\ Goto(c, "connect") /\ port' = [port EXCEPT ![c] = 2]
          /\ UNCHANGED answer
       \/ port[c] = 2 /\ Fails(c) /\ UNCHANGED port
    /\ UNCHANGED <<app, tunnels, poisoned, started, id>>

\* The mutant leaves the tunnel of the call that was faster.
InsertIfFree(c) ==
    /\ Locked /\ at[c] = "insert"
    /\ tunnels' = [tunnels EXCEPT ![id[c]] = IF @ = 0 THEN fwd[c] ELSE @]
    /\ live' = IF tunnels[id[c]] = 0 THEN live ELSE live \ {fwd[c]}
    /\ Answers(c, fwd[c])
    /\ LetGo(c)
    /\ UNCHANGED <<app, poisoned, started, id, port>>

\* What another start of this id has registered meanwhile is stopped.
Insert(c) ==
    /\ Locked /\ at[c] = "insert"
    /\ live' = live \ {tunnels[id[c]]}
    /\ tunnels' = [tunnels EXCEPT ![id[c]] = fwd[c]]
    /\ Answers(c, fwd[c])
    /\ LetGo(c)
    /\ UNCHANGED <<app, poisoned, started, id, port>>
-----------------------------------------------------------------------------
(* Stopping. *)

StopOne(c) ==
    /\ Locked /\ at[c] = "stop"
    /\ live' = live \ {tunnels[id[c]]}
    /\ tunnels' = [tunnels EXCEPT ![id[c]] = 0]
    /\ Fails(c)
    /\ UNCHANGED <<app, poisoned, started, id, port, fwd>>

StopAllNothing(c) ==
    /\ Locked /\ at[c] = "stop_all"
    /\ Registered = {}
    /\ Fails(c)
    /\ UNCHANGED <<app, tunnels, poisoned, live, started, id, port, fwd>>

\* With a tunnel in the registry the async command enters block_on inside the
\* runtime and panics: the drain drops every tunnel, the mutex is poisoned,
\* and the web view never gets an answer.
StopAllPanics(c) ==
    /\ Locked /\ at[c] = "stop_all"
    /\ Registered # {}
    /\ live' = live \ Registered
    /\ tunnels' = [i \in Ids |-> 0]
    /\ poisoned' = TRUE
    /\ Goto(c, "lost")
    /\ UNCHANGED <<app, started, id, port, fwd, answer>>

\* The main thread drains the registry and the process ends.
CloseWindow ==
    /\ app = "open"
    /\ app' = "closed"
    /\ tunnels' = [i \in Ids |-> 0]
    /\ live' = {}
    /\ fwd' = [c \in Calls |-> 0]
    /\ UNCHANGED <<poisoned, started, at, id, port, answer>>

\* An accept loop ends although nobody stopped it.
LoopDies(f) ==
    /\ app = "open" /\ f \in live \cap Registered
    /\ live' = live \ {f}
    /\ UNCHANGED <<app, tunnels, poisoned, started, callVars>>
-----------------------------------------------------------------------------
Works(c) ==
    \/ Unavailable(c) \/ Existing(c) \/ NotRunning(c)
    \/ Connect(c) \/ StartFails(c) \/ ProbeOk(c) \/ ProbeFails(c) \/ Insert(c)
    \/ StopOne(c) \/ StopAllNothing(c) \/ StopAllPanics(c)

RegistryNext ==
    \/ \E c \in Calls : Works(c) \/ StopAll(c)
    \/ \E c \in Calls, i \in Ids : StartTunnel(c, i) \/ TunnelStatus(c, i) \/ StopTunnel(c, i)
    \/ \E f \in live : LoopDies(f)
    \/ CloseWindow

RegistrySpec == RegistryInit /\ [][RegistryNext]_registryVars

\* Every thread that runs a command is scheduled; its timeouts end every wait.
FairRegistrySpec == RegistrySpec /\ \A c \in Calls : WF_registryVars(Works(c))
-----------------------------------------------------------------------------
(* Properties. *)

InHands == {c \in Calls : at[c] \in InHand}

\* No forwarder stays up that nobody can stop: each is in the registry or in
\* the hands of the start that will register or stop it, whatever starts,
\* stops and panics overlap.
NoOrphans ==
    app = "open" => live \subseteq Registered \cup {fwd[c] : c \in InHands}

\* A forwarder has one place: under one id or in one start's hands.
RegistryInv ==
    /\ \A c \in Calls : fwd[c] # 0 <=> (app = "open" /\ c \in InHands)
    /\ \A c \in InHands : app = "open" => fwd[c] \in live /\ fwd[c] \notin Registered
    /\ \A c, d \in Calls : fwd[c] = fwd[d] /\ fwd[c] # 0 => c = d
    /\ \A i, j \in Ids : tunnels[i] = tunnels[j] /\ tunnels[i] # 0 => i = j
    /\ \A i \in Ids : tunnels[i] <= started
    /\ \A c \in Calls : fwd[c] <= started
    /\ \A f \in live : f <= started
    /\ poisoned /\ app = "open" => Registered = {}

\* The tunnel a start or a status answers with is live and is the one that
\* the registry has under the id that was asked for.
AnswersAreRegistered ==
    [][\A c \in Calls :
        answer'[c] # answer[c] /\ answer'[c] # 0
            => answer'[c] \in live' /\ tunnels'[id[c]] = answer'[c]]_registryVars

\* Every command is answered while the window is open, except the one that
\* panicked.
CallsAreAnswered ==
    \A c \in Calls : at[c] \in InFlight ~> at[c] \in {"idle", "lost"} \/ app = "closed"

\* The comment of shared_runtime (session.rs, 21-23): the thread that blocks
\* on it "must not already be inside a Tokio runtime".  The stop_all command
\* does, and no tunnel can be started again.
RegistryStaysAvailable == ~poisoned
=============================================================================
