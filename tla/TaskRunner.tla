----------------------------- MODULE TaskRunner -----------------------------
(***************************************************************************)
(* The daemon's task execution: one scheduler loop per task with a         *)
(* schedule, runs spawned by POST /api/runs/trigger, and the TaskRunner    *)
(* both go through.  The runner keeps an in-memory set of the tasks it is  *)
(* executing and records every run as a row of the SQLite table task_runs. *)
(*                                                                         *)
(* A caller is a scheduler loop (named by its task) or a slot in which a   *)
(* triggered run executes.  Each step of a call is one store call or one   *)
(* await point of TaskRunner::run, so everything other calls, a store      *)
(* error, a panic of a task's body, SIGTERM or a crash can do in between   *)
(* is interleaved.  What a task's body does is left to other modules; here *)
(* it ends with one of its three results or panics.                        *)
(***************************************************************************)
EXTENDS Naturals, FiniteSets

CONSTANTS
    Tasks,       \* ids of the registered tasks
    Looping,     \* the tasks whose schedule is not disabled
    Slots,       \* places a triggered run may execute in (bounds concurrency)
    NoTask,      \* no task
    MaxRuns,     \* bound: rows ever inserted in task_runs
    MaxFaults,   \* bound: store errors and panics in one life of the daemon
    MaxStarts    \* bound: starts of the daemon

ASSUME RunnerAssumption ==
    /\ Looping \subseteq Tasks
    /\ Slots \cap Tasks = {}
    /\ IsFiniteSet(Tasks) /\ IsFiniteSet(Slots)
    /\ NoTask \notin Tasks
    /\ MaxRuns \in Nat /\ MaxFaults \in Nat /\ MaxStarts \in Nat

VARIABLES
    daemon,     \* "down", "up", or "stopping" after SIGTERM
    running,    \* TaskRunner.running, the overlap guard
    pc,         \* what each caller does next
    task,       \* the task each caller is running
    run,        \* the row of each caller's run, 0 before start_run
    outcome,    \* what the body of each caller's run returned
    runs,       \* the table task_runs
    lastRun,    \* its AUTOINCREMENT counter
    faults,     \* store errors and panics since the daemon started
    starts      \* starts of the daemon so far

callVars == <<pc, task, run, outcome>>
tableVars == <<runs, lastRun>>
vars == <<daemon, running, pc, task, run, outcome, runs, lastRun, faults, starts>>

Callers == Looping \cup Slots
RunIds == 1..MaxRuns
Outcomes == {"done", "noop", "error"}
Statuses == {"absent", "running", "success", "failed", "skipped", "deleted"}

\* The calls that went through the guard and have not released it.
Holding == {"start", "log_start", "body", "release"}
\* The calls about to make a store call that may fail.
StoreSteps == {"skip_start", "skip_log", "skip_finish", "start", "log_start",
               "log_outcome", "finish", "delete"}
\* The calls whose row exists and that have not yet given it its last status.
OwnsRow == {"skip_log", "skip_finish", "log_start", "body", "release",
            "log_outcome", "finish", "delete"}
\* The await points of TaskRunner::run: where dropping the runtime cuts a call.
Abortable == {"idle", "guard", "body", "release"}
PCs == StoreSteps \cup {"idle", "exited", "guard", "body", "release"}

Trigger(c) == IF c \in Looping THEN "scheduled" ELSE "manual"

Row == [task : Tasks \cup {NoTask}, trigger : {"none", "scheduled", "manual"},
        status : Statuses]
NoRun == [task |-> NoTask, trigger |-> "none", status |-> "absent"]

TypeOK ==
    /\ daemon \in {"down", "up", "stopping"}
    /\ running \subseteq Tasks
    /\ pc \in [Callers -> PCs]
    /\ task \in [Callers -> Tasks \cup {NoTask}]
    /\ run \in [Callers -> 0..MaxRuns]
    /\ outcome \in [Callers -> Outcomes \cup {"none"}]
    /\ runs \in [RunIds -> Row]
    /\ lastRun \in 0..MaxRuns
    /\ faults \in 0..MaxFaults
    /\ starts \in 0..MaxStarts
-----------------------------------------------------------------------------
Init ==
    /\ daemon = "down"
    /\ running = {}
    /\ pc = [c \in Callers |-> "idle"]
    /\ task = [c \in Callers |-> NoTask]
    /\ run = [c \in Callers |-> 0]
    /\ outcome = [c \in Callers |-> "none"]
    /\ runs = [r \in RunIds |-> NoRun]
    /\ lastRun = 0
    /\ faults = 0
    /\ starts = 0

\* The process is gone: no call and no guard is left of it.
Gone ==
    /\ running' = {}
    /\ pc' = [c \in Callers |-> "idle"]
    /\ task' = [c \in Callers |-> NoTask]
    /\ run' = [c \in Callers |-> 0]
    /\ outcome' = [c \in Callers |-> "none"]

\* TaskRunner::run returns to its caller.  A loop that finds the scheduler
\* cancelled at its next select ends.
Return(c) ==
    /\ pc' = [pc EXCEPT ![c] = IF c \in Looping /\ daemon = "stopping"
                               THEN "exited" ELSE "idle"]
    /\ task' = [task EXCEPT ![c] = NoTask]
    /\ run' = [run EXCEPT ![c] = 0]
    /\ outcome' = [outcome EXCEPT ![c] = "none"]

Goto(c, label) ==
    /\ pc' = [pc EXCEPT ![c] = label]
    /\ UNCHANGED <<task, run, outcome>>

SetStatus(r, s) == /\ runs' = [runs EXCEPT ![r].status = s]
                   /\ UNCHANGED lastRun
-----------------------------------------------------------------------------
(* The daemon's life. *)

SweepsAll(table) ==
    [r \in RunIds |-> IF table[r].status # "absent"
                      THEN [table[r] EXCEPT !.status = "failed"] ELSE table[r]]

\* mark_orphaned_runs, part of every Store::open.
Orphaned(table) ==
    [r \in RunIds |-> IF table[r].status = "running"
                      THEN [table[r] EXCEPT !.status = "failed"] ELSE table[r]]

Start ==
    /\ daemon = "down" /\ starts < MaxStarts
    /\ daemon' = "up"
    /\ runs' = Orphaned(runs)
    /\ Gone
    /\ faults' = 0
    /\ starts' = starts + 1
    /\ UNCHANGED lastRun

Sigterm ==
    /\ daemon = "up"
    /\ daemon' = "stopping"
    /\ UNCHANGED <<running, callVars, tableVars, faults, starts>>

\* Scheduler::shutdown has joined every loop; dropping the runtime cuts the
\* triggered runs, which nothing joins, at whichever await they are.
Stopped ==
    /\ daemon = "stopping"
    /\ \A t \in Looping : pc[t] = "exited"
    /\ \A s \in Slots : pc[s] \in Abortable
    /\ daemon' = "down"
    /\ Gone
    /\ UNCHANGED <<tableVars, faults, starts>>

Crash ==
    /\ daemon # "down"
    /\ daemon' = "down"
    /\ Gone
    /\ UNCHANGED <<tableVars, faults, starts>>
-----------------------------------------------------------------------------
(* How a call begins. *)

\* Bound: every admitted call finds a row id left.
RowsLeft ==
    lastRun + Cardinality({c \in Callers : pc[c] \in {"guard", "start", "skip_start"}})
        < MaxRuns

Begin(c, t) ==
    /\ daemon # "down"
    /\ pc[c] = "idle"
    /\ RowsLeft
    /\ pc' = [pc EXCEPT ![c] = "guard"]
    /\ task' = [task EXCEPT ![c] = t]
    /\ UNCHANGED <<daemon, running, run, outcome, tableVars, faults, starts>>

\* A loop's sleep ends.  The select is not biased, so a sleep that ends as the
\* scheduler is cancelled may still win.
LoopFire(t) == Begin(t, t)

NeverExit(t) == FALSE

LoopExit(t) ==
    /\ daemon = "stopping"
    /\ pc[t] = "idle"
    /\ Goto(t, "exited")
    /\ UNCHANGED <<daemon, running, tableVars, faults, starts>>

\* POST /api/runs/trigger, also one still being served when SIGTERM arrives.
TriggerRun(s, t) == Begin(s, t)
-----------------------------------------------------------------------------
(* TaskRunner::run *)

EnterUnguarded(c) ==
    /\ pc[c] = "guard"
    /\ running' = running \cup {task[c]}
    /\ Goto(c, "start")
    /\ UNCHANGED <<daemon, tableVars, faults, starts>>

\* The guard's mutex is held over the test and the insertion.
Enter(c) ==
    /\ pc[c] = "guard"
    /\ task[c] \notin running
    /\ running' = running \cup {task[c]}
    /\ Goto(c, "start")
    /\ UNCHANGED <<daemon, tableVars, faults, starts>>

OverlapReleases(c) ==
    /\ pc[c] = "guard"
    /\ task[c] \in running
    /\ running' = running \ {task[c]}
    /\ Goto(c, "skip_start")
    /\ UNCHANGED <<daemon, tableVars, faults, starts>>

OverlapWaits(c) == FALSE

Overlap(c) ==
    /\ pc[c] = "guard"
    /\ task[c] \in running
    /\ Goto(c, "skip_start")
    /\ UNCHANGED <<daemon, running, tableVars, faults, starts>>

\* start_run, on the normal and on the overlap path.
StartRun(c) ==
    /\ pc[c] \in {"start", "skip_start"}
    /\ lastRun < MaxRuns
    /\ lastRun' = lastRun + 1
    /\ runs' = [runs EXCEPT ![lastRun + 1] =
                    [task |-> task[c], trigger |-> Trigger(c), status |-> "running"]]
    /\ run' = [run EXCEPT ![c] = lastRun + 1]
    /\ pc' = [pc EXCEPT ![c] = IF @ = "start" THEN "log_start" ELSE "skip_log"]
    /\ UNCHANGED <<daemon, running, task, outcome, faults, starts>>

\* The log lines of a run: one when it starts, one when it is skipped, one
\* with its result.
LogLine(c) ==
    /\ \/ pc[c] = "log_start" /\ Goto(c, "body")
       \/ pc[c] = "skip_log" /\ Goto(c, "skip_finish")
       \/ pc[c] = "log_outcome" /\ Goto(c, "finish")
    /\ UNCHANGED <<daemon, running, tableVars, faults, starts>>

SkipForgets(c) ==
    /\ pc[c] = "skip_finish"
    /\ Return(c)
    /\ UNCHANGED <<daemon, running, tableVars, faults, starts>>

SkipFinish(c) ==
    /\ pc[c] = "skip_finish"
    /\ SetStatus(run[c], "skipped")
    /\ Return(c)
    /\ UNCHANGED <<daemon, running, faults, starts>>

BodyEnds(c) ==
    /\ pc[c] = "body"
    /\ \E o \in Outcomes : outcome' = [outcome EXCEPT ![c] = o]
    /\ pc' = [pc EXCEPT ![c] = "release"]
    /\ UNCHANGED <<daemon, running, task, run, tableVars, faults, starts>>

DeletesNoop(c) == outcome[c] = "noop"

\* A scheduled run with nothing to do leaves no row.
DeletesRow(c) == outcome[c] = "noop" /\ Trigger(c) = "scheduled"

\* The guard is released before the run's result is recorded.
Release(c) ==
    /\ pc[c] = "release"
    /\ running' = running \ {task[c]}
    /\ Goto(c, IF DeletesRow(c) THEN "delete" ELSE "log_outcome")
    /\ UNCHANGED <<daemon, tableVars, faults, starts>>

ResultOf(o) == CASE o = "done" -> "success"
                 [] o = "noop" -> "skipped"
                 [] OTHER -> "failed"

FinishRun(c) ==
    /\ pc[c] = "finish"
    /\ SetStatus(run[c], ResultOf(outcome[c]))
    /\ Return(c)
    /\ UNCHANGED <<daemon, running, faults, starts>>

DeleteRun(c) ==
    /\ pc[c] = "delete"
    /\ SetStatus(run[c], "deleted")
    /\ Return(c)
    /\ UNCHANGED <<daemon, running, faults, starts>>

\* Every store call is followed by `?`: an error leaves TaskRunner::run at
\* once, and the guard as it is.
StoreError(c) ==
    /\ pc[c] \in StoreSteps
    /\ faults < MaxFaults
    /\ faults' = faults + 1
    /\ Return(c)
    /\ UNCHANGED <<daemon, running, tableVars, starts>>

\* A panic unwinds the tokio task: a loop is over, a triggered run is gone.
BodyPanics(c) ==
    /\ pc[c] = "body"
    /\ faults < MaxFaults
    /\ faults' = faults + 1
    /\ pc' = [pc EXCEPT ![c] = IF c \in Looping THEN "exited" ELSE "idle"]
    /\ task' = [task EXCEPT ![c] = NoTask]
    /\ run' = [run EXCEPT ![c] = 0]
    /\ outcome' = [outcome EXCEPT ![c] = "none"]
    /\ UNCHANGED <<daemon, running, tableVars, starts>>
-----------------------------------------------------------------------------
Continue(c) ==
    \/ Enter(c) \/ Overlap(c) \/ StartRun(c) \/ LogLine(c) \/ SkipFinish(c)
    \/ BodyEnds(c) \/ Release(c) \/ FinishRun(c) \/ DeleteRun(c)

Next ==
    \/ Start \/ Sigterm \/ Stopped \/ Crash
    \/ \E t \in Looping : LoopFire(t) \/ LoopExit(t)
    \/ \E s \in Slots, t \in Tasks : TriggerRun(s, t)
    \/ \E c \in Callers : Continue(c) \/ StoreError(c) \/ BodyPanics(c)

Spec == Init /\ [][Next]_vars

\* A runnable call is eventually polled by the runtime, and every body ends:
\* each of its waits has a timeout.  A cancelled loop is woken; the runtime
\* drops the rest once the loops are joined.
Fairness ==
    /\ \A c \in Callers : WF_vars(Continue(c))
    /\ \A t \in Looping : WF_vars(LoopExit(t))
    /\ WF_vars(Stopped)

FairSpec == Spec /\ Fairness
-----------------------------------------------------------------------------
(* Properties *)

\* Two runs of the same task never execute at the same time, whichever mix of
\* loops and triggers asked for them (runner.rs: the overlap guard).
SingleInstance ==
    \A c, d \in Callers :
        c # d /\ pc[c] = "body" /\ pc[d] = "body" => task[c] # task[d]

\* While the store answers and no body panics, the guard names exactly the
\* tasks of calls between their entry and their release: no path through
\* TaskRunner::run forgets to release it or releases another call's.
GuardMatchesCalls ==
    faults = 0 => running = {task[c] : c \in {d \in Callers : pc[d] \in Holding}}

\* While the store answers and no body panics, a row that says "running"
\* belongs to a call that is still going to finish or delete it: the history
\* never shows a live daemon a run that nobody executes.
RunningRowsOwned ==
    daemon # "down" /\ faults = 0 =>
        \A r \in RunIds : runs[r].status = "running" =>
            \E c \in Callers : run[c] = r /\ pc[c] \in OwnsRow

\* A recorded result is final: no later run, orphan sweep or restart rewrites
\* the row of a run that ended, and a row never changes its task or trigger.
HistoryIsFinal ==
    [][\A r \in RunIds : runs'[r] # runs[r] =>
          \/ runs[r].status = "absent" /\ runs'[r].status = "running"
          \/ /\ runs[r].status = "running"
             /\ runs'[r].task = runs[r].task /\ runs'[r].trigger = runs[r].trigger]_vars

\* An operator's run always leaves a visible record (runner.rs, issue #9): the
\* row of a manual trigger is never deleted.
ManualRunsKept ==
    \A r \in RunIds : runs[r].trigger = "manual" => runs[r].status # "deleted"

\* After SIGTERM the daemon comes to its end, however many runs are executing,
\* overlapping or being triggered.
ShutdownEnds == daemon = "stopping" ~> daemon = "down"

\* Every call that reached the guard gets back to its caller, or its process
\* goes away.
CallsReturn == \A c \in Callers : pc[c] = "guard" ~> pc[c] \in {"idle", "exited"}

\* The runner implements the abstract single-flight promise: the owners in
\* flight for a task are the calls that hold its guard entry.
Flight == INSTANCE SingleFlight WITH
    Keys <- Tasks, Owners <- Callers,
    inFlight <- [t \in Tasks |-> {c \in Callers : pc[c] \in Holding /\ task[c] = t}]

ImplementsSingleFlight == Flight!Spec

\* What the skip message says: a run is skipped as overlapping only while
\* another run of the same task is in progress.
SkipMeansStillRunning ==
    [][\A c \in Callers : pc[c] = "guard" /\ pc'[c] = "skip_start" =>
          \E d \in Callers : d # c /\ pc[d] \in Holding /\ task[d] = task[c]]_vars
-----------------------------------------------------------------------------
(* The strengthening that makes the invariants above inductive. *)

\* A call under way has a task and, from start_run on, a row.
CallsWellFormed ==
    \A c \in Callers : /\ pc[c] \notin {"idle", "exited"} => task[c] \in Tasks
                       /\ pc[c] \in OwnsRow => run[c] \in RunIds

\* A call that went through the guard has its task in it, and is the only one.
GuardExclusive ==
    /\ \A c \in Callers : pc[c] \in Holding => task[c] \in running
    /\ \A c, d \in Callers :
          c # d /\ pc[c] \in Holding /\ pc[d] \in Holding => task[c] # task[d]

\* Until it is given its last status, the row of a call is its own, is marked
\* running and has the call's trigger; ids are handed out in order.
RowsExclusive ==
    /\ \A c \in Callers : pc[c] \in OwnsRow =>
          /\ run[c] <= lastRun
          /\ runs[run[c]].status = "running"
          /\ runs[run[c]].trigger = Trigger(c)
    /\ \A c, d \in Callers :
          c # d /\ pc[c] \in OwnsRow /\ pc[d] \in OwnsRow => run[c] # run[d]
    /\ \A r \in RunIds : r > lastRun => runs[r].status = "absent"
    /\ \A c \in Callers : pc[c] = "delete" => Trigger(c) = "scheduled"

=============================================================================
