-------------------------- MODULE TaskRunnerProofs --------------------------
(***************************************************************************)
(* Proofs about TaskRunner, for every set of tasks, loops and slots and    *)
(* every bound.  The inductive invariant is built in three layers: types,  *)
(* then the overlap guard, then the rows of the run history.               *)
(***************************************************************************)
EXTENDS TaskRunner, TLAPS

\* Giving a row another status leaves it a row with the same task and trigger
\* (store/runs.rs, finish_run and delete_run).
LEMMA RowStatus ==
    ASSUME NEW x \in Row, NEW s \in Statuses
    PROVE  LET y == [x EXCEPT !.status = s] IN
           y \in Row /\ y.status = s /\ y.task = x.task /\ y.trigger = x.trigger
BY DEF Row

\* A store call that sets the status of one row of a well-formed table.
LEMMA TableStatus ==
    ASSUME runs \in [RunIds -> Row], NEW r \in RunIds, NEW s \in Statuses, SetStatus(r, s)
    PROVE  /\ runs' \in [RunIds -> Row]
           /\ runs'[r].status = s
           /\ runs'[r].task = runs[r].task /\ runs'[r].trigger = runs[r].trigger
           /\ \A q \in RunIds : q # r => runs'[q] = runs[q]
<1> DEFINE y == [runs[r] EXCEPT !.status = s]
<1>1. runs' = [runs EXCEPT ![r] = y]
  BY DEF SetStatus
<1>2. y \in Row /\ y.status = s /\ y.task = runs[r].task /\ y.trigger = runs[r].trigger
  BY RowStatus
<1> HIDE DEF y
<1> QED BY <1>1, <1>2

\* The sweep of Store::open leaves a well-formed table in which no row is
\* running and only rows that were are changed.
LEMMA OrphanSweep ==
    ASSUME runs \in [RunIds -> Row]
    PROVE  /\ Orphaned(runs) \in [RunIds -> Row]
           /\ \A r \in RunIds :
                 /\ Orphaned(runs)[r].status # "running"
                 /\ Orphaned(runs)[r].task = runs[r].task
                 /\ Orphaned(runs)[r].trigger = runs[r].trigger
                 /\ runs[r].status # "running" => Orphaned(runs)[r] = runs[r]
                 /\ runs[r].status = "running" => Orphaned(runs)[r].status = "failed"
<1> DEFINE y(r) == [runs[r] EXCEPT !.status = "failed"]
<1>1. ASSUME NEW r \in RunIds
      PROVE  /\ y(r) \in Row /\ y(r).status = "failed"
             /\ y(r).task = runs[r].task /\ y(r).trigger = runs[r].trigger
  BY RowStatus DEF Statuses
<1>2. Orphaned(runs) = [r \in RunIds |-> IF runs[r].status = "running" THEN y(r) ELSE runs[r]]
  BY DEF Orphaned
<1> HIDE DEF y
<1> QED BY <1>1, <1>2
-----------------------------------------------------------------------------
TypeInv == TypeOK /\ CallsWellFormed

\* Every step keeps the state well formed, and a call under way keeps the task
\* it was begun for (scheduler/runner.rs).
LEMMA TypeInvariant == Spec => []TypeInv
<1> USE RunnerAssumption DEF TypeInv, TypeOK, CallsWellFormed, callVars, tableVars, RunIds,
                 OwnsRow, Callers, PCs, StoreSteps, Outcomes, Statuses
<1>1. Init => TypeInv
  BY DEF Init, NoRun, Row
<1>2. TypeInv /\ [Next]_vars => TypeInv'
  <2> SUFFICES ASSUME TypeInv, [Next]_vars PROVE TypeInv'
    OBVIOUS
  <2>1. CASE Start
    BY <2>1, OrphanSweep DEF Start, Gone
  <2>2. CASE Sigterm
    BY <2>2 DEF Sigterm
  <2>3. CASE Stopped \/ Crash
    BY <2>3 DEF Stopped, Crash, Gone
  <2>4. ASSUME NEW c \in Callers, NEW t \in Tasks, Begin(c, t) PROVE TypeInv'
    BY <2>4 DEF Begin
  <2>5. ASSUME NEW t \in Looping, LoopExit(t) PROVE TypeInv'
    BY <2>5 DEF LoopExit, Goto
  <2>6. ASSUME NEW c \in Callers, Enter(c) PROVE TypeInv'
    BY <2>6 DEF Enter, Goto
  <2>7. ASSUME NEW c \in Callers, Overlap(c) PROVE TypeInv'
    BY <2>7 DEF Overlap, Goto
  <2>8. ASSUME NEW c \in Callers, StartRun(c) PROVE TypeInv'
    <3>1. [task |-> task[c], trigger |-> Trigger(c), status |-> "running"] \in Row
      BY <2>8 DEF StartRun, Trigger, Row
    <3>2. runs' \in [RunIds -> Row]
      BY <2>8, <3>1 DEF StartRun
    <3> QED BY <2>8, <3>2 DEF StartRun
  <2>9. ASSUME NEW c \in Callers, LogLine(c) PROVE TypeInv'
    BY <2>9 DEF LogLine, Goto
  <2>10. ASSUME NEW c \in Callers, SkipFinish(c) PROVE TypeInv'
    <3>1. runs' \in [RunIds -> Row] /\ lastRun' = lastRun
      BY <2>10, TableStatus DEF SkipFinish, SetStatus
    <3> QED BY <2>10, <3>1 DEF SkipFinish, Return
  <2>11. ASSUME NEW c \in Callers, BodyEnds(c) PROVE TypeInv'
    BY <2>11 DEF BodyEnds
  <2>12. ASSUME NEW c \in Callers, Release(c) PROVE TypeInv'
    BY <2>12 DEF Release, Goto
  <2>13. ASSUME NEW c \in Callers, FinishRun(c) PROVE TypeInv'
    <3>1. runs' \in [RunIds -> Row] /\ lastRun' = lastRun
      <4>1. ResultOf(outcome[c]) \in Statuses
        BY DEF ResultOf
      <4> QED BY <2>13, <4>1, TableStatus DEF FinishRun, SetStatus
    <3> QED BY <2>13, <3>1 DEF FinishRun, Return
  <2>14. ASSUME NEW c \in Callers, DeleteRun(c) PROVE TypeInv'
    <3>1. runs' \in [RunIds -> Row] /\ lastRun' = lastRun
      BY <2>14, TableStatus DEF DeleteRun, SetStatus
    <3> QED BY <2>14, <3>1 DEF DeleteRun, Return
  <2>15. ASSUME NEW c \in Callers, StoreError(c) PROVE TypeInv'
    BY <2>15 DEF StoreError, Return
  <2>16. ASSUME NEW c \in Callers, BodyPanics(c) PROVE TypeInv'
    BY <2>16 DEF BodyPanics
  <2>17. CASE UNCHANGED vars
    BY <2>17 DEF vars
  <2> QED
    BY <2>1, <2>2, <2>3, <2>4, <2>5, <2>6, <2>7, <2>8, <2>9, <2>10, <2>11, <2>12,
       <2>13, <2>14, <2>15, <2>16, <2>17
       DEF Next, Continue, LoopFire, TriggerRun
<1> QED
  BY <1>1, <1>2, PTL DEF Spec

\* The types of the runner's state hold in every reachable state.
THEOREM TypeCorrect == Spec => []TypeOK
BY TypeInvariant, PTL DEF TypeInv
-----------------------------------------------------------------------------
\* Without a fault every entry of the guard belongs to a call that holds it.
NoLeak == faults = 0 => \A t \in running : \E c \in Callers : pc[c] \in Holding /\ task[c] = t

GuardInv == GuardExclusive /\ NoLeak

\* The guard is entered by one call at a time and, without faults, names no task
\* nobody is executing (runner.rs, the test-and-insert and the removal).
LEMMA GuardInvariant == Spec => []GuardInv
<1> USE RunnerAssumption DEF GuardInv, GuardExclusive, NoLeak, Holding, StoreSteps, callVars,
                 tableVars, Callers
<1>1. Init => GuardInv
  BY DEF Init
<1>2. TypeInv /\ GuardInv /\ [Next]_vars => GuardInv'
  <2> SUFFICES ASSUME TypeInv, GuardInv, [Next]_vars PROVE GuardInv'
    OBVIOUS
  <2>0. /\ pc \in [Callers -> PCs] /\ task \in [Callers -> Tasks \cup {NoTask}]
        /\ faults \in Nat
    BY DEF TypeInv, TypeOK
  <2>1. CASE Start \/ Stopped \/ Crash
    BY <2>1 DEF Start, Stopped, Crash, Gone
  <2>2. CASE Sigterm
    BY <2>2 DEF Sigterm
  <2>3. ASSUME NEW c \in Callers, NEW t \in Tasks, Begin(c, t) PROVE GuardInv'
    BY <2>0, <2>3 DEF Begin
  <2>4. ASSUME NEW t \in Looping, LoopExit(t) PROVE GuardInv'
    BY <2>0, <2>4 DEF LoopExit, Goto
  <2>5. ASSUME NEW c \in Callers, Enter(c) PROVE GuardInv'
    BY <2>0, <2>5 DEF Enter, Goto
  <2>6. ASSUME NEW c \in Callers, Overlap(c) PROVE GuardInv'
    BY <2>0, <2>6 DEF Overlap, Goto
  <2>7. ASSUME NEW c \in Callers, StartRun(c) PROVE GuardInv'
    BY <2>0, <2>7 DEF StartRun
  <2>8. ASSUME NEW c \in Callers, LogLine(c) PROVE GuardInv'
    BY <2>0, <2>8 DEF LogLine, Goto
  <2>9. ASSUME NEW c \in Callers, SkipFinish(c) \/ FinishRun(c) \/ DeleteRun(c)
        PROVE GuardInv'
    BY <2>0, <2>9 DEF SkipFinish, FinishRun, DeleteRun, Return
  <2>10. ASSUME NEW c \in Callers, BodyEnds(c) PROVE GuardInv'
    BY <2>0, <2>10 DEF BodyEnds
  <2>11. ASSUME NEW c \in Callers, Release(c) PROVE GuardInv'
    BY <2>0, <2>11 DEF Release, Goto
  <2>12. ASSUME NEW c \in Callers, StoreError(c) PROVE GuardInv'
    BY <2>0, <2>12 DEF StoreError, Return
  <2>13. ASSUME NEW c \in Callers, BodyPanics(c) PROVE GuardInv'
    BY <2>0, <2>13 DEF BodyPanics
  <2>14. CASE UNCHANGED vars
    BY <2>14 DEF vars
  <2> QED
    BY <2>1, <2>2, <2>3, <2>4, <2>5, <2>6, <2>7, <2>8, <2>9, <2>10, <2>11, <2>12,
       <2>13, <2>14
       DEF Next, Continue, LoopFire, TriggerRun
<1> QED
  BY <1>1, <1>2, TypeInvariant, PTL DEF Spec

\* No task ever executes twice at the same time.
THEOREM SingleInstanceHolds == Spec => []SingleInstance
<1>1. GuardInv => SingleInstance
  BY DEF GuardInv, GuardExclusive, SingleInstance, Holding
<1> QED BY <1>1, GuardInvariant, PTL

\* Without a store error or a panic the guard names exactly the tasks being run.
THEOREM GuardMatchesCallsHolds == Spec => []GuardMatchesCalls
<1>1. GuardInv => GuardMatchesCalls
  BY DEF GuardInv, GuardExclusive, NoLeak, GuardMatchesCalls
<1> QED BY <1>1, GuardInvariant, PTL
-----------------------------------------------------------------------------
RowInv == RowsExclusive /\ RunningRowsOwned /\ ManualRunsKept

\* What a call that gives its row the last status and returns does to the
\* other rows and calls: nothing.
LEMMA LastStatus ==
    ASSUME TypeInv, RowInv, NEW c \in Callers, pc[c] \in OwnsRow,
           NEW s \in Statuses \ {"running", "absent"}, SetStatus(run[c], s), Return(c),
           s = "deleted" => Trigger(c) = "scheduled",
           UNCHANGED <<daemon, running, faults, starts>>
    PROVE  RowInv'
<1> DEFINE r == run[c]
<1>1. r \in RunIds /\ r <= lastRun
  BY DEF TypeInv, CallsWellFormed, RowInv, RowsExclusive
<1>2. /\ runs'[r].status = s /\ runs'[r].trigger = runs[r].trigger
      /\ \A q \in RunIds : q # r => runs'[q] = runs[q]
      /\ lastRun' = lastRun
  BY <1>1, TableStatus DEF TypeInv, TypeOK, SetStatus
<1>3. /\ pc'[c] \in {"idle", "exited"}
      /\ \A d \in Callers : d # c => pc'[d] = pc[d] /\ run'[d] = run[d]
  BY DEF Return, TypeInv, TypeOK
<1>4. \A d \in Callers : d # c /\ pc[d] \in OwnsRow => run[d] # r /\ run[d] \in RunIds
  BY DEF RowInv, RowsExclusive, TypeInv, CallsWellFormed
<1> HIDE DEF r
<1>5. RowsExclusive'
  <2>1. ASSUME NEW d \in Callers, pc'[d] \in OwnsRow
        PROVE  /\ d # c /\ pc[d] \in OwnsRow /\ run'[d] = run[d] /\ pc'[d] = pc[d]
               /\ runs'[run[d]] = runs[run[d]]
    BY <1>2, <1>3, <1>4, <2>1 DEF OwnsRow
  <2>2. ASSUME NEW d \in Callers, pc'[d] \in OwnsRow
        PROVE  /\ run'[d] <= lastRun'
               /\ runs'[run'[d]].status = "running"
               /\ runs'[run'[d]].trigger = Trigger(d)
    BY <1>2, <2>1, <2>2 DEF RowInv, RowsExclusive
  <2>3. ASSUME NEW d \in Callers, NEW e \in Callers, d # e, pc'[d] \in OwnsRow, pc'[e] \in OwnsRow
        PROVE  run'[d] # run'[e]
    BY <2>1, <2>3 DEF RowInv, RowsExclusive
  <2>4. \A q \in RunIds : q > lastRun' => runs'[q].status = "absent"
    BY <1>1, <1>2 DEF RowInv, RowsExclusive, TypeInv, TypeOK, RunIds
  <2>5. \A d \in Callers : pc'[d] = "delete" => Trigger(d) = "scheduled"
    BY <1>3 DEF RowInv, RowsExclusive
  <2> QED BY <2>2, <2>3, <2>4, <2>5 DEF RowsExclusive, RunIds, Callers, Trigger
<1>6. RunningRowsOwned'
  <2> SUFFICES ASSUME daemon # "down", faults = 0, NEW q \in RunIds,
                      runs'[q].status = "running"
               PROVE  \E d \in Callers : run'[d] = q /\ pc'[d] \in OwnsRow
    BY DEF RunningRowsOwned, RunIds, Callers
  <2>1. q # r /\ runs[q].status = "running"
    BY <1>2
  <2>2. PICK d \in Callers : run[d] = q /\ pc[d] \in OwnsRow
    BY <2>1 DEF RowInv, RunningRowsOwned
  <2> QED BY <1>3, <2>1, <2>2 DEF r
<1>7. ManualRunsKept'
  <2>1. runs[r].trigger = Trigger(c)
    BY DEF RowInv, RowsExclusive, r
  <2> QED BY <1>1, <1>2, <2>1 DEF RowInv, ManualRunsKept, Trigger, RunIds
<1> QED BY <1>5, <1>6, <1>7 DEF RowInv

\* A step that touches no row and leaves every call with the row it owns.
LEMMA RowsUntouched ==
    ASSUME RowInv, UNCHANGED <<daemon, faults, runs, lastRun>>,
           \A c \in Callers : (pc'[c] \in OwnsRow) <=> (pc[c] \in OwnsRow),
           \A c \in Callers : pc[c] \in OwnsRow => run'[c] = run[c],
           \A c \in Callers : pc'[c] = "delete" => Trigger(c) = "scheduled"
    PROVE  RowInv'
BY DEF RowInv, RowsExclusive, RunningRowsOwned, ManualRunsKept, RunIds, Callers, Trigger

\* Every call under way owns one row, nobody else's, and while nothing failed
\* every running row has such a call (runner.rs, store/runs.rs, store/mod.rs).
LEMMA RowInvariant == Spec => []RowInv
<1>1. Init => RowInv
  BY DEF Init, RowInv, RowsExclusive, RunningRowsOwned, ManualRunsKept, NoRun, OwnsRow, Callers,
         RunIds
<1>2. TypeInv /\ RowInv /\ [Next]_vars => RowInv'
  <2> SUFFICES ASSUME TypeInv, RowInv, [Next]_vars PROVE RowInv'
    OBVIOUS
  <2> USE RunnerAssumption
  <2>0. /\ pc \in [Callers -> PCs] /\ run \in [Callers -> 0..MaxRuns]
        /\ faults \in Nat /\ lastRun \in 0..MaxRuns /\ runs \in [RunIds -> Row]
    BY DEF TypeInv, TypeOK
  <2>1. CASE Start
    <3>1. runs' = Orphaned(runs) /\ lastRun' = lastRun /\ \A c \in Callers : pc'[c] = "idle"
      BY <2>1 DEF Start, Gone
    <3>2. RowsExclusive' /\ RunningRowsOwned'
      BY <2>0, <3>1, OrphanSweep DEF RowInv, RowsExclusive, RunningRowsOwned, OwnsRow, RunIds,
                                     Callers
    <3>3. ManualRunsKept'
      BY <2>0, <3>1, OrphanSweep DEF RowInv, ManualRunsKept, RunIds
    <3> QED BY <3>2, <3>3 DEF RowInv
  <2>2. CASE Sigterm
    BY <2>2 DEF Sigterm, callVars, tableVars, RowInv, RowsExclusive, RunningRowsOwned,
                ManualRunsKept
  <2>3. CASE Stopped \/ Crash
    BY <2>3 DEF Stopped, Crash, Gone, tableVars, RowInv, RowsExclusive, RunningRowsOwned,
                ManualRunsKept, OwnsRow, Callers, RunIds
  <2>4. ASSUME NEW c \in Callers, NEW t \in Tasks, Begin(c, t) PROVE RowInv'
    BY <2>0, <2>4, RowsUntouched DEF Begin, tableVars, OwnsRow, RowInv, RowsExclusive
  <2>5. ASSUME NEW t \in Looping, LoopExit(t) PROVE RowInv'
    BY <2>0, <2>5, RowsUntouched DEF LoopExit, Goto, tableVars, OwnsRow, RowInv, RowsExclusive,
                                     Callers
  <2>6. ASSUME NEW c \in Callers, Enter(c) \/ Overlap(c) PROVE RowInv'
    BY <2>0, <2>6, RowsUntouched DEF Enter, Overlap, Goto, tableVars, OwnsRow, RowInv,
                                     RowsExclusive
  <2>7. ASSUME NEW c \in Callers, StartRun(c) PROVE RowInv'
    <3> DEFINE r == lastRun + 1
               new == [task |-> task[c], trigger |-> Trigger(c), status |-> "running"]
    <3>1. /\ r \in RunIds /\ lastRun' = r /\ runs'[r] = new
          /\ \A q \in RunIds : q # r => runs'[q] = runs[q]
          /\ run'[c] = r /\ pc'[c] \in {"log_start", "skip_log"} /\ daemon' = daemon /\ faults' = faults
          /\ \A d \in Callers : d # c => pc'[d] = pc[d] /\ run'[d] = run[d]
      BY <2>0, <2>7 DEF StartRun, RunIds
    <3>2. \A d \in Callers : pc[d] \in OwnsRow => run[d] \in RunIds /\ run[d] # r
      BY <2>0 DEF RowInv, RowsExclusive, TypeInv, CallsWellFormed, RunIds
    <3>3. new.status = "running" /\ new.trigger = Trigger(c)
      OBVIOUS
    <3> HIDE DEF r, new
    <3>4. r = lastRun + 1
      BY DEF r
    <3>5. RowsExclusive'
      BY <2>0, <3>1, <3>2, <3>3, <3>4 DEF RowInv, RowsExclusive, OwnsRow, Trigger, RunIds, Callers
    <3>6. pc[c] \notin OwnsRow
      BY <2>7 DEF StartRun, OwnsRow
    <3>7. RunningRowsOwned'
      BY <3>1, <3>2, <3>6 DEF RowInv, RunningRowsOwned, OwnsRow, RunIds, Callers
    <3>8. ManualRunsKept'
      BY <3>1, <3>3 DEF RowInv, ManualRunsKept, RunIds
    <3> QED BY <3>5, <3>7, <3>8 DEF RowInv
  <2>8. ASSUME NEW c \in Callers, LogLine(c) \/ BodyEnds(c) PROVE RowInv'
    BY <2>0, <2>8, RowsUntouched DEF LogLine, BodyEnds, Goto, tableVars, OwnsRow, RowInv,
                                     RowsExclusive
  <2>9. ASSUME NEW c \in Callers, Release(c) PROVE RowInv'
    BY <2>0, <2>9, RowsUntouched DEF Release, DeletesRow, Goto, tableVars, OwnsRow, RowInv,
                                     RowsExclusive
  <2>10. ASSUME NEW c \in Callers, SkipFinish(c) PROVE RowInv'
    BY <2>10, LastStatus DEF SkipFinish, OwnsRow, Statuses
  <2>11. ASSUME NEW c \in Callers, FinishRun(c) PROVE RowInv'
    <3>1. ResultOf(outcome[c]) \in Statuses \ {"running", "absent"}
      BY DEF ResultOf, Statuses
    <3>2. ResultOf(outcome[c]) # "deleted"
      BY DEF ResultOf
    <3> QED BY <2>11, <3>1, <3>2, LastStatus DEF FinishRun, OwnsRow
  <2>12. ASSUME NEW c \in Callers, DeleteRun(c) PROVE RowInv'
    <3>1. Trigger(c) = "scheduled"
      BY <2>12 DEF DeleteRun, RowInv, RowsExclusive
    <3> QED BY <2>12, <3>1, LastStatus DEF DeleteRun, OwnsRow, Statuses
  <2>13. ASSUME NEW c \in Callers, StoreError(c) \/ BodyPanics(c) PROVE RowInv'
    <3>1. /\ pc'[c] \in {"idle", "exited"} /\ faults' # 0 /\ runs' = runs /\ lastRun' = lastRun
          /\ \A d \in Callers : d # c => pc'[d] = pc[d] /\ run'[d] = run[d]
      BY <2>0, <2>13 DEF StoreError, BodyPanics, Return, tableVars
    <3> QED BY <3>1 DEF RowInv, RowsExclusive, RunningRowsOwned, ManualRunsKept, OwnsRow, Trigger,
                        RunIds, Callers
  <2>14. CASE UNCHANGED vars
    BY <2>14 DEF vars, RowInv, RowsExclusive, RunningRowsOwned, ManualRunsKept
  <2> QED
    BY <2>1, <2>2, <2>3, <2>4, <2>5, <2>6, <2>7, <2>8, <2>9, <2>10, <2>11, <2>12,
       <2>13, <2>14
       DEF Next, Continue, LoopFire, TriggerRun, Callers
<1> QED
  BY <1>1, <1>2, TypeInvariant, PTL DEF Spec

\* Without a store error or a panic no row of a live daemon is left running.
THEOREM RunningRowsOwnedHolds == Spec => []RunningRowsOwned
BY RowInvariant, PTL DEF RowInv

\* The row of an operator's run is never deleted.
THEOREM ManualRunsKeptHolds == Spec => []ManualRunsKept
BY RowInvariant, PTL DEF RowInv
-----------------------------------------------------------------------------
\* What a step may do to the run history: insert the next row as running, or
\* give running rows another status (store/runs.rs, store/mod.rs).
HistoryStep ==
    \A r \in RunIds : runs'[r] # runs[r] =>
        \/ runs[r].status = "absent" /\ runs'[r].status = "running"
        \/ /\ runs[r].status = "running"
           /\ runs'[r].task = runs[r].task /\ runs'[r].trigger = runs[r].trigger

LEMMA StatusOfOwnRow ==
    ASSUME TypeInv, RowInv, NEW c \in Callers, pc[c] \in OwnsRow,
           NEW s \in Statuses, SetStatus(run[c], s)
    PROVE  HistoryStep
<1>1. run[c] \in RunIds /\ runs \in [RunIds -> Row] /\ runs[run[c]].status = "running"
  BY DEF TypeInv, TypeOK, CallsWellFormed, RowInv, RowsExclusive
<1> QED BY <1>1, TableStatus DEF HistoryStep

\* The recorded result of a run is final.
THEOREM HistoryIsFinalHolds == Spec => HistoryIsFinal
<1>1. TypeInv /\ RowInv /\ [Next]_vars => [HistoryStep]_vars
  <2> SUFFICES ASSUME TypeInv, RowInv, Next PROVE HistoryStep
    BY DEF vars
  <2>0. runs \in [RunIds -> Row] /\ lastRun \in 0..MaxRuns /\ MaxRuns \in Nat
    BY RunnerAssumption DEF TypeInv, TypeOK
  <2>1. CASE Start
    BY <2>0, <2>1, OrphanSweep DEF Start, HistoryStep
  <2>2. ASSUME NEW c \in Callers, StartRun(c) PROVE HistoryStep
    <3> DEFINE r == lastRun + 1
    <3>1. /\ r \in RunIds /\ runs[r].status = "absent" /\ runs'[r].status = "running"
          /\ \A q \in RunIds : q # r => runs'[q] = runs[q]
      BY <2>0, <2>2 DEF StartRun, RowInv, RowsExclusive, RunIds
    <3> HIDE DEF r
    <3> QED BY <3>1 DEF HistoryStep
  <2>3. ASSUME NEW c \in Callers, SkipFinish(c) \/ FinishRun(c) \/ DeleteRun(c)
        PROVE HistoryStep
    <3>1. ResultOf(outcome[c]) \in Statuses
      BY DEF ResultOf, Statuses
    <3> QED BY <2>3, <3>1, StatusOfOwnRow DEF SkipFinish, FinishRun, DeleteRun, OwnsRow, Statuses
  <2>4. CASE UNCHANGED runs
    BY <2>4 DEF HistoryStep
  <2> QED
    BY <2>1, <2>2, <2>3, <2>4
       DEF Next, Continue, LoopFire, TriggerRun, Sigterm, Stopped, Crash, Begin, LoopExit,
           Enter, Overlap, LogLine, BodyEnds, Release, StoreError, BodyPanics, tableVars, Callers
<1>2. [HistoryStep]_vars => [\A r \in RunIds : runs'[r] # runs[r] =>
          \/ runs[r].status = "absent" /\ runs'[r].status = "running"
          \/ /\ runs[r].status = "running"
             /\ runs'[r].task = runs[r].task /\ runs'[r].trigger = runs[r].trigger]_vars
  BY DEF HistoryStep
<1> QED BY <1>1, <1>2, TypeInvariant, RowInvariant, PTL DEF Spec, HistoryIsFinal
-----------------------------------------------------------------------------
FlightOf(t) == {c \in Callers : pc[c] \in Holding /\ task[c] = t}

\* A step in which the calls that hold the guard stay the same is a stutter of
\* the abstract specification.
LEMMA FlightStutters ==
    ASSUME TypeInv,
           \A c \in Callers : (pc'[c] \in Holding) <=> (pc[c] \in Holding),
           \A c \in Callers : pc[c] \in Holding => task'[c] = task[c]
    PROVE  \A t \in Tasks : FlightOf(t)' = FlightOf(t)
BY DEF FlightOf, Callers

\* A step in which one call stops holding the guard takes it out of the set of
\* its task and leaves the other sets alone.
LEMMA FlightLeaves ==
    ASSUME TypeInv, NEW c \in Callers, pc[c] \in Holding, pc'[c] \notin Holding,
           \A d \in Callers : d # c => pc'[d] = pc[d] /\ task'[d] = task[d]
    PROVE  \E t \in Tasks :
              /\ c \in FlightOf(t) /\ FlightOf(t)' = FlightOf(t) \ {c}
              /\ \A u \in Tasks : u # t => FlightOf(u)' = FlightOf(u)
<1>1. PICK t \in Tasks : t = task[c]
  BY DEF TypeInv, CallsWellFormed, Holding
<1>2. c \in FlightOf(t)
  BY <1>1 DEF FlightOf
<1>3. ASSUME NEW u \in Tasks PROVE FlightOf(u)' = FlightOf(u) \ {c}
  BY DEF FlightOf, Callers
<1>4. ASSUME NEW u \in Tasks, u # t PROVE FlightOf(u)' = FlightOf(u)
  <2>1. c \notin FlightOf(u)
    BY <1>1, <1>4 DEF FlightOf
  <2> QED BY <1>3, <2>1
<1> QED BY <1>2, <1>3, <1>4

\* The runner implements the abstract single-flight promise.
THEOREM RunnerImplementsSingleFlight == Spec => ImplementsSingleFlight
<1> USE RunnerAssumption
<1>1. Init => Flight!Init
  BY DEF Init, Flight!Init, Holding
<1>2. TypeInv /\ GuardInv /\ [Next]_vars =>
          [Flight!Next]_([t \in Tasks |-> {c \in Callers : pc[c] \in Holding /\ task[c] = t}])
  <2> SUFFICES ASSUME TypeInv, GuardInv, [Next]_vars
               PROVE  [Flight!Next]_([t \in Tasks |-> FlightOf(t)])
    BY DEF FlightOf
  <2>0. /\ pc \in [Callers -> PCs] /\ task \in [Callers -> Tasks \cup {NoTask}]
    BY DEF TypeInv, TypeOK
  <2> DEFINE flight == [t \in Tasks |-> FlightOf(t)]
             Halts == \A t \in Tasks : FlightOf(t)' = {}
             Stutters == \A t \in Tasks : FlightOf(t)' = FlightOf(t)
             Leaves(t, c) == /\ c \in FlightOf(t) /\ FlightOf(t)' = FlightOf(t) \ {c}
                             /\ \A u \in Tasks : u # t => FlightOf(u)' = FlightOf(u)
             Takes(t, c) == /\ FlightOf(t) = {} /\ FlightOf(t)' = {c}
                            /\ \A u \in Tasks : u # t => FlightOf(u)' = FlightOf(u)
  <2>1. CASE Start \/ Stopped \/ Crash
    <3>1. Halts
      BY <2>1 DEF Start, Stopped, Crash, Gone, FlightOf, Holding, Callers
    <3> QED BY <3>1 DEF Flight!Next, Flight!Halt, FlightOf
  <2>2. ASSUME NEW c \in Callers, Enter(c)
        PROVE  \E t \in Tasks : Takes(t, c)
    <3>1. task[c] \in Tasks
      BY <2>2 DEF Enter, TypeInv, CallsWellFormed
    <3>2. FlightOf(task[c]) = {}
      BY <2>2 DEF Enter, FlightOf, GuardInv, GuardExclusive
    <3>3. /\ pc'[c] \in Holding /\ pc[c] \notin Holding /\ task' = task
          /\ \A d \in Callers : d # c => pc'[d] = pc[d]
      BY <2>0, <2>2 DEF Enter, Goto, Holding
    <3> QED BY <3>1, <3>2, <3>3 DEF FlightOf, Callers
  <2>3. ASSUME NEW c \in Callers, Release(c) \/ BodyPanics(c)
        PROVE  \E t \in Tasks : Leaves(t, c)
    <3>1. /\ pc[c] \in Holding /\ pc'[c] \notin Holding
          /\ \A d \in Callers : d # c => pc'[d] = pc[d] /\ task'[d] = task[d]
      BY <2>0, <2>3 DEF Release, BodyPanics, Goto, Holding
    <3> QED BY <3>1, FlightLeaves
  <2>4. ASSUME NEW c \in Callers, StoreError(c)
        PROVE  (\E t \in Tasks : Leaves(t, c)) \/ Stutters
    <3>1. CASE pc[c] \in Holding
      <4>1. /\ pc'[c] \notin Holding
            /\ \A d \in Callers : d # c => pc'[d] = pc[d] /\ task'[d] = task[d]
        BY <2>0, <2>4 DEF StoreError, Return, Holding
      <4> QED BY <3>1, <4>1, FlightLeaves
    <3>2. CASE pc[c] \notin Holding
      BY <2>0, <2>4, <3>2, FlightStutters DEF StoreError, Return, Holding
    <3> QED BY <3>1, <3>2
  <2>5. ASSUME NEW c \in Callers,
               \/ Overlap(c) \/ StartRun(c) \/ LogLine(c) \/ SkipFinish(c)
               \/ BodyEnds(c) \/ FinishRun(c) \/ DeleteRun(c)
        PROVE  Stutters
    BY <2>0, <2>5, FlightStutters
       DEF Overlap, StartRun, LogLine, SkipFinish, BodyEnds, FinishRun, DeleteRun, Goto, Return,
           Holding
  <2>6. ASSUME NEW c \in Callers, NEW t \in Tasks, Begin(c, t) PROVE Stutters
    BY <2>0, <2>6, FlightStutters DEF Begin, Holding
  <2>7. ASSUME NEW t \in Looping, LoopExit(t) PROVE Stutters
    BY <2>0, <2>7, FlightStutters DEF LoopExit, Goto, Holding, Callers
  <2>8. CASE Sigterm \/ UNCHANGED vars
    BY <2>8 DEF Sigterm, callVars, vars, FlightOf
  <2>9. ASSUME NEW c \in Callers, NEW t \in Tasks, Takes(t, c) PROVE Flight!Take(t, c)
    <3>1. flight[t] = {} /\ flight' = [flight EXCEPT ![t] = {c}]
      BY <2>9
    <3> QED BY <3>1 DEF Flight!Take, FlightOf
  <2>10. ASSUME NEW c \in Callers, NEW t \in Tasks, Leaves(t, c) PROVE Flight!Leave(t, c)
    <3>1. c \in flight[t] /\ flight' = [flight EXCEPT ![t] = flight[t] \ {c}]
      BY <2>10
    <3> QED BY <3>1 DEF Flight!Leave, FlightOf
  <2>11. Stutters => UNCHANGED flight
    OBVIOUS
  <2> HIDE DEF flight, Stutters, Leaves, Takes
  <2>12. (\E t \in Tasks, c \in Callers : Takes(t, c) \/ Leaves(t, c)) => Flight!Next
    BY <2>9, <2>10 DEF Flight!Next
  <2> QED
    BY <2>1, <2>2, <2>3, <2>4, <2>5, <2>6, <2>7, <2>8, <2>11, <2>12
       DEF Next, Continue, LoopFire, TriggerRun, Callers, flight
<1> QED
  BY <1>1, <1>2, TypeInvariant, GuardInvariant, PTL
     DEF Spec, ImplementsSingleFlight, Flight!Spec
=============================================================================
