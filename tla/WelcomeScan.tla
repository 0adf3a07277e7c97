---------------------------- MODULE WelcomeScan ----------------------------
(***************************************************************************)
(* What the scans of the two welcome tasks have in common: their position  *)
(* in the list of accounts, and the ways a scan starts, stops and dies.    *)
(* Scans of a task never overlap (TaskRunner!SingleInstance), so that one  *)
(* position is enough.  WelcomePackage and WelcomeMessage are two programs *)
(* on these variables, never one: a behaviour of either describes one task *)
(* with a position and errors of its own.                                  *)
(*                                                                         *)
(* The tasks are enabled; whether a scan "acted", which decides if its run *)
(* row is kept, is an outcome of TaskRunner!BodyEnds.  No caller of the    *)
(* runner asks for a dry run.                                              *)
(***************************************************************************)
EXTENDS Naturals

CONSTANTS
    Accounts,      \* accounts the game database may list
    NoAccount,     \* no account
    MaxFaults      \* bound: store, database or broker errors and restarts

ASSUME ScanAssumption == NoAccount \notin Accounts /\ MaxFaults \in Nat

VARIABLES
    pc,           \* where the scan is
    todo,         \* the accounts the scan has listed and not yet looked at
    cur,          \* the account it is working on
    faults        \* errors and restarts so far

scanVars == <<pc, todo, cur>>

PositionOK(labels) ==
    /\ pc \in labels
    /\ todo \subseteq Accounts
    /\ cur \in Accounts \cup {NoAccount}
    /\ faults \in 0..MaxFaults

NoScan == pc = "idle" /\ todo = {} /\ cur = NoAccount /\ faults = 0

Goto(label) == pc' = label /\ UNCHANGED <<todo, cur>>

\* The scan is done with its account.
NextAccount == pc' = "next" /\ cur' = NoAccount /\ UNCHANGED todo

EndsAs(label) == pc' = label /\ todo' = {} /\ cur' = NoAccount

Fault == faults < MaxFaults /\ faults' = faults + 1

Listed(accounts) ==
    /\ pc = "list"
    /\ todo' = accounts
    /\ pc' = "next"
    /\ UNCHANGED <<cur, faults>>

\* The gate finds the account handled, or not.
Skip(a) ==
    /\ pc = "next" /\ a \in todo
    /\ todo' = todo \ {a}
    /\ UNCHANGED <<pc, cur, faults>>

TakeUp(a) ==
    /\ pc = "next" /\ a \in todo
    /\ todo' = todo \ {a}
    /\ cur' = a
    /\ pc' = "resolve"
    /\ UNCHANGED faults
-----------------------------------------------------------------------------
StartScan == pc = "idle" /\ Goto("list") /\ UNCHANGED faults

EndScan == pc = "next" /\ todo = {} /\ EndsAs("idle") /\ UNCHANGED faults

\* A failure is logged and the scan goes on.
LogWarn == pc = "warn" /\ NextAccount /\ UNCHANGED faults

\* An error of the listing, of the gate or of a row or log line written about
\* the account ends the whole scan: the other accounts wait for the next one.
AbortIn(labels) ==
    /\ \/ pc \in labels
       \/ pc = "next" /\ todo # {}
    /\ Fault
    /\ EndsAs("idle")

\* A store error before the task's body leaves the runner's guard held: every
\* later scan of this process is skipped as overlapping.
GuardStuck == pc = "idle" /\ Fault /\ EndsAs("wedged")

\* The process dies at any point and is started again.
Restart == Fault /\ EndsAs("idle")

\* A restart is also what frees a stuck guard; it costs no scan anything.
Recover == pc = "wedged" /\ EndsAs("idle") /\ UNCHANGED faults

=============================================================================
