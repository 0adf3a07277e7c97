--------------------------- MODULE WelcomePackage ---------------------------
(***************************************************************************)
(* The welcome-package task: every two seconds a scan lists the accounts   *)
(* of the game's Postgres database and gives each one that the SQLite      *)
(* ledger welcome_grants does not know its items, in one Postgres          *)
(* transaction, then records the gift in the ledger.  The two databases    *)
(* commit separately, and the operator may clear a failed row at any time. *)
(*                                                                         *)
(* The package version is pinned to v1 by the configuration API, so a row  *)
(* is named by its account.  The item list is not empty.                   *)
(***************************************************************************)
EXTENDS WelcomeScan

CONSTANT
    MaxRetries     \* bound: failed rows the operator clears

ASSUME RetriesAssumption == MaxRetries \in Nat

VARIABLES
    player,       \* of each account: "absent", "loading" (no backpack) or "loaded"
    delivered,    \* how many packages its backpack received
    ledger,       \* its row of welcome_grants: "none", "granted" or "failed"
    retries       \* rows cleared so far

dataVars == <<player, delivered, ledger>>
vars == <<player, delivered, ledger, pc, todo, cur, faults, retries>>

PCs == {"idle", "wedged", "list", "next", "resolve", "grant", "log",
        "record_granted", "record_failed", "warn"}
\* The scan is working on an account it found without a row.
Working == {"resolve", "grant", "log", "record_granted", "record_failed"}

TypeOK ==
    /\ player \in [Accounts -> {"absent", "loading", "loaded"}]
    /\ delivered \in [Accounts -> Nat]
    /\ ledger \in [Accounts -> {"none", "granted", "failed"}]
    /\ PositionOK(PCs)
    /\ retries \in 0..MaxRetries

Init ==
    /\ player = [a \in Accounts |-> "absent"]
    /\ delivered = [a \in Accounts |-> 0]
    /\ ledger = [a \in Accounts |-> "none"]
    /\ NoScan
    /\ retries = 0

Retry == retries < MaxRetries /\ retries' = retries + 1

\* The scan moves on; the game and the ledger stay as they are.
OnlyScans == UNCHANGED <<dataVars, retries>>
-----------------------------------------------------------------------------
(* Players come to the game. *)

AccountAppears(a) ==
    /\ player[a] = "absent"
    /\ player' = [player EXCEPT ![a] = "loading"]
    /\ UNCHANGED <<delivered, ledger, scanVars, faults, retries>>

CharacterLoads(a) ==
    /\ player[a] = "loading"
    /\ player' = [player EXCEPT ![a] = "loaded"]
    /\ UNCHANGED <<delivered, ledger, scanVars, faults, retries>>
-----------------------------------------------------------------------------
(* One scan. *)

ListAccounts ==
    /\ Listed({a \in Accounts : player[a] # "absent"})
    /\ OnlyScans

\* welcome_grant_exists: a row, granted or failed, closes the account.
AlreadyHandled(a) == ledger[a] # "none" /\ Skip(a) /\ OnlyScans

Take(a) == ledger[a] = "none" /\ TakeUp(a) /\ OnlyScans
-----------------------------------------------------------------------------
(* process_item_package and the recording of its result. *)

\* No backpack yet: no row, so that a later scan tries again.
NotLoaded ==
    /\ pc = "resolve" /\ player[cur] = "loading"
    /\ NextAccount
    /\ UNCHANGED <<dataVars, faults, retries>>

BackpackFound ==
    /\ pc = "resolve" /\ player[cur] = "loaded"
    /\ Goto("grant")
    /\ UNCHANGED <<dataVars, faults, retries>>

\* A query that fails here is recorded as the account's failure.
ResolveFails ==
    /\ pc = "resolve"
    /\ Fault
    /\ Goto("record_failed")
    /\ UNCHANGED <<dataVars, retries>>

\* One transaction inserts every item of the package.
Commit ==
    /\ pc = "grant"
    /\ delivered' = [delivered EXCEPT ![cur] = @ + 1]
    /\ Goto("log")
    /\ UNCHANGED <<player, ledger, faults, retries>>

\* Too few free slots, or any error before COMMIT: the transaction is dropped.
Rollback ==
    /\ pc = "grant"
    /\ Goto("record_failed")
    /\ UNCHANGED <<dataVars, faults, retries>>

\* COMMIT took effect and its answer was lost.
AckLost ==
    /\ pc = "grant"
    /\ Fault
    /\ delivered' = [delivered EXCEPT ![cur] = @ + 1]
    /\ Goto("record_failed")
    /\ UNCHANGED <<player, ledger, retries>>

LogConfirmed ==
    /\ pc = "log"
    /\ Goto("record_granted")
    /\ UNCHANGED <<dataVars, faults, retries>>

\* The `?` on the log line turns a delivered package into an error.
LogFails ==
    /\ pc = "log"
    /\ Fault
    /\ Goto("record_failed")
    /\ UNCHANGED <<dataVars, retries>>

InsertGranted ==
    /\ pc = "record_granted"
    /\ ledger' = [ledger EXCEPT ![cur] = "granted"]
    /\ NextAccount
    /\ UNCHANGED <<player, delivered, faults, retries>>

ForgetsFailed ==
    /\ pc = "record_failed"
    /\ Goto("warn")
    /\ UNCHANGED <<dataVars, faults, retries>>

InsertFailed ==
    /\ pc = "record_failed"
    /\ ledger' = [ledger EXCEPT ![cur] = "failed"]
    /\ Goto("warn")
    /\ UNCHANGED <<player, delivered, faults, retries>>

\* An error of the listing or of the store.
Abort == AbortIn({"list", "record_granted", "record_failed", "warn"}) /\ OnlyScans
-----------------------------------------------------------------------------
(* Around the scan. *)

DeletesAnyRow(a) ==
    /\ ledger[a] # "none"
    /\ Retry
    /\ ledger' = [ledger EXCEPT ![a] = "none"]
    /\ UNCHANGED <<player, delivered, scanVars, faults>>

\* The operator's retry deletes the row, if it says failed.
RetryGrant(a) ==
    /\ ledger[a] = "failed"
    /\ Retry
    /\ ledger' = [ledger EXCEPT ![a] = "none"]
    /\ UNCHANGED <<player, delivered, scanVars, faults>>
-----------------------------------------------------------------------------
Scan ==
    \/ (StartScan \/ EndScan \/ LogWarn) /\ OnlyScans
    \/ ListAccounts
    \/ \E a \in Accounts : AlreadyHandled(a) \/ Take(a)
    \/ NotLoaded \/ BackpackFound \/ Commit \/ Rollback
    \/ LogConfirmed \/ InsertGranted \/ InsertFailed

Faulty ==
    \/ (GuardStuck \/ Restart) /\ OnlyScans
    \/ ResolveFails \/ AckLost \/ LogFails \/ Abort

Next ==
    \/ Scan \/ Faulty
    \/ Recover /\ OnlyScans
    \/ \E a \in Accounts : AccountAppears(a) \/ CharacterLoads(a) \/ RetryGrant(a)

Spec == Init /\ [][Next]_vars

\* The interval loop starts a scan again two seconds after the last one, and
\* every query of a scan returns or fails.
FairSpec == Spec /\ WF_vars(Scan)
-----------------------------------------------------------------------------
(* Properties *)

\* A ledger row that says granted stands for a package that is in the
\* player's backpack, whatever errors, restarts and retries happened.
GrantedMeansDelivered ==
    \A a \in Accounts : ledger[a] = "granted" => delivered[a] >= 1

\* A player receives a second package only through a fault: at most one more
\* than the errors and restarts there were, however often scans and retries
\* come.  Without a fault that is the "once per character" the ledger is for.
DeliveriesBounded == \A a \in Accounts : delivered[a] <= faults + 1

\* A failed transaction never counts: a failed row whose package was
\* delivered all the same takes a fault.
FailedMeansNothingSent ==
    faults = 0 => \A a \in Accounts : ledger[a] = "failed" => delivered[a] = 0

\* The two INSERTs are plain: a row that appeared since the gate would make
\* them fail on the primary key and lose the result.
InsertNeverConflicts == pc \in Working => ledger[cur] = "none"

\* A player whose character has not finished loading is left without a row,
\* so that the package still comes: only an error gives such a player one.
LoadingLeftOpen ==
    faults = 0 => \A a \in Accounts : player[a] # "loaded" => ledger[a] = "none"

\* Once a player's backpack exists, the account is closed, granted or failed,
\* unless a store error left the runner's guard held.
LoadedIsHandled ==
    \A a \in Accounts :
        player[a] = "loaded" ~> ledger[a] # "none" \/ pc = "wedged"

\* The ledger keeps its promise: packages are given to accounts without a row
\* only, granted rows follow a delivery and are final, failed ones are cleared
\* by a retry alone.
RowStatus(s) == IF s = "none" THEN "open" ELSE IF s = "granted" THEN "done" ELSE "failed"

Ledger == INSTANCE EffectLedger WITH
    Keys <- Accounts,
    status <- [a \in Accounts |-> RowStatus(ledger[a])],
    effects <- delivered

ImplementsEffectLedger == Ledger!Spec

\* The comment on delete_welcome_grant: a retry can never duplicate a
\* successful package.
RetryNeverDuplicates ==
    [][\A a \in Accounts :
          ledger[a] = "failed" /\ ledger'[a] = "none" => delivered[a] = 0]_vars
-----------------------------------------------------------------------------
(* The strengthening that makes the invariants above inductive. *)

\* A scan works on an account, and has seen the backpack it fills.
ScanWellFormed ==
    /\ pc \in Working \cup {"warn"} => cur \in Accounts
    /\ pc \in {"grant", "log", "record_granted"} => player[cur] = "loaded"

\* A package that is delivered and not yet recorded belongs to the scan.
Unrecorded(a) == cur = a /\ pc \in {"log", "record_granted"}

DeliveriesAccounted ==
    \A a \in Accounts :
        /\ Unrecorded(a) => delivered[a] >= 1
        /\ ledger[a] = "granted" \/ Unrecorded(a) => delivered[a] <= faults + 1
        /\ ledger[a] # "granted" /\ ~Unrecorded(a) => delivered[a] <= faults

\* Without faults, the scan's failure branch means that nothing was sent to a
\* player that was loaded.
NoFaultSoFar ==
    faults = 0 /\ pc = "record_failed" => delivered[cur] = 0 /\ player[cur] = "loaded"

=============================================================================
