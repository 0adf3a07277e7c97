----------------------------- MODULE WelcomeProofs -----------------------------
(***************************************************************************)
(* Proofs about the two welcome tasks, for any set of accounts and any     *)
(* bound on faults and retries.  Each theorem is about the specification   *)
(* of one task, WelcomePackage's Spec or WelcomeMessage's MessageSpec; the *)
(* scan that the two have in common gives their states the same names.     *)
(*                                                                         *)
(* The package's ledger and the backpacks are two databases: the invariant *)
(* that ties them together counts, per account, the deliveries no granted  *)
(* row stands for, each of which took a fault.  The rows of the whispers   *)
(* and the broker are tied in the same way.                                *)
(***************************************************************************)
EXTENDS WelcomePackage, WelcomeMessage, TLAPS

TypeInv == TypeOK /\ ScanWellFormed

\* Every step keeps the state in its types, and the scan on an account that
\* exists (tasks/welcome_package.rs, run).
LEMMA TypeInvariant == Spec => []TypeInv
<1> USE ScanAssumption, RetriesAssumption DEF TypeInv, TypeOK, ScanWellFormed, Working, PCs, EndsAs,
                              NextAccount, Goto, scanVars, dataVars, Fault, Retry,
                              PositionOK, NoScan, Listed, Skip, TakeUp, AbortIn, OnlyScans
<1>1. Init => TypeInv
  BY DEF Init
<1>2. TypeInv /\ [Next]_vars => TypeInv'
  <2> SUFFICES ASSUME TypeInv, [Next]_vars PROVE TypeInv'
    OBVIOUS
  <2>1. CASE (StartScan \/ EndScan \/ LogWarn \/ Recover) /\ OnlyScans
    BY <2>1 DEF StartScan, EndScan, LogWarn, Recover
  <2>2. ASSUME NEW a \in Accounts, AlreadyHandled(a) \/ Take(a) PROVE TypeInv'
    BY <2>2 DEF AlreadyHandled, Take
  <2>3. CASE ListAccounts \/ NotLoaded \/ BackpackFound \/ Rollback \/ LogConfirmed
    BY <2>3 DEF ListAccounts, NotLoaded, BackpackFound, Rollback, LogConfirmed
  <2>4. CASE Commit \/ AckLost
    BY <2>4 DEF Commit, AckLost
  <2>5. CASE InsertGranted \/ InsertFailed
    BY <2>5 DEF InsertGranted, InsertFailed
  <2>6. CASE Abort \/ ((GuardStuck \/ Restart) /\ OnlyScans)
    BY <2>6 DEF GuardStuck, Abort, Restart
  <2>7. CASE ResolveFails \/ LogFails
    BY <2>7 DEF ResolveFails, LogFails
  <2>9. ASSUME NEW a \in Accounts, AccountAppears(a) \/ CharacterLoads(a) PROVE TypeInv'
    BY <2>9 DEF AccountAppears, CharacterLoads
  <2>10. ASSUME NEW a \in Accounts, RetryGrant(a) PROVE TypeInv'
    BY <2>10 DEF RetryGrant
  <2>11. CASE UNCHANGED vars
    BY <2>11 DEF vars
  <2> HIDE DEF TypeInv, OnlyScans
  <2> QED
    BY <2>1, <2>2, <2>3, <2>4, <2>5, <2>6, <2>7, <2>9, <2>10, <2>11
       DEF Next, Scan, Faulty
<1> QED BY <1>1, <1>2, PTL DEF Spec

\* What the welcome-package scan computes stays of its type.
THEOREM TypeCorrect == Spec => []TypeOK
BY TypeInvariant, PTL DEF TypeInv
--------------------------------------------------------------------------------
\* The part of the invariant that ties the scan, the ledger and the backpacks.
Consistent ==
    /\ InsertNeverConflicts /\ GrantedMeansDelivered /\ DeliveriesAccounted
    /\ FailedMeansNothingSent /\ LoadingLeftOpen /\ NoFaultSoFar

\* Every step of the scan, every error and every retry keeps the two databases
\* consistent up to the faults counted.
LEMMA ConsistentInvariant == Spec => []Consistent
<1> USE ScanAssumption, RetriesAssumption DEF Consistent, InsertNeverConflicts, GrantedMeansDelivered,
                              DeliveriesAccounted, FailedMeansNothingSent, LoadingLeftOpen,
                              NoFaultSoFar, Unrecorded, TypeInv, TypeOK, ScanWellFormed,
                              Working, PCs, PositionOK, NoScan
<1>1. Init => Consistent
  BY DEF Init
<1>2. TypeInv /\ TypeInv' /\ Consistent /\ [Next]_vars => Consistent'
  <2> SUFFICES ASSUME TypeInv, TypeInv', Consistent, [Next]_vars PROVE Consistent'
    OBVIOUS
  <2> USE DEF EndsAs, NextAccount, Goto, scanVars, dataVars, Fault, Retry, Listed, Skip,
              TakeUp, AbortIn, OnlyScans
  <2>1. CASE (StartScan \/ EndScan \/ LogWarn \/ Recover) /\ OnlyScans
    BY <2>1 DEF StartScan, EndScan, LogWarn, Recover
  <2>2. ASSUME NEW a \in Accounts, AlreadyHandled(a) \/ Take(a)
        PROVE  Consistent'
    BY <2>2 DEF AlreadyHandled, Take
  <2>3. CASE ListAccounts \/ NotLoaded \/ BackpackFound \/ LogConfirmed
    BY <2>3 DEF ListAccounts, NotLoaded, BackpackFound, LogConfirmed
  <2>4. CASE Rollback
    BY <2>4 DEF Rollback
  <2>5. CASE Commit
    BY <2>5 DEF Commit
  <2>6. CASE AckLost
    BY <2>6 DEF AckLost
  <2>7. CASE InsertGranted
    BY <2>7 DEF InsertGranted
  <2>8. CASE InsertFailed
    BY <2>8 DEF InsertFailed
  <2>9. CASE Abort \/ ((GuardStuck \/ Restart) /\ OnlyScans)
    BY <2>9 DEF GuardStuck, Abort, Restart
  <2>10. CASE ResolveFails \/ LogFails
    BY <2>10 DEF ResolveFails, LogFails
  <2>11. ASSUME NEW a \in Accounts, AccountAppears(a) \/ CharacterLoads(a) PROVE Consistent'
    BY <2>11 DEF AccountAppears, CharacterLoads
  <2>12. ASSUME NEW a \in Accounts, RetryGrant(a) PROVE Consistent'
    BY <2>12 DEF RetryGrant
  <2>13. CASE UNCHANGED vars
    BY <2>13 DEF vars
  <2> HIDE DEF TypeInv, Consistent, OnlyScans
  <2> QED
    BY <2>1, <2>2, <2>3, <2>4, <2>5, <2>6, <2>7, <2>8, <2>9, <2>10, <2>11, <2>12, <2>13
       DEF Next, Scan, Faulty
<1> QED BY <1>1, <1>2, TypeInvariant, PTL DEF Spec
--------------------------------------------------------------------------------
\* A granted row always stands for a package in the player's backpack
\* (insert_welcome_grant_granted runs only after the Postgres commit).
THEOREM GrantedMeansDeliveredHolds == Spec => []GrantedMeansDelivered
BY ConsistentInvariant, PTL DEF Consistent

\* Deliveries beyond the first are paid for by faults, whatever the number of
\* scans and retries (tasks/welcome_package.rs, the gate and the two INSERTs).
THEOREM DeliveriesBoundedHolds == Spec => []DeliveriesBounded
<1>1. TypeInv /\ Consistent => DeliveriesBounded
  <2> SUFFICES ASSUME TypeInv, Consistent, NEW a \in Accounts
               PROVE  delivered[a] <= faults + 1
    BY DEF DeliveriesBounded
  <2>1. \/ delivered[a] <= faults + 1
        \/ delivered[a] <= faults
    BY Zenon DEF Consistent, DeliveriesAccounted
  <2>2. delivered[a] \in Nat /\ faults \in Nat
    BY ScanAssumption DEF TypeInv, TypeOK, PositionOK
  <2> QED BY <2>1, <2>2
<1> QED BY <1>1, TypeInvariant, ConsistentInvariant, PTL

\* Without a fault, a failed row never hides a delivery.
THEOREM FailedMeansNothingSentHolds == Spec => []FailedMeansNothingSent
BY ConsistentInvariant, PTL DEF Consistent

\* The result of a delivery always finds its row free (store/welcome.rs, the
\* primary key of welcome_grants), although retries run beside the scan.
THEOREM InsertNeverConflictsHolds == Spec => []InsertNeverConflicts
BY ConsistentInvariant, PTL DEF Consistent

\* Without a fault, a player whose character is still loading is left open.
THEOREM LoadingLeftOpenHolds == Spec => []LoadingLeftOpen
BY ConsistentInvariant, PTL DEF Consistent
--------------------------------------------------------------------------------
\* The scan implements the ledger's promise: whatever fails, an effect is made
\* for open accounts only, and a granted row is final.
THEOREM WelcomeImplementsEffectLedger == Spec => ImplementsEffectLedger
<1> DEFINE abstract == [a \in Accounts |-> RowStatus(ledger[a])]
<1>1. Init => Ledger!Init
  BY DEF Init, Ledger!Init, RowStatus
<1>2. TypeInv /\ Consistent /\ [Next]_vars => [Ledger!Next]_<<abstract, delivered>>
  <2> SUFFICES ASSUME TypeInv, Consistent, [Next]_vars
               PROVE  Ledger!Next \/ UNCHANGED <<abstract, delivered>>
    BY DEF RowStatus
  <2>1. CASE UNCHANGED <<delivered, ledger>>
    BY <2>1
  <2>2. ASSUME NEW a \in Accounts, NEW s \in {"none", "granted", "failed"},
               ledger' = [ledger EXCEPT ![a] = s]
        PROVE  abstract' = [abstract EXCEPT ![a] = RowStatus(s)]
    BY <2>2 DEF TypeInv, TypeOK
  <2>3. CASE Commit \/ AckLost
    <3>1. cur \in Accounts /\ ledger[cur] = "none"
      BY <2>3 DEF Commit, AckLost, TypeInv, ScanWellFormed, Consistent,
                  InsertNeverConflicts, Working
    <3>2. Ledger!MakeEffect(cur)
      BY <2>3, <3>1 DEF Commit, AckLost, Ledger!MakeEffect, RowStatus
    <3> QED BY <3>1, <3>2 DEF Ledger!Next
  <2>4. CASE InsertGranted
    <3>1. cur \in Accounts /\ ledger[cur] = "none" /\ delivered[cur] > 0
      BY <2>4 DEF InsertGranted, TypeInv, TypeOK, ScanWellFormed, Consistent,
                  InsertNeverConflicts, DeliveriesAccounted, Unrecorded, Working
    <3>2. Ledger!SettleDone(cur)
      BY <2>2, <2>4, <3>1 DEF InsertGranted, Ledger!SettleDone, RowStatus
    <3> QED BY <3>1, <3>2 DEF Ledger!Next
  <2>5. CASE InsertFailed
    <3>1. cur \in Accounts /\ ledger[cur] = "none"
      BY <2>5 DEF InsertFailed, TypeInv, ScanWellFormed, Consistent, InsertNeverConflicts,
                  Working
    <3>2. Ledger!SettleFailed(cur)
      BY <2>2, <2>5, <3>1 DEF InsertFailed, Ledger!SettleFailed, RowStatus
    <3> QED BY <3>1, <3>2 DEF Ledger!Next
  <2>6. ASSUME NEW a \in Accounts, RetryGrant(a) PROVE Ledger!Next
    <3>1. Ledger!Reopen(a)
      BY <2>2, <2>6 DEF RetryGrant, Ledger!Reopen, RowStatus
    <3> QED BY <3>1 DEF Ledger!Next
  <2> QED
    BY <2>1, <2>3, <2>4, <2>5, <2>6
       DEF Next, Scan, Faulty, ListAccounts, AlreadyHandled, Take, NotLoaded, BackpackFound,
           Rollback, LogConfirmed, ResolveFails, LogFails, Abort, AccountAppears,
           CharacterLoads, OnlyScans, dataVars, vars
<1> QED
  BY <1>1, <1>2, TypeInvariant, ConsistentInvariant, PTL
     DEF Spec, ImplementsEffectLedger, Ledger!Spec
--------------------------------------------------------------------------------
\* The part of the whisper scan's invariant that ties the account at work, its
\* row and what was sent to it.
MessageConsistent ==
    /\ MessageWellFormed
    /\ RecordedMeansSent
    /\ WhispersAccounted

\* Every step, and every error at any step, keeps the rows and the whispers
\* consistent up to the faults counted (welcome_package.rs, 407-535).
LEMMA MessageConsistency == MessageSpec => [](MessageTypeOK /\ MessageConsistent)
<1> USE ScanAssumption DEF MessageTypeOK, MessageConsistent, MessageWellFormed,
                           RecordedMeansSent, WhispersAccounted, Unmarked, Labels, AtWork,
                           Recorded, PositionOK, NoScan
<1>1. MessageInit => MessageTypeOK /\ MessageConsistent
  BY DEF MessageInit
<1>2. MessageTypeOK /\ MessageConsistent /\ [MessageNext]_messageVars
        => (MessageTypeOK /\ MessageConsistent)'
  <2> SUFFICES ASSUME MessageTypeOK, MessageConsistent, [MessageNext]_messageVars
               PROVE  (MessageTypeOK /\ MessageConsistent)'
    OBVIOUS
  <2> USE DEF EndsAs, NextAccount, Goto, scanVars, chatVars, Fault, Sent, SetStatus,
              Listed, Skip, TakeUp, AbortIn
  <2>1. CASE (StartScan \/ EndScan \/ LogWarn \/ Recover) /\ UNCHANGED chatVars
    BY <2>1 DEF StartScan, EndScan, LogWarn, Recover
  <2>2. ASSUME NEW a \in Accounts, AlreadyGreeted(a) \/ GreetNext(a)
        PROVE  (MessageTypeOK /\ MessageConsistent)'
    BY <2>2 DEF AlreadyGreeted, GreetNext
  <2>3. CASE Resolve
    <3>1. CASE chat[cur] = "unknown"
      BY <2>3, <3>1 DEF Resolve
    <3>2. CASE chat[cur] # "unknown"
      BY <2>3, <3>2 DEF Resolve
    <3> QED BY <3>1, <3>2
  <2>4. CASE Ensure
    <3>1. CASE status[cur] = "none"
      BY <2>4, <3>1 DEF Ensure
    <3>2. CASE status[cur] # "none"
      BY <2>4, <3>2 DEF Ensure
    <3> QED BY <3>1, <3>2
  <2>5. CASE Prepare
    BY <2>5 DEF Prepare
  <2>6. CASE Publish
    BY <2>6 DEF Publish
  <2>7. CASE MarkPublished
    BY <2>7 DEF MarkPublished
  <2>8. CASE MarkConfirmed
    BY <2>8 DEF MarkConfirmed
  <2>9. CASE ListEveryone
    BY <2>9 DEF ListEveryone
  <2>10. CASE StepFails
    BY <2>10 DEF StepFails
  <2>11. CASE AnswerLost
    BY <2>11 DEF AnswerLost
  <2>12. CASE CutShort \/ ((GuardStuck \/ Restart) /\ UNCHANGED chatVars)
    BY <2>12 DEF CutShort, GuardStuck, Restart
  <2>13. CASE SourceAppears
    BY <2>13 DEF SourceAppears
  <2>14. ASSUME NEW a \in Accounts, NEW c \in {"no_id", "ready"}, ChatLearned(a, c)
         PROVE  (MessageTypeOK /\ MessageConsistent)'
    BY <2>14 DEF ChatLearned
  <2>15. CASE UNCHANGED messageVars
    BY <2>15 DEF messageVars
  <2> HIDE DEF MessageTypeOK, MessageConsistent, chatVars
  <2> QED
    BY <2>1, <2>2, <2>3, <2>4, <2>5, <2>6, <2>7, <2>8, <2>9, <2>10, <2>11, <2>12, <2>13,
       <2>14, <2>15 DEF MessageNext, MessageScan, MessageFaulty
<1> QED BY <1>1, <1>2, PTL DEF MessageSpec

\* The scan's state stays of its type; in particular no row is ever marked
\* failed (mark_welcome_action_failed has no caller).
THEOREM MessageTypeCorrect == MessageSpec => []MessageTypeOK
BY MessageConsistency, PTL

\* No player is marked greeted without a whisper.
THEOREM RecordedMeansSentHolds == MessageSpec => []RecordedMeansSent
BY MessageConsistency, PTL DEF MessageConsistent

\* A repeated whisper takes a fault, one for each, however many scans run.
THEOREM WhispersBoundedHolds == MessageSpec => []WhispersBounded
<1>1. MessageTypeOK /\ MessageConsistent => WhispersBounded
  <2> SUFFICES ASSUME MessageTypeOK, MessageConsistent, NEW a \in Accounts
               PROVE  sent[a] <= faults + 1
    BY DEF WhispersBounded
  <2>1. \/ sent[a] <= faults + 1
        \/ sent[a] <= faults
    BY Zenon DEF MessageConsistent, WhispersAccounted
  <2>2. sent[a] \in Nat /\ faults \in Nat
    BY ScanAssumption DEF MessageTypeOK, PositionOK
  <2> QED BY <2>1, <2>2
<1> QED BY <1>1, MessageConsistency, PTL
--------------------------------------------------------------------------------
\* The task implements the ledger's promise with published and confirmed rows
\* as settled: no whisper is sent to an account that has one recorded.
THEOREM WhispersImplementLedger == MessageSpec => ImplementsWhisperLedger
<1> DEFINE Abs(s) == IF s \in Recorded THEN "done" ELSE "open"
           abstract == [a \in Accounts |-> Abs(status[a])]
<1>1. MessageInit => WhisperLedger!Init
  BY DEF MessageInit, WhisperLedger!Init, Recorded
<1>2. MessageTypeOK /\ MessageConsistent /\ [MessageNext]_messageVars
        => [WhisperLedger!Next]_<<abstract, sent>>
  <2> SUFFICES ASSUME MessageTypeOK, MessageConsistent, [MessageNext]_messageVars
               PROVE  WhisperLedger!Next \/ UNCHANGED <<abstract, sent>>
    OBVIOUS
  <2>1. CASE UNCHANGED <<status, sent>>
    BY <2>1
  <2>2. ASSUME NEW a \in Accounts, NEW s \in {"pending"} \cup Recorded, SetStatus(a, s)
        PROVE  abstract' = [abstract EXCEPT ![a] = Abs(s)]
    BY <2>2 DEF MessageTypeOK, SetStatus
  <2>3. CASE Ensure
    <3>1. cur \in Accounts
      BY <2>3 DEF Ensure, MessageConsistent, MessageWellFormed, AtWork
    <3>2. CASE status[cur] = "none"
      <4>1. abstract' = [abstract EXCEPT ![cur] = "open"]
        BY <2>2, <2>3, <3>1, <3>2 DEF Ensure, Recorded
      <4>2. abstract[cur] = "open" /\ sent' = sent
        BY <2>3, <3>1, <3>2 DEF Ensure, Recorded
      <4>3. abstract' = abstract
        BY <4>1, <4>2
      <4> HIDE DEF abstract
      <4> QED BY <4>2, <4>3
    <3>3. CASE status[cur] # "none"
      BY <2>3, <3>3 DEF Ensure
    <3> QED BY <3>2, <3>3
  <2>4. CASE Publish \/ AnswerLost
    <3>1. cur \in Accounts /\ status[cur] \notin Recorded
      BY <2>4 DEF Publish, AnswerLost, MessageConsistent, MessageWellFormed, AtWork
    <3>2. WhisperLedger!MakeEffect(cur)
      BY <2>4, <3>1 DEF Publish, AnswerLost, Sent, WhisperLedger!MakeEffect
    <3> QED BY <3>1, <3>2 DEF WhisperLedger!Next
  <2>5. CASE MarkPublished
    <3>1. cur \in Accounts /\ status[cur] \notin Recorded /\ sent[cur] > 0
      BY <2>5 DEF MarkPublished, MessageTypeOK, MessageConsistent, MessageWellFormed, AtWork,
                  WhispersAccounted, Unmarked
    <3>2. WhisperLedger!SettleDone(cur)
      BY <2>2, <2>5, <3>1 DEF MarkPublished, WhisperLedger!SettleDone, Recorded
    <3>3. cur \in Accounts
      BY <3>1
    <3>4. WhisperLedger!Next
      BY <3>2, <3>3 DEF WhisperLedger!Next, WhisperLedger!SettleDone
    <3> QED BY <3>4
  <2>6. CASE MarkConfirmed
    <3>1. cur \in Accounts /\ status[cur] \in Recorded
      BY <2>6 DEF MarkConfirmed, MessageConsistent, MessageWellFormed, AtWork
    <3>2. abstract' = [abstract EXCEPT ![cur] = "done"] /\ abstract[cur] = "done"
      BY <2>2, <2>6, <3>1 DEF MarkConfirmed, Recorded
    <3>3. sent' = sent
      BY <2>6 DEF MarkConfirmed
    <3>4. abstract' = abstract
      BY <3>1, <3>2
    <3> HIDE DEF abstract
    <3> QED BY <3>3, <3>4
  <2> QED
    BY <2>1, <2>3, <2>4, <2>5, <2>6
       DEF MessageNext, MessageScan, MessageFaulty, ListEveryone, AlreadyGreeted, GreetNext,
           Resolve, Prepare, StepFails, CutShort, SourceAppears, ChatLearned, chatVars,
           messageVars
<1> QED
  BY <1>1, <1>2, MessageConsistency, PTL
     DEF MessageSpec, ImplementsWhisperLedger, WhisperLedger!Spec
================================================================================
