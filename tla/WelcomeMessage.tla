--------------------------- MODULE WelcomeMessage ---------------------------
(***************************************************************************)
(* The welcome-message task: a scan a minute whispers every account whose  *)
(* chat identity the game database knows, through RabbitMQ, and keeps what *)
(* it did in welcome_grant_actions: pending, published, confirmed.  The    *)
(* whisper is made before it is recorded, and unlike a failed package a    *)
(* failed whisper is not recorded: the next scan tries it again.           *)
(*                                                                         *)
(* The identity a row is written under is the one it is looked up under    *)
(* (the account list and the chat lookup read it from two tables of the    *)
(* game's database).  The configured text is not empty.                    *)
(***************************************************************************)
EXTENDS WelcomeScan

VARIABLES
    chat,        \* of each account: "unknown", "no_id" or "ready"
    source,      \* whether the configured sender is a known player
    sent,        \* how many whispers the broker routed to it
    status       \* its row: "none", "pending", "published" or "confirmed"

chatVars == <<chat, source, sent, status>>
messageVars == <<chat, source, sent, status, pc, todo, cur, faults>>

Recorded == {"published", "confirmed"}
AtWork == {"resolve", "ensure", "send", "publish", "mark_published", "mark_confirmed", "warn"}
Labels == AtWork \cup {"idle", "wedged", "list", "next"}

MessageTypeOK ==
    /\ chat \in [Accounts -> {"unknown", "no_id", "ready"}]
    /\ source \in {"missing", "known"}
    /\ sent \in [Accounts -> Nat]
    /\ status \in [Accounts -> {"none", "pending"} \cup Recorded]
    /\ PositionOK(Labels)

MessageInit ==
    /\ chat = [a \in Accounts |-> "unknown"]
    /\ source \in {"missing", "known"}
    /\ sent = [a \in Accounts |-> 0]
    /\ status = [a \in Accounts |-> "none"]
    /\ NoScan

Sent(a) == sent' = [sent EXCEPT ![a] = @ + 1]

\* What the update does to a row written under another identity: nothing.
UpdatesNoRow(a, s) == UNCHANGED status

SetStatus(a, s) == status' = [status EXCEPT ![a] = s]
-----------------------------------------------------------------------------
(* The game database. *)

\* A character is created, with or without a chat id, or gets its chat id.
ChatLearned(a, c) ==
    /\ \/ chat[a] = "unknown" /\ c \in {"no_id", "ready"}
       \/ chat[a] = "no_id" /\ c = "ready"
    /\ chat' = [chat EXCEPT ![a] = c]
    /\ UNCHANGED <<source, sent, status, scanVars, faults>>

SourceAppears ==
    /\ source = "missing"
    /\ source' = "known"
    /\ UNCHANGED <<chat, sent, status, scanVars, faults>>
-----------------------------------------------------------------------------
(* One scan. *)

ListEveryone == Listed(Accounts) /\ UNCHANGED chatVars

AlreadyGreeted(a) == status[a] = "confirmed" /\ Skip(a) /\ UNCHANGED chatVars

GreetNext(a) == status[a] # "confirmed" /\ TakeUp(a) /\ UNCHANGED chatVars

Resolve ==
    /\ pc = "resolve"
    /\ IF chat[cur] = "unknown" THEN NextAccount ELSE Goto("ensure")
    /\ UNCHANGED <<chatVars, faults>>

\* ensure_welcome_grant and ensure_welcome_action: insert the row if there is
\* none, and read it.
Ensure ==
    /\ pc = "ensure"
    /\ IF status[cur] = "none" THEN SetStatus(cur, "pending") ELSE UNCHANGED status
    /\ Goto("send")
    /\ UNCHANGED <<chat, source, sent, faults>>

\* The recipient has a chat id and the configured sender is found.
Whisperable == chat[cur] = "ready" /\ source = "known"

AlwaysPrepares ==
    /\ pc = "send"
    /\ \/ Whisperable /\ Goto("publish")
       \/ ~Whisperable /\ Goto("warn")
    /\ UNCHANGED <<chatVars, faults>>

\* A row already published is only confirmed.
Prepare ==
    /\ pc = "send"
    /\ \/ status[cur] \in Recorded /\ Goto("mark_confirmed")
       \/ status[cur] \notin Recorded /\ Whisperable /\ Goto("publish")
       \/ status[cur] \notin Recorded /\ ~Whisperable /\ Goto("warn")
    /\ UNCHANGED <<chatVars, faults>>

Publish ==
    /\ pc = "publish"
    /\ Sent(cur)
    /\ Goto("mark_published")
    /\ UNCHANGED <<chat, source, status, faults>>

MarkPublished ==
    /\ pc = "mark_published"
    /\ SetStatus(cur, "published")
    /\ Goto("mark_confirmed")
    /\ UNCHANGED <<chat, source, sent, faults>>

ForgetsConfirmed ==
    /\ pc = "mark_confirmed"
    /\ NextAccount
    /\ UNCHANGED <<chatVars, faults>>

MarkConfirmed ==
    /\ pc = "mark_confirmed"
    /\ SetStatus(cur, "confirmed")
    /\ NextAccount
    /\ UNCHANGED <<chat, source, sent, faults>>
-----------------------------------------------------------------------------
(* What can fail. *)

\* An error while working on the account: it is logged and nothing recorded.
StepFails ==
    /\ pc \in AtWork \ {"warn"}
    /\ Fault
    /\ Goto("warn")
    /\ UNCHANGED chatVars

\* The broker routed the whisper and the answer of kubectl exec was lost, or
\* came after its 30 s.
AnswerLost ==
    /\ pc = "publish"
    /\ Fault
    /\ Sent(cur)
    /\ Goto("warn")
    /\ UNCHANGED <<chat, source, status>>

\* An error of the listing, of the gate or of the warning.
CutShort == AbortIn({"list", "warn"}) /\ UNCHANGED chatVars
-----------------------------------------------------------------------------
MessageScan ==
    \/ (StartScan \/ EndScan \/ LogWarn) /\ UNCHANGED chatVars
    \/ ListEveryone
    \/ \E a \in Accounts : AlreadyGreeted(a) \/ GreetNext(a)
    \/ Resolve \/ Ensure \/ Prepare \/ Publish
    \/ MarkPublished \/ MarkConfirmed

MessageFaulty ==
    \/ (GuardStuck \/ Restart) /\ UNCHANGED chatVars
    \/ StepFails \/ AnswerLost \/ CutShort

MessageNext ==
    \/ MessageScan \/ MessageFaulty \/ SourceAppears
    \/ Recover /\ UNCHANGED chatVars
    \/ \E a \in Accounts, c \in {"no_id", "ready"} : ChatLearned(a, c)

MessageSpec == MessageInit /\ [][MessageNext]_messageVars

\* The interval loop starts a scan again a minute after the last one; every
\* query and publish of a scan returns, fails or times out.
FairMessageSpec == MessageSpec /\ WF_messageVars(MessageScan)
-----------------------------------------------------------------------------
(* Properties *)

\* A row that says published or confirmed stands for a whisper the broker
\* routed: no error path marks a player greeted who was not.
RecordedMeansSent == \A a \in Accounts : status[a] \in Recorded => sent[a] >= 1

\* A player is whispered again only after a fault, once per fault at most; a
\* fault between the two marks costs nothing, the row is only confirmed later.
WhispersBounded == \A a \in Accounts : sent[a] <= faults + 1

\* A player whose chat identity is known is eventually marked greeted once the
\* sender is known, whatever failed on the way, unless the guard is stuck.
ReadyIsGreeted ==
    \A a \in Accounts :
        chat[a] = "ready" /\ source = "known" ~> status[a] = "confirmed" \/ pc = "wedged"

\* The ledger's promise: a recorded whisper is final and was sent, and none is
\* sent to an account that has one.
WhisperLedger == INSTANCE EffectLedger WITH
    Keys <- Accounts,
    status <- [a \in Accounts |-> IF status[a] \in Recorded THEN "done" ELSE "open"],
    effects <- sent

ImplementsWhisperLedger == WhisperLedger!Spec
-----------------------------------------------------------------------------
(* The strengthening that makes the invariants above inductive. *)

\* What the scan's position says about its account's row.
MessageWellFormed ==
    /\ pc \in AtWork => cur \in Accounts
    /\ pc \in {"publish", "mark_published"} => status[cur] \notin Recorded
    /\ pc = "mark_confirmed" => status[cur] \in Recorded

\* A whisper sent and not yet recorded belongs to the scan, or took a fault.
Unmarked(a) == cur = a /\ pc = "mark_published"

WhispersAccounted ==
    \A a \in Accounts :
        /\ Unmarked(a) => sent[a] >= 1
        /\ status[a] \in Recorded \/ Unmarked(a) => sent[a] <= faults + 1
        /\ status[a] \notin Recorded /\ ~Unmarked(a) => sent[a] <= faults

=============================================================================
