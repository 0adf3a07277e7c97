---------------------------- MODULE DailyRestart ----------------------------
(***************************************************************************)
(* The daily restart of the battlegroup and its announcement: the two      *)
(* scheduler loops, the bodies of their tasks, runs triggered by hand, the *)
(* vendor's restart script and operators who stop and start the            *)
(* battlegroup beside it.  How a run is recorded, and what becomes of it   *)
(* when the store fails, is TaskRunner's; here a task has at most one      *)
(* body.                                                                   *)
(*                                                                         *)
(* A loop sleeps on the monotonic clock, up to an instant that it has      *)
(* computed on the wall clock; the two may drift apart.  A unit of time is *)
(* longer than a run, except for the wait for the servers.                 *)
(***************************************************************************)
EXTENDS DailyClock

CONSTANTS
    Settings,      \* what the daemon may load: [enabled, at, lead]
    ManualLeads,   \* lead times of a notice sent by hand
    WaitLimit,     \* how long the wait for the servers may take
    Horizon,       \* bound: time
    MaxDown,       \* bound: how long the daemon is down
    MaxEvents      \* bound: settings of the wall clock, failures and exits of
                   \* the daemon, and what operators do, taken together

Tasks == {"notice", "restart"}

ASSUME RestartAssumption ==
    /\ Settings # {}
    /\ Settings \subseteq [enabled : BOOLEAN, at : Labels, lead : Nat]
    /\ ManualLeads \subseteq Nat
    /\ WaitLimit \in Nat /\ Horizon \in Nat /\ MaxDown \in Nat /\ MaxEvents \in Nat

VARIABLES
    cal,          \* the time zone's calendar
    clock,        \* the monotonic clock
    skew,         \* the wall clock's distance from it
    steps,        \* how often the wall clock was set
    up,           \* whether the daemon runs
    since,        \* the instant of its start, or of its end
    env,          \* the settings it has loaded
    due,          \* of each loop the instant it sleeps up to
    wake,         \* and the same on the monotonic clock
    by,           \* who runs the task's body: "none", "loop" or "manual"
    pc,           \* where the body is
    target,       \* the instant the notice will announce
    deadline,     \* when the wait for the servers ends
    said,         \* the announcements still ahead: [target, at]
    stopped,      \* the battlegroup's spec.stop
    wish,         \* what operators last wanted: "run" or "stop"
    raced,        \* whether they stopped it behind the restart's check
    served,       \* the local date of the last scheduled restart, -1 for none
    repeats,      \* how often a date was served again
    trouble,      \* the instant of the last announcement that failed
    faults,       \* how often something failed or the daemon ended
    commands      \* how often operators did something

time == <<cal, clock, skew, steps>>
daemon == <<up, since, env>>
loops == <<due, wake>>
bodies == <<by, pc, target, deadline>>
group == <<stopped, wish, raced>>
record == <<said, served, repeats, trouble>>
bounds == <<faults, commands>>
vars == <<time, daemon, loops, bodies, group, record, bounds>>

Places(t) ==
    IF t = "notice" THEN {"idle", "target", "publish"}
    ELSE {"idle", "discover", "check", "stop", "start", "wait"}

TypeOK ==
    /\ cal \in Calendars
    /\ clock \in 0..Horizon /\ skew \in Int /\ steps \in 0..MaxEvents
    /\ up \in BOOLEAN /\ since \in Int /\ env \in Settings
    /\ due \in [Tasks -> Int] /\ wake \in [Tasks -> Int]
    /\ by \in [Tasks -> {"none", "loop", "manual"}]
    /\ DOMAIN pc = Tasks /\ \A t \in Tasks : pc[t] \in Places(t)
    /\ target \in Int /\ deadline \in Int
    /\ said \subseteq [target : Int, at : Int]
    /\ stopped \in BOOLEAN /\ wish \in {"run", "stop"} /\ raced \in BOOLEAN
    /\ served \in Int /\ repeats \in Nat /\ trouble \in Int
    /\ faults \in 0..MaxEvents /\ commands \in 0..MaxEvents

Now == clock + skew
More == steps + faults + commands < MaxEvents

\* The wall-clock times: the notice's lies the lead before the restart's,
\* around midnight if need be.
Label(s, t) == IF t = "restart" THEN s.at ELSE (s.at + Day - (s.lead % Day)) % Day

Init ==
    /\ cal \in Calendars
    /\ clock = 0 /\ skew = 0 /\ steps = 0
    /\ up = FALSE /\ since = 0 /\ env = CHOOSE s \in Settings : TRUE
    /\ due = [t \in Tasks |-> 0] /\ wake = [t \in Tasks |-> 0]
    /\ by = [t \in Tasks |-> "none"] /\ pc = [t \in Tasks |-> "idle"]
    /\ target = 0 /\ deadline = 0
    /\ said = {} /\ served = -1 /\ repeats = 0 /\ trouble = -1
    /\ stopped = FALSE /\ wish = "run" /\ raced = FALSE
    /\ faults = 0 /\ commands = 0
-----------------------------------------------------------------------------
(* Time and the daemon's life. *)

Asleep(t) == up /\ env.enabled /\ by[t] # "loop"

\* A sleeper is woken in time, and only the wait for the servers lasts.
Tick ==
    /\ clock < Horizon
    /\ up \/ Now - since < MaxDown
    /\ \A t \in Tasks : Asleep(t) => clock < wake[t]
    /\ \A t \in Tasks : pc[t] \in {"idle", "wait"}
    /\ clock' = clock + 1
    /\ UNCHANGED <<cal, skew, steps, daemon, loops, bodies, group, record, bounds>>

\* The wall clock is set, forward or back.
ClockSet ==
    /\ More /\ steps' = steps + 1
    /\ skew' \in {skew - 1, skew + 1}
    /\ clock + skew' >= 0
    /\ UNCHANGED <<cal, clock, daemon, loops, bodies, group, record, bounds>>

\* The daemon starts with what is stored now; both loops compute their next
\* fire.  Dates served under other settings do not count.
Start(s) ==
    /\ ~up /\ up' = TRUE
    /\ env' = s
    /\ since' = Now
    /\ due' = [t \in Tasks |-> NextDailyAt(cal, Label(s, t), Now)]
    /\ wake' = [t \in Tasks |-> due'[t] - skew]
    /\ served' = IF s = env THEN served ELSE -1
    /\ UNCHANGED <<time, bodies, group, said, repeats, trouble, bounds>>

\* The process ends; the vendor's script is killed or goes on alone.
Exit ==
    /\ up /\ up' = FALSE /\ since' = Now
    /\ More /\ faults' = faults + 1
    /\ by' = [t \in Tasks |-> "none"] /\ pc' = [t \in Tasks |-> "idle"]
    /\ due' = [t \in Tasks |-> 0] /\ wake' = [t \in Tasks |-> 0]
    /\ target' = 0 /\ deadline' = 0
    /\ stopped' \in IF pc["restart"] = "start" THEN {stopped, FALSE} ELSE {stopped}
    /\ UNCHANGED <<time, env, wish, raced, record, commands>>
-----------------------------------------------------------------------------
(* The loops. *)

First(t) == IF t = "notice" THEN "target" ELSE "discover"
Goto(t, place) == pc' = [pc EXCEPT ![t] = place]

Rearm(t) ==
    /\ due' = [due EXCEPT ![t] = NextDailyAt(cal, Label(env, t), Now)]
    /\ wake' = [wake EXCEPT ![t] = due'[t] - skew]

\* The body returns: a loop goes on to its next fire.
End(t) ==
    /\ by' = [by EXCEPT ![t] = "none"]
    /\ Goto(t, "idle")
    /\ target' = IF t = "notice" THEN 0 ELSE target
    /\ deadline' = IF t = "restart" THEN 0 ELSE deadline
    /\ \/ by[t] = "loop" /\ Rearm(t)
       \/ by[t] = "manual" /\ UNCHANGED loops

Begin(t, who) ==
    /\ by[t] = "none"
    /\ by' = [by EXCEPT ![t] = who]
    /\ Goto(t, First(t))

Fire(t) ==
    /\ Asleep(t) /\ clock >= wake[t]
    /\ Begin(t, "loop")
    /\ UNCHANGED <<time, daemon, loops, target, deadline, group, record, bounds>>

\* A run triggered by hand is on: the loop's is skipped.
Overlap(t) ==
    /\ Asleep(t) /\ clock >= wake[t] /\ by[t] = "manual"
    /\ Rearm(t)
    /\ trouble' = IF t = "notice" THEN Now ELSE trouble
    /\ UNCHANGED <<time, daemon, bodies, group, said, served, repeats, bounds>>
-----------------------------------------------------------------------------
(* The notice. *)

NoLead == -1     \* a scheduled notice, or one sent without options

\* A notice sent by hand has a lead below zero, or no frequency or duration.
NoticeRejected ==
    /\ pc["notice"] = "target" /\ by["notice"] = "manual"
    /\ End("notice")
    /\ UNCHANGED <<time, daemon, group, record, bounds>>

\* The mutant takes the time of the restart on the present date.
TargetThisDate(lead) ==
    /\ pc["notice"] = "target"
    /\ target' = IF by["notice"] = "manual" /\ lead # NoLead THEN Now + lead
                 ELSE AtOnThisDate(cal, env.at, Now)
    /\ Goto("notice", "publish")
    /\ UNCHANGED <<time, daemon, loops, by, deadline, group, record, bounds>>

Target(lead) ==
    /\ pc["notice"] = "target"
    /\ target' = IF by["notice"] = "manual" /\ lead # NoLead THEN Now + lead
                 ELSE NextDailyAt(cal, env.at, Now)
    /\ Goto("notice", "publish")
    /\ UNCHANGED <<time, daemon, loops, by, deadline, group, record, bounds>>

Publish ==
    /\ pc["notice"] = "publish"
    /\ said' = {s \in said : s.target >= Now} \cup {[target |-> target, at |-> Now]}
    /\ End("notice")
    /\ UNCHANGED <<time, daemon, group, served, repeats, trouble, bounds>>

\* The broker cannot be found, its evaluation fails or it did not publish.
PublishFails ==
    /\ pc["notice"] = "publish"
    /\ More /\ faults' = faults + 1
    /\ trouble' = Now
    /\ End("notice")
    /\ UNCHANGED <<time, daemon, group, said, served, repeats, commands>>
-----------------------------------------------------------------------------
(* The restart. *)

RestartFails ==
    /\ More /\ faults' = faults + 1
    /\ pc["restart"] \in {"discover", "stop", "start"}
    /\ End("restart")
    /\ UNCHANGED <<time, daemon, group, record, commands>>

\* The mutant restarts whatever the battlegroup's state.
DiscoverUnchecked ==
    /\ pc["restart"] = "discover"
    /\ Goto("restart", "stop")
    /\ UNCHANGED <<time, daemon, loops, by, target, deadline, group, record, bounds>>

\* The namespace and the battlegroup are found; only a scheduled restart
\* looks whether it is stopped.
Discover ==
    /\ pc["restart"] = "discover"
    /\ Goto("restart", IF by["restart"] = "loop" THEN "check" ELSE "stop")
    /\ UNCHANGED <<time, daemon, loops, by, target, deadline, group, record, bounds>>

LeaveStopped ==
    /\ pc["restart"] = "check" /\ stopped
    /\ End("restart")
    /\ UNCHANGED <<time, daemon, group, record, bounds>>

\* It runs, or the field cannot be read, which counts as running.
Proceed ==
    /\ pc["restart"] = "check"
    /\ \/ ~stopped /\ UNCHANGED faults
       \/ More /\ faults' = faults + 1
    /\ Goto("restart", "stop")
    /\ UNCHANGED <<time, daemon, loops, by, target, deadline, group, record, commands>>

\* The script's stop, by which the restart takes place; asked for by hand, it
\* also says that the battlegroup is wanted.
VendorStop ==
    /\ pc["restart"] = "stop"
    /\ stopped' = TRUE
    /\ Goto("restart", "start")
    /\ \/ /\ by["restart"] = "loop"
          /\ served' = DateOf(cal, due["restart"])
          /\ repeats' = IF served' = served THEN repeats + 1 ELSE repeats
          /\ UNCHANGED wish
       \/ /\ by["restart"] = "manual"
          /\ wish' = "run"
          /\ UNCHANGED <<served, repeats>>
    /\ UNCHANGED <<time, daemon, loops, by, target, deadline, raced, said, trouble, bounds>>

\* The mutant does not wait for the script.
VendorStartForgotten ==
    /\ pc["restart"] = "start"
    /\ deadline' = clock + WaitLimit
    /\ Goto("restart", "wait")
    /\ UNCHANGED <<time, daemon, loops, by, target, group, record, bounds>>

VendorStart ==
    /\ pc["restart"] = "start"
    /\ stopped' = FALSE
    /\ deadline' = clock + WaitLimit
    /\ Goto("restart", "wait")
    /\ UNCHANGED <<time, daemon, loops, by, target, wish, raced, record, bounds>>

\* A started phase is read, possibly the one from before the restart.
Ready ==
    /\ pc["restart"] = "wait"
    /\ End("restart")
    /\ UNCHANGED <<time, daemon, group, record, bounds>>

WaitTimesOut ==
    /\ pc["restart"] = "wait" /\ clock >= deadline
    /\ End("restart")
    /\ UNCHANGED <<time, daemon, group, record, bounds>>
-----------------------------------------------------------------------------
(* Operators. *)

Command == More /\ commands' = commands + 1

Trigger(t) ==
    /\ Command /\ up
    /\ Begin(t, "manual")
    /\ UNCHANGED <<time, daemon, loops, target, deadline, group, record, faults>>

OperatorStops ==
    /\ Command
    /\ stopped' = TRUE /\ wish' = "stop"
    /\ raced' = (pc["restart"] \in {"stop", "start"})
    /\ UNCHANGED <<time, daemon, loops, bodies, record, faults>>

OperatorStarts ==
    /\ Command
    /\ stopped' = FALSE /\ wish' = "run"
    /\ UNCHANGED <<time, daemon, loops, bodies, raced, record, faults>>
-----------------------------------------------------------------------------
Notice ==
    \/ NoticeRejected
    \/ \E lead \in ManualLeads \cup {NoLead} : Target(lead)
    \/ Publish \/ PublishFails
Restart ==
    \/ Discover \/ LeaveStopped \/ Proceed \/ VendorStop \/ VendorStart \/ WaitTimesOut
    \/ RestartFails

Next ==
    \/ Tick \/ ClockSet \/ Exit
    \/ \E s \in Settings : Start(s)
    \/ \E t \in Tasks : Fire(t) \/ Overlap(t) \/ Trigger(t)
    \/ Notice \/ Restart \/ Ready
    \/ OperatorStops \/ OperatorStarts

Spec == Init /\ [][Next]_vars
-----------------------------------------------------------------------------
(* Properties. *)

\* The notices that should announce a restart: those that come while that
\* restart is the next one.
NoticesFor(x) ==
    {n \in x - 2 * Day .. x - 1 :
        /\ NextDailyAt(cal, Label(env, "notice"), n - 1) = n
        /\ NextDailyAt(cal, env.at, n) = x}

\* A scheduled restart takes place now.
RestartsNow == by["restart"] = "loop" /\ pc["restart"] = "stop" /\ pc'["restart"] = "start"

\* Every scheduled restart was announced for its very instant, across
\* midnight, changes of the clocks, settings and restarts of the daemon, if
\* the daemon was up at one of its notices, that notice was sent, and nobody
\* set the wall clock.
RestartsAreAnnounced ==
    [][RestartsNow /\ steps = 0
        => LET x == due["restart"]
           IN  (\E n \in NoticesFor(x) : n > since /\ n > trouble)
                   => \E s \in said : s.target = x]_vars

\* No local date has two scheduled restarts under the same settings, unless
\* the wall clock was set back in between: not in the hour that comes twice,
\* nor when the daemon restarts.
OncePerDate == repeats <= steps

\* What operators stopped stays stopped.  A scheduled restart overrides them
\* only if they came behind its check, or the check or the script failed.
StopIsRespected == wish = "stop" /\ ~stopped => raced \/ faults > 0

\* Nothing but an operator or a failure leaves the battlegroup stopped.
NotLeftStopped ==
    stopped /\ pc["restart"] # "start" => wish = "stop" \/ faults > 0

\* What makes the two inductive: a restart past its check that meets a wish
\* to stop was overtaken by it, or asked for by hand before it.
RestartInv ==
    /\ StopIsRespected
    /\ pc["restart"] \in {"stop", "start"} /\ wish = "stop"
         => raced \/ faults > 0 \/ (by["restart"] = "manual" /\ pc["restart"] = "stop")
    /\ pc["restart"] = "check" => by["restart"] = "loop"
    /\ \A t \in Tasks : pc[t] = "idle" <=> by[t] = "none"

\* What makes the first inductive: each setting of the wall clock pays for one
\* repetition.  It is spent once a loop's next restart is on the date already
\* served; and it is owed while the target of that date is ahead, or while a loop
\* that the clock was set back under is about to fire before its instant.
Count(b) == IF b THEN 1 ELSE 0
Early(t) == wake[t] + skew < due[t] /\ Now < due[t]
OnceInv ==
    /\ OncePerDate /\ Now >= 0
    /\ (\E u \in BuildTarget(cal, served, env.at) : Now < u) => repeats < steps
    /\ up => due["restart"] \in BuildTarget(cal, DateOf(cal, due["restart"]), env.at)
    /\ by["restart"] = "loop" => up /\ clock >= wake["restart"]
    /\ up /\ ~(by["restart"] = "loop" /\ pc["restart"] \in {"start", "wait"})
         => repeats + Count(DateOf(cal, due["restart"]) = served) + Count(Early("restart"))
              <= steps

\* What makes the announcements inductive.  While nobody sets the wall clock, a
\* loop that sleeps has not slept past its instant, and a body runs at the
\* instant that its loop woke for; and each notice since the daemon's start that
\* was due before the next one, and sent, has said the restart it came before.
Punctual ==
    /\ skew = 0 /\ since <= Now /\ trouble <= Now
    /\ \A t \in Tasks : /\ ~up => by[t] = "none"
                        /\ by[t] = "loop" => env.enabled
                        /\ Asleep(t) => due[t] = wake[t] /\ Now <= due[t]
    /\ by["restart"] = "loop" /\ pc["restart"] # "wait" => Now = due["restart"]
    /\ by["notice"] = "loop" =>
        /\ Now = due["notice"]
        /\ pc["notice"] = "publish" => target = NextDailyAt(cal, env.at, Now)
IsNotice(n) == NextDailyAt(cal, Label(env, "notice"), n - 1) = n
Said(n) ==
    LET x == NextDailyAt(cal, env.at, n)
    IN  n > trouble /\ IsNotice(n) /\ x >= Now => \E s \in said : s.target = x
Announced == up /\ env.enabled => \A n \in since + 1 .. due["notice"] - 1 : Said(n)
AnnouncedInv == steps = 0 => Punctual /\ Announced

\* The comment in restart_notice.rs (46-47): the notice fires that long before
\* the restart "so the operator-configured lead time is honored".  The daemon
\* was up for two days and nothing failed.
LeadTimeHonored ==
    [][RestartsNow /\ steps = 0 /\ faults = 0 /\ commands = 0 /\ since <= due["restart"] - 2 * Day
        => \E s \in said : s.target = due["restart"] /\ s.at <= due["restart"] - env.lead]_vars
=============================================================================
