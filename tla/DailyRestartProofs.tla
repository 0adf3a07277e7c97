------------------------- MODULE DailyRestartProofs -------------------------
(***************************************************************************)
(* Proofs about DailyClock and DailyRestart: for any length of the day,    *)
(* any calendars and settings and any number of events.                    *)
(***************************************************************************)
EXTENDS DailyRestart, TLAPS

\* The look-ahead is short: a non-empty set of its dates has a first.
LEMMA LeastElement ==
    ASSUME NEW lo \in Int, NEW S, S \subseteq lo .. lo + 13, S # {}
    PROVE  \E x \in S : \A y \in S : x <= y
<1>1. PICK z \in S : TRUE
  OBVIOUS
<1> QED BY <1>1

\* The first date ahead exists whenever there is a date ahead.
LEMMA FirstDate ==
    ASSUME NEW cal_ \in Calendars, NEW t \in Labels, NEW now \in Int,
           DatesAhead(cal_, t, now) # {}
    PROVE  LET first == CHOOSE d \in DatesAhead(cal_, t, now) :
                            \A e \in DatesAhead(cal_, t, now) : d <= e
           IN  first \in DatesAhead(cal_, t, now)
<1> DEFINE S == DatesAhead(cal_, t, now)
<1>1. DateOf(cal_, now) \in Int
  BY ClockAssumption DEF DateOf, Local
<1>2. S \subseteq DateOf(cal_, now) .. DateOf(cal_, now) + 13
  BY <1>1 DEF DatesAhead
<1> HIDE DEF S
<1>3. \E d \in S : \A e \in S : d <= e
  BY <1>1, <1>2, LeastElement DEF S
<1> QED BY <1>3 DEF S

\* An instant that the look-up of a local time returns shows that time.
LEMMA TargetsShowTheTime ==
    ASSUME NEW cal_ \in Calendars, NEW d \in Int, NEW t \in Labels,
           NEW u \in BuildTarget(cal_, d, t)
    PROVE  u \in Int /\ Local(cal_, u) = d * Day + t
BY ClockAssumption DEF BuildTarget, LocalResult, Labels

\* A local time has at most one target, the latest instant that shows it.
LEMMA OneTarget ==
    ASSUME NEW cal_ \in Calendars, NEW d \in Int, NEW t \in Labels,
           NEW u \in BuildTarget(cal_, d, t), NEW v \in BuildTarget(cal_, d, t)
    PROVE  u = v
<1>1. u \in Int /\ v \in Int
  BY TargetsShowTheTime
<1> QED BY <1>1 DEF BuildTarget

\* next_daily_at returns an instant strictly after now, whatever the
\* calendar: a loop never sleeps up to an instant that is past.
THEOREM NextIsLater ==
    ASSUME NEW cal_ \in Calendars, NEW t \in Labels, NEW now \in Int
    PROVE  NextDailyAt(cal_, t, now) \in Int /\ NextDailyAt(cal_, t, now) > now
<1> DEFINE S == DatesAhead(cal_, t, now)
           first == CHOOSE d \in S : \A e \in S : d <= e
<1>1. CASE S = {}
  BY <1>1, ClockAssumption DEF NextDailyAt
<1>2. CASE S # {}
  <2>1. first \in S
    BY <1>2, FirstDate
  <2>2. first \in Int
    <3>1. DateOf(cal_, now) \in Int
      BY ClockAssumption DEF DateOf, Local
    <3> QED BY <2>1, <3>1 DEF DatesAhead
  <2>3. PICK u \in BuildTarget(cal_, first, t) : u > now
    BY <2>1 DEF DatesAhead
  <2>4. NextDailyAt(cal_, t, now) = CHOOSE v \in BuildTarget(cal_, first, t) : TRUE
    BY <1>2 DEF NextDailyAt
  <2> HIDE DEF first, S
  <2>5. NextDailyAt(cal_, t, now) = u
    BY <2>2, <2>3, <2>4, OneTarget
  <2> QED BY <2>2, <2>3, <2>5, TargetsShowTheTime
<1> QED BY <1>1, <1>2

\* Dates are counted in days of local time.
LEMMA Division ==
    ASSUME NEW a \in Int
    PROVE  a \div Day \in Int /\ (a \div Day) * Day <= a /\ a < (a \div Day) * Day + Day
BY ClockAssumption

LEMMA LabelsDate ==
    ASSUME NEW d \in Int, NEW t \in Labels
    PROVE  (d * Day + t) \div Day = d
<1> DEFINE e == (d * Day + t) \div Day
<1>1. Day \in Nat \ {0} /\ t \in 0 .. Day - 1 /\ d * Day \in Int
  BY ClockAssumption DEF Labels
<1>2. e \in Int /\ e * Day <= d * Day + t /\ d * Day + t < e * Day + Day
  BY <1>1, Division
<1> HIDE DEF e
<1>3. ~(e <= d - 1)
  <2> SUFFICES ASSUME e <= d - 1 PROVE FALSE
    OBVIOUS
  <2>1. e * Day <= (d - 1) * Day
    BY <1>1, <1>2
  <2>2. (d - 1) * Day = d * Day - Day
    BY <1>1
  <2> QED BY <1>1, <1>2, <2>1, <2>2
<1>4. ~(e >= d + 1)
  <2> SUFFICES ASSUME e >= d + 1 PROVE FALSE
    OBVIOUS
  <2>1. e * Day >= (d + 1) * Day
    BY <1>1, <1>2
  <2>2. (d + 1) * Day = d * Day + Day
    BY <1>1
  <2> QED BY <1>1, <1>2, <2>1, <2>2
<1>5. e = d
  BY <1>2, <1>3, <1>4
<1> QED BY <1>5 DEF e

\* A target is on the date it was looked up for.
LEMMA TargetsDate ==
    ASSUME NEW cal_ \in Calendars, NEW d \in Int, NEW t \in Labels,
           NEW u \in BuildTarget(cal_, d, t)
    PROVE  DateOf(cal_, u) = d
BY TargetsShowTheTime, LabelsDate DEF DateOf

\* A local time that does not fall into a gap of the clocks has a target.
LEMMA TargetExists ==
    ASSUME NEW cal_ \in Calendars, NEW d \in Int, NEW t \in Labels,
           d * Day + t < cal_.change \/ d * Day + t - cal_.shift >= cal_.change
    PROVE  \E u \in Int : u \in BuildTarget(cal_, d, t)
<1> DEFINE x == d * Day + t
<1>1. x \in Int /\ cal_.shift \in Int /\ cal_.change \in Int
  BY ClockAssumption DEF Labels
<1>2. LocalResult(cal_, d, t) = {u \in {x, x - cal_.shift} : Local(cal_, u) = x}
  BY DEF LocalResult
<1>5. x < cal_.change \/ x - cal_.shift >= cal_.change
  BY <1>1, ClockAssumption DEF Labels
<1> HIDE DEF x
<1>3. CASE x - cal_.shift >= cal_.change /\ ~(x < cal_.change /\ cal_.shift >= 0)
  <2>1. Local(cal_, x - cal_.shift) = x
    BY <1>1, <1>3 DEF Local
  <2>2. x - cal_.shift \in LocalResult(cal_, d, t)
    BY <1>2, <2>1
  <2>3. \A v \in LocalResult(cal_, d, t) : v <= x - cal_.shift
    BY <1>1, <1>2, <1>3 DEF Local
  <2> QED BY <1>1, <2>2, <2>3 DEF BuildTarget
<1>4. CASE x < cal_.change /\ (x - cal_.shift < cal_.change \/ cal_.shift >= 0)
  <2>1. Local(cal_, x) = x
    BY <1>1, <1>4 DEF Local
  <2>2. x \in LocalResult(cal_, d, t)
    BY <1>2, <2>1
  <2>3. \A v \in LocalResult(cal_, d, t) : v <= x
    BY <1>1, <1>2, <1>4 DEF Local
  <2> QED BY <1>1, <2>2, <2>3 DEF BuildTarget
<1> QED BY <1>1, <1>3, <1>4, <1>5

\* Within four dates a local time comes again: at most one date loses it in a gap, so
\* the look-ahead of two weeks never ends without a result.
LEMMA DatesAheadExist ==
    ASSUME NEW cal_ \in Calendars, NEW t \in Labels, NEW now \in Int
    PROVE  DatesAhead(cal_, t, now) # {}
<1> DEFINE D == DateOf(cal_, now)
           x == (D + 2) * Day + t
           y == (D + 3) * Day + t
<1>1. /\ Day \in Nat \ {0} /\ t \in 0 .. Day - 1
      /\ cal_.change \in Int /\ cal_.shift \in -Day .. Day
  BY ClockAssumption DEF Labels
<1>2. Local(cal_, now) \in Int
  BY <1>1 DEF Local
<1>3. D \in Int /\ Local(cal_, now) < D * Day + Day /\ D * Day \in Int
  BY <1>1, <1>2, Division DEF DateOf
<1>4. /\ (D + 2) * Day = D * Day + 2 * Day
      /\ (D + 3) * Day = D * Day + 3 * Day
  BY <1>1, <1>3
<1>5. x \in Int /\ y = x + Day
  BY <1>1, <1>3, <1>4
<1>6. PICK d \in {D + 2, D + 3} : \E u \in Int : u \in BuildTarget(cal_, d, t)
  <2>1. \/ x < cal_.change \/ x - cal_.shift >= cal_.change
        \/ y - cal_.shift >= cal_.change
    BY <1>1, <1>5
  <2>2. CASE x < cal_.change \/ x - cal_.shift >= cal_.change
    <3>1. D + 2 \in Int
      BY <1>3
    <3>2. \E u \in Int : u \in BuildTarget(cal_, D + 2, t)
      <4> HIDE DEF D
      <4> QED BY <1>1, <2>2, <3>1, TargetExists
    <3> QED BY <3>2
  <2>3. CASE y - cal_.shift >= cal_.change
    <3>1. D + 3 \in Int
      BY <1>3
    <3>2. \E u \in Int : u \in BuildTarget(cal_, D + 3, t)
      <4> HIDE DEF D
      <4> QED BY <1>1, <2>3, <3>1, TargetExists
    <3> QED BY <3>2
  <2> QED BY <2>1, <2>2, <2>3
<1>7. PICK u \in Int : u \in BuildTarget(cal_, d, t)
  BY <1>6
<1>8. d \in Int /\ Local(cal_, u) = d * Day + t
  BY <1>3, <1>6, <1>7, TargetsShowTheTime
<1>9. Local(cal_, u) >= D * Day + 2 * Day
  BY <1>1, <1>3, <1>4, <1>6, <1>8
<1>10. Local(cal_, u) - Local(cal_, now) > Day
  BY <1>1, <1>2, <1>3, <1>8, <1>9
<1>11. u > now
  BY <1>1, <1>10 DEF Local
<1>12. d \in DateOf(cal_, now) .. DateOf(cal_, now) + 13
  BY <1>3, <1>6
<1> QED BY <1>7, <1>11, <1>12 DEF DatesAhead

\* So next_daily_at never falls back to a day from now: it returns the target of the
\* first date whose target is ahead, at which the local clock shows the time asked for.
THEOREM NextIsATarget ==
    ASSUME NEW cal_ \in Calendars, NEW t \in Labels, NEW now \in Int
    PROVE  LET next == NextDailyAt(cal_, t, now) IN
           /\ next \in Int /\ next > now
           /\ DateOf(cal_, next) \in DatesAhead(cal_, t, now)
           /\ \A e \in DatesAhead(cal_, t, now) : DateOf(cal_, next) <= e
           /\ next \in BuildTarget(cal_, DateOf(cal_, next), t)
           /\ Local(cal_, next) = DateOf(cal_, next) * Day + t
<1> DEFINE S == DatesAhead(cal_, t, now)
           first == CHOOSE d \in S : \A e \in S : d <= e
           next == NextDailyAt(cal_, t, now)
<1>1. S # {}
  BY DatesAheadExist
<1>2. DateOf(cal_, now) \in Int /\ S \subseteq DateOf(cal_, now) .. DateOf(cal_, now) + 13
  BY Division, ClockAssumption DEF DatesAhead, DateOf, Local
<1>3. first \in S /\ \A e \in S : first <= e
  <2> HIDE DEF S
  <2>1. \E d \in S : \A e \in S : d <= e
    BY <1>1, <1>2, LeastElement
  <2> QED BY <2>1
<1>4. first \in Int
  BY <1>2, <1>3
<1>5. PICK u \in BuildTarget(cal_, first, t) : u > now
  BY <1>3 DEF DatesAhead
<1>6. next = CHOOSE v \in BuildTarget(cal_, first, t) : TRUE
  BY <1>1 DEF NextDailyAt
<1> HIDE DEF first, next
<1>7. next \in BuildTarget(cal_, first, t)
  BY <1>5, <1>6
<1>8. next = u
  BY <1>4, <1>5, <1>7, OneTarget
<1>9. DateOf(cal_, next) = first /\ next \in Int
  BY <1>4, <1>7, TargetsDate, TargetsShowTheTime
<1>10. Local(cal_, next) = first * Day + t
  BY <1>4, <1>7, TargetsShowTheTime
<1> QED BY <1>3, <1>5, <1>7, <1>8, <1>9, <1>10 DEF next
-----------------------------------------------------------------------------
LEMMA LabelsAreLabels ==
    ASSUME NEW s \in Settings, NEW t \in Tasks
    PROVE  Label(s, t) \in Labels
<1>1. Day \in Nat \ {0} /\ s.at \in Labels /\ s.lead \in Nat
  BY ClockAssumption, RestartAssumption
<1>2. s.lead % Day \in 0 .. Day - 1
  BY <1>1
<1> HIDE DEF Labels
<1>3. \A x \in Int : x % Day \in 0 .. Day - 1
  BY <1>1
<1>4. s.at + Day - (s.lead % Day) \in Int
  BY <1>1, <1>2 DEF Labels
<1> QED BY <1>1, <1>3, <1>4 DEF Label, Labels

LEMMA TypeInvariant == Spec => []TypeOK
<1> USE ClockAssumption, RestartAssumption DEF TypeOK, Places, Tasks, More, Now
<1>1. Init => TypeOK
  <2> SUFFICES ASSUME Init PROVE TypeOK
    OBVIOUS
  <2>1. env \in Settings
    BY DEF Init
  <2>2. up \in BOOLEAN /\ stopped \in BOOLEAN /\ raced \in BOOLEAN
    BY Zenon DEF Init
  <2>3. /\ DOMAIN pc = Tasks /\ \A t \in Tasks : pc[t] \in Places(t)
        /\ by \in [Tasks -> {"none", "loop", "manual"}]
    BY DEF Init
  <2> QED BY <2>1, <2>2, <2>3 DEF Init
<1>2. TypeOK /\ [Next]_vars => TypeOK'
  <2> SUFFICES ASSUME TypeOK, [Next]_vars PROVE TypeOK'
    OBVIOUS
  <2>0. \A t \in Tasks, s \in Settings : NextDailyAt(cal, Label(s, t), Now) \in Int
    <3> TAKE t \in Tasks, s \in Settings
    <3>1. clock + skew \in Int
      OBVIOUS
    <3> QED BY <3>1, NextIsLater, LabelsAreLabels
  <2> USE DEF time, daemon, loops, bodies, group, record, bounds, Goto, Rearm, End, Command
  <2>1. CASE Tick
    BY <2>1 DEF Tick
  <2>2. CASE ClockSet
    BY <2>2 DEF ClockSet
  <2>3. ASSUME NEW s \in Settings, Start(s) PROVE TypeOK'
    <3>1. due' \in [Tasks -> Int]
      BY <2>0, <2>3 DEF Start
    <3>2. wake' \in [Tasks -> Int]
      BY <3>1, <2>3 DEF Start
    <3>3. served' \in Int
      BY <2>3 DEF Start
    <3>4. up' \in BOOLEAN
      BY <2>3, Zenon DEF Start
    <3> QED BY <2>3, <3>1, <3>2, <3>3, <3>4 DEF Start
  <2>4. CASE Exit
    <3>1. up' \in BOOLEAN
      BY <2>4, Zenon DEF Exit
    <3>2. stopped' \in BOOLEAN
      BY <2>4 DEF Exit
    <3> QED BY <2>4, <3>1, <3>2 DEF Exit
  <2>5. ASSUME NEW t \in Tasks, Fire(t) PROVE TypeOK'
    BY <2>5 DEF Fire, Begin, First
  <2>6. ASSUME NEW t \in Tasks, Overlap(t) PROVE TypeOK'
    BY <2>0, <2>6 DEF Overlap
  <2>7. ASSUME NEW t \in Tasks, Trigger(t) PROVE TypeOK'
    BY <2>7 DEF Trigger, Begin, First
  <2>8. CASE Notice
    <3>1. CASE NoticeRejected
      BY <2>0, <3>1 DEF NoticeRejected
    <3>2. ASSUME NEW lead \in ManualLeads \cup {NoLead}, Target(lead) PROVE TypeOK'
      <4>1. NextDailyAt(cal, env.at, Now) \in Int
        BY <2>0 DEF Label
      <4> QED BY <3>2, <4>1 DEF Target, NoLead
    <3>3. CASE Publish
      BY <2>0, <3>3 DEF Publish
    <3>4. CASE PublishFails
      BY <2>0, <3>4 DEF PublishFails
    <3> QED BY <2>8, <3>1, <3>2, <3>3, <3>4 DEF Notice
  <2>9. CASE Restart
    <3>1. CASE Discover
      BY <3>1 DEF Discover
    <3>2. CASE LeaveStopped
      BY <2>0, <3>2 DEF LeaveStopped
    <3>3. CASE Proceed
      BY <3>3 DEF Proceed
    <3>4. CASE VendorStop
      <4>1. served' \in Int /\ repeats' \in Nat
        BY <3>4 DEF VendorStop, DateOf, Local
      <4>2. stopped' \in BOOLEAN
        BY <3>4, Zenon DEF VendorStop
      <4> QED BY <3>4, <4>1, <4>2 DEF VendorStop
    <3>5. CASE VendorStart
      <4>1. stopped' \in BOOLEAN
        BY <3>5, Zenon DEF VendorStart
      <4> QED BY <3>5, <4>1 DEF VendorStart
    <3>6. CASE WaitTimesOut
      BY <2>0, <3>6 DEF WaitTimesOut
    <3>7. CASE RestartFails
      BY <2>0, <3>7 DEF RestartFails
    <3> QED BY <2>9, <3>1, <3>2, <3>3, <3>4, <3>5, <3>6, <3>7 DEF Restart
  <2>10. CASE Ready
    BY <2>0, <2>10 DEF Ready
  <2>11. CASE OperatorStops
    <3>1. stopped' \in BOOLEAN
      BY <2>11, Zenon DEF OperatorStops
    <3>2. raced' \in BOOLEAN
      BY <2>11 DEF OperatorStops
    <3> QED BY <2>11, <3>1, <3>2 DEF OperatorStops
  <2>12. CASE OperatorStarts
    <3>1. stopped' \in BOOLEAN
      BY <2>12, Zenon DEF OperatorStarts
    <3> QED BY <2>12, <3>1 DEF OperatorStarts
  <2>13. CASE UNCHANGED vars
    BY <2>13 DEF vars
  <2> QED
    BY <2>1, <2>2, <2>3, <2>4, <2>5, <2>6, <2>7, <2>8, <2>9, <2>10, <2>11, <2>12, <2>13 DEF Next
<1> QED BY <1>1, <1>2, PTL DEF Spec

\* The state of the schedule stays of its type, and every time that a loop
\* sleeps up to is an instant.
THEOREM TypeCorrect == Spec => []TypeOK
BY TypeInvariant
-----------------------------------------------------------------------------
LEMMA RestartInvariant == Spec => []RestartInv
<1> USE DEF TypeOK, RestartInv, StopIsRespected, Tasks, Places
<1>1. Init => RestartInv
  BY DEF Init
<1>2. TypeOK /\ RestartInv /\ [Next]_vars => RestartInv'
  <2> SUFFICES ASSUME TypeOK, RestartInv, [Next]_vars PROVE RestartInv'
    OBVIOUS
  <2> USE DEF time, daemon, loops, bodies, group, record, bounds, Goto, End, More, Command
  <2>1. CASE Tick \/ ClockSet
    BY <2>1 DEF Tick, ClockSet
  <2>2. CASE Exit
    BY <2>2 DEF Exit
  <2>3. ASSUME NEW s \in Settings, Start(s) PROVE RestartInv'
    BY <2>3 DEF Start
  <2>4. ASSUME NEW t \in Tasks, Fire(t) \/ Trigger(t) PROVE RestartInv'
    BY <2>4 DEF Fire, Trigger, Begin, First
  <2>5. ASSUME NEW t \in Tasks, Overlap(t) PROVE RestartInv'
    BY <2>5 DEF Overlap
  <2>6. CASE Notice
    BY <2>6 DEF Notice, NoticeRejected, Target, Publish, PublishFails
  <2>7. CASE Restart
    <3>1. CASE Discover
      BY <3>1 DEF Discover
    <3>2. CASE LeaveStopped \/ WaitTimesOut
      BY <3>2 DEF LeaveStopped, WaitTimesOut
    <3>3. CASE Proceed
      BY <3>3 DEF Proceed
    <3>4. CASE VendorStop
      BY <3>4 DEF VendorStop
    <3>5. CASE VendorStart
      BY <3>5 DEF VendorStart
    <3>6. CASE RestartFails
      BY <3>6 DEF RestartFails
    <3> QED BY <2>7, <3>1, <3>2, <3>3, <3>4, <3>5, <3>6 DEF Restart
  <2>8. CASE Ready
    BY <2>8 DEF Ready
  <2>9. CASE OperatorStops
    BY <2>9 DEF OperatorStops
  <2>10. CASE OperatorStarts
    BY <2>10 DEF OperatorStarts
  <2>11. CASE UNCHANGED vars
    BY <2>11 DEF vars
  <2> QED
    BY <2>1, <2>2, <2>3, <2>4, <2>5, <2>6, <2>7, <2>8, <2>9, <2>10, <2>11 DEF Next
<1> QED BY <1>1, <1>2, TypeInvariant, PTL DEF Spec

LEMMA NotLeftStoppedInvariant == Spec => []NotLeftStopped
<1> USE DEF TypeOK, RestartInv, NotLeftStopped, Tasks, Places
<1>1. Init => NotLeftStopped
  BY DEF Init
<1>2. TypeOK /\ RestartInv /\ NotLeftStopped /\ [Next]_vars => NotLeftStopped'
  <2> SUFFICES ASSUME TypeOK, RestartInv, NotLeftStopped, [Next]_vars PROVE NotLeftStopped'
    OBVIOUS
  <2> USE DEF time, daemon, loops, bodies, group, record, bounds, Goto, End, More, Command
  <2>1. CASE Tick \/ ClockSet \/ Exit
    <3>1. CASE Tick
      BY <3>1 DEF Tick
    <3>2. CASE ClockSet
      BY <3>2 DEF ClockSet
    <3>3. CASE Exit
      BY <3>3 DEF Exit
    <3> QED BY <2>1, <3>1, <3>2, <3>3
  <2>2. ASSUME NEW s \in Settings, Start(s) PROVE NotLeftStopped'
    BY <2>2 DEF Start
  <2>3. ASSUME NEW t \in Tasks, Fire(t) \/ Overlap(t) \/ Trigger(t) PROVE NotLeftStopped'
    <3>1. CASE Fire(t)
      BY <3>1 DEF Fire, Begin, First
    <3>2. CASE Overlap(t)
      BY <3>2 DEF Overlap
    <3>3. CASE Trigger(t)
      BY <3>3 DEF Trigger, Begin, First
    <3> QED BY <2>3, <3>1, <3>2, <3>3
  <2>4. CASE Notice
    <3>1. CASE NoticeRejected
      BY <3>1 DEF NoticeRejected
    <3>2. ASSUME NEW lead \in ManualLeads \cup {NoLead}, Target(lead) PROVE NotLeftStopped'
      BY <3>2 DEF Target
    <3>3. CASE Publish
      BY <3>3 DEF Publish
    <3>4. CASE PublishFails
      BY <3>4 DEF PublishFails
    <3> QED BY <2>4, <3>1, <3>2, <3>3, <3>4 DEF Notice
  <2>5. CASE Restart
    <3>1. CASE Discover
      BY <3>1 DEF Discover
    <3>2. CASE LeaveStopped \/ WaitTimesOut
      BY <3>2 DEF LeaveStopped, WaitTimesOut
    <3>3. CASE Proceed
      BY <3>3 DEF Proceed
    <3>4. CASE VendorStop
      BY <3>4 DEF VendorStop
    <3>5. CASE VendorStart
      BY <3>5 DEF VendorStart
    <3>6. CASE RestartFails
      BY <3>6 DEF RestartFails
    <3> QED BY <2>5, <3>1, <3>2, <3>3, <3>4, <3>5, <3>6 DEF Restart
  <2>6. CASE Ready \/ OperatorStops \/ OperatorStarts
    BY <2>6 DEF Ready, OperatorStops, OperatorStarts
  <2>7. CASE UNCHANGED vars
    BY <2>7 DEF vars
  <2> QED BY <2>1, <2>2, <2>3, <2>4, <2>5, <2>6, <2>7 DEF Next
<1> QED BY <1>1, <1>2, TypeInvariant, RestartInvariant, PTL DEF Spec

\* A scheduled restart overrides an operator's stop only where it raced with
\* it or something failed.
THEOREM StopIsRespectedHolds == Spec => []StopIsRespected
BY RestartInvariant, PTL DEF RestartInv

\* Only an operator or a failure leaves the battlegroup stopped.
THEOREM NotLeftStoppedHolds == Spec => []NotLeftStopped
BY NotLeftStoppedInvariant
-----------------------------------------------------------------------------
(* One restart a date. *)

\* No local time from instant 0 on is before the first date.
LEMMA DatesCountUp ==
    ASSUME NEW cal_ \in Calendars, NEW u \in Int, u >= 0
    PROVE  Local(cal_, u) >= 0 /\ DateOf(cal_, u) # -1
<1>1. Local(cal_, u) \in Int /\ Local(cal_, u) >= 0
  BY ClockAssumption DEF Local
<1> DEFINE q == DateOf(cal_, u)
<1>2. q \in Int /\ q * Day + Day > 0 /\ Day \in Nat \ {0}
  BY <1>1, Division, ClockAssumption DEF DateOf
<1> HIDE DEF q
<1>3. q + 1 > 0
  <2> SUFFICES ASSUME q + 1 <= 0 PROVE FALSE
    BY <1>2
  <2>1. (q + 1) * Day <= 0
    BY <1>2
  <2>2. (q + 1) * Day = q * Day + Day
    BY <1>2
  <2> QED BY <1>2, <2>1, <2>2
<1>4. q # -1
  BY <1>2, <1>3
<1> QED BY <1>1, <1>4 DEF q

\* So the date that stands for none has no target ahead.
LEMMA NoTargetOfNone ==
    ASSUME NEW cal_ \in Calendars, NEW t \in Labels, NEW u \in BuildTarget(cal_, -1, t)
    PROVE  u \in Int /\ u < 0
<1>1. u \in Int
  BY TargetsShowTheTime
<1>2. DateOf(cal_, u) = -1
  BY TargetsDate
<1> QED BY <1>1, <1>2, DatesCountUp

\* A next restart on the date already served has its instant ahead of the clock, and
\* was paid for.
LEMMA NextIsPaid ==
    ASSUME TypeOK, OnceInv
    PROVE  LET next == NextDailyAt(cal, env.at, Now) IN
           /\ next \in Int /\ next > Now
           /\ next \in BuildTarget(cal, DateOf(cal, next), env.at)
           /\ repeats + Count(DateOf(cal, next) = served) <= steps
<1> DEFINE next == NextDailyAt(cal, env.at, Now)
<1>1. cal \in Calendars /\ env.at \in Labels /\ Now \in Int /\ repeats \in Nat /\ steps \in Int
  BY RestartAssumption DEF TypeOK, Now
<1>2. next \in Int /\ next > Now /\ next \in BuildTarget(cal, DateOf(cal, next), env.at)
  BY <1>1, NextIsATarget
<1> HIDE DEF next
<1>3. DateOf(cal, next) = served => repeats < steps
  BY <1>2 DEF OnceInv
<1>4. repeats + Count(DateOf(cal, next) = served) <= steps
  <2>1. CASE DateOf(cal, next) = served
    BY <1>1, <1>3, <2>1 DEF Count
  <2>2. CASE DateOf(cal, next) # served
    BY <1>1, <2>2 DEF Count, OnceInv, OncePerDate
  <2> QED BY <2>1, <2>2
<1> QED BY <1>2, <1>4 DEF next

\* The schedule of the restart stays, and its body does not go back from behind the stop.
LEMMA ScheduleStays ==
    ASSUME TypeOK, OnceInv, UNCHANGED <<cal, clock, skew, steps, up, env, served, repeats>>,
           due'["restart"] = due["restart"], wake'["restart"] = wake["restart"],
           by'["restart"] = "loop" => up /\ clock >= wake["restart"],
           by["restart"] = "loop" /\ pc["restart"] \in {"start", "wait"}
             => by'["restart"] = "loop" /\ pc'["restart"] \in {"start", "wait"}
    PROVE  OnceInv'
BY DEF OnceInv, OncePerDate, Now, Early

\* The loop goes on to its next restart.
LEMMA ScheduleRearmed ==
    ASSUME TypeOK, OnceInv, UNCHANGED <<cal, clock, skew, steps, up, env, served, repeats>>,
           due'["restart"] = NextDailyAt(cal, env.at, Now),
           wake'["restart"] = due'["restart"] - skew,
           by'["restart"] # "loop"
    PROVE  OnceInv'
<1>1. /\ due'["restart"] \in Int /\ due'["restart"] > Now
      /\ due'["restart"] \in BuildTarget(cal, DateOf(cal, due'["restart"]), env.at)
      /\ repeats + Count(DateOf(cal, due'["restart"]) = served) <= steps
  BY NextIsPaid
<1>2. repeats \in Nat /\ steps \in Int /\ skew \in Int /\ clock \in Int
  BY DEF TypeOK
<1>3. ~Early("restart")'
  BY <1>1, <1>2 DEF Early
<1>4. Count(Early("restart"))' = 0
  BY <1>3 DEF Count
<1>5. Count(DateOf(cal, due'["restart"]) = served) \in {0, 1}
  BY DEF Count
<1>6. (repeats + Count(DateOf(cal, due["restart"]) = served) + Count(Early("restart")) <= steps)'
  BY <1>1, <1>2, <1>4, <1>5
<1> QED BY <1>1, <1>6 DEF OnceInv, OncePerDate, Now

\* The body of the restart's task returns.
LEMMA RestartReturns ==
    ASSUME TypeOK, OnceInv, End("restart"),
           UNCHANGED <<cal, clock, skew, steps, up, env, served, repeats>>
    PROVE  OnceInv'
<1>1. by'["restart"] = "none"
  BY DEF End, TypeOK, Tasks
<1>2. CASE by["restart"] = "loop" /\ Rearm("restart")
  <2>1. due'["restart"] = NextDailyAt(cal, env.at, Now)
    BY <1>2 DEF Rearm, TypeOK, Tasks, Label
  <2>2. wake'["restart"] = due'["restart"] - skew
    BY <1>2 DEF Rearm, TypeOK, Tasks
  <2> QED BY <1>1, <2>1, <2>2, ScheduleRearmed
<1>3. CASE by["restart"] = "manual" /\ UNCHANGED loops
  BY <1>1, <1>3, ScheduleStays DEF loops
<1> QED BY <1>2, <1>3 DEF End

LEMMA OnceInvariant == Spec => []OnceInv
<1>1. Init => OnceInv
  <2> SUFFICES ASSUME Init PROVE OnceInv
    OBVIOUS
  <2>1. cal \in Calendars /\ env \in Settings
    BY RestartAssumption DEF Init
  <2>2. ASSUME NEW u \in BuildTarget(cal, -1, env.at), Now < u PROVE FALSE
    <3>1. env.at \in Labels
      BY <2>1, RestartAssumption
    <3>2. u \in Int /\ u < 0
      BY <2>1, <2>2, <3>1, NoTargetOfNone
    <3> QED BY <2>2, <3>2 DEF Init, Now
  <2> QED BY <2>2 DEF Init, OnceInv, OncePerDate, Now, Tasks
<1>2. TypeOK /\ OnceInv /\ [Next]_vars => OnceInv'
  <2> SUFFICES ASSUME TypeOK, OnceInv, [Next]_vars PROVE OnceInv'
    OBVIOUS
  <2> USE DEF time, daemon, loops, bodies, group, record, bounds
  <2>0. /\ clock \in Int /\ skew \in Int /\ steps \in Int /\ repeats \in Nat
        /\ due["restart"] \in Int /\ wake["restart"] \in Int /\ cal \in Calendars
        /\ env \in Settings
    BY DEF TypeOK, Tasks
  <2>1. CASE Tick
    <3>1. clock' = clock + 1 /\ UNCHANGED <<cal, skew, steps, up, env, due, wake, by, pc, served, repeats>>
      BY <2>1 DEF Tick
    <3>2. Early("restart")' => Early("restart")
      BY <2>0, <3>1 DEF Early, Now
    <3>3. Count(Early("restart"))' <= Count(Early("restart"))
      BY <3>2 DEF Count
    <3>4. /\ Count(Early("restart"))' \in {0, 1} /\ Count(Early("restart")) \in {0, 1}
          /\ Count(DateOf(cal, due["restart"]) = served) \in {0, 1}
      BY DEF Count
    <3>5. ASSUME NEW u \in BuildTarget(cal, served, env.at), Now' < u PROVE Now < u
      <4>1. env.at \in Labels
        BY <2>0, RestartAssumption
      <4>2. u \in Int
        BY <2>0, <4>1, <3>5, TargetsShowTheTime DEF TypeOK
      <4> QED BY <2>0, <3>1, <3>5, <4>2 DEF Now
    <3>6. (\E u \in BuildTarget(cal, served, env.at) : Now' < u) => repeats < steps
      BY <3>5 DEF OnceInv
    <3>7. Now' >= 0 /\ (by["restart"] = "loop" => clock' >= wake["restart"])
      BY <2>0, <3>1 DEF OnceInv, Now
    <3>8. up /\ ~(by["restart"] = "loop" /\ pc["restart"] \in {"start", "wait"})
            => repeats + Count(DateOf(cal, due["restart"]) = served) + Count(Early("restart"))'
                 <= steps
      <4>1. up /\ ~(by["restart"] = "loop" /\ pc["restart"] \in {"start", "wait"})
             => repeats + Count(DateOf(cal, due["restart"]) = served) + Count(Early("restart"))
                  <= steps
        BY DEF OnceInv
      <4> QED BY <2>0, <3>3, <3>4, <4>1
    <3> QED BY <3>1, <3>6, <3>7, <3>8 DEF OnceInv, OncePerDate
  <2>2. CASE ClockSet
    <3>1. /\ steps' = steps + 1 /\ clock + skew' >= 0
          /\ UNCHANGED <<cal, clock, up, env, due, wake, by, pc, served, repeats>>
      BY <2>2 DEF ClockSet
    <3>2. /\ Count(Early("restart"))' \in {0, 1} /\ Count(Early("restart")) \in {0, 1}
          /\ Count(DateOf(cal, due["restart"]) = served) \in {0, 1}
      BY DEF Count
    <3>3. repeats <= steps /\ repeats < steps'
      BY <2>0, <3>1 DEF OnceInv, OncePerDate
    <3>4. up /\ ~(by["restart"] = "loop" /\ pc["restart"] \in {"start", "wait"})
            => repeats + Count(DateOf(cal, due["restart"]) = served) + Count(Early("restart"))'
                 <= steps'
      <4>1. up /\ ~(by["restart"] = "loop" /\ pc["restart"] \in {"start", "wait"})
             => repeats + Count(DateOf(cal, due["restart"]) = served) + Count(Early("restart"))
                  <= steps
        BY DEF OnceInv
      <4> QED BY <2>0, <3>1, <3>2, <4>1
    <3> QED BY <2>0, <3>1, <3>3, <3>4 DEF OnceInv, OncePerDate, Now
  <2>3. ASSUME NEW s \in Settings, Start(s) PROVE OnceInv'
    <3>1. /\ ~up /\ up' = TRUE /\ env' = s /\ UNCHANGED <<cal, clock, skew, steps, by, pc, repeats>>
          /\ due'["restart"] = NextDailyAt(cal, s.at, Now)
          /\ wake'["restart"] = due'["restart"] - skew
          /\ served' = IF s = env THEN served ELSE -1
      BY <2>3 DEF Start, Tasks, Label
    <3>2. s.at \in Labels /\ Now \in Int /\ Now >= 0
      BY <2>0, RestartAssumption DEF Now, OnceInv
    <3>3. /\ due'["restart"] \in Int /\ due'["restart"] > Now
          /\ due'["restart"] \in BuildTarget(cal, DateOf(cal, due'["restart"]), s.at)
      BY <2>0, <3>1, <3>2, NextIsATarget
    <3>4. (\E u \in BuildTarget(cal, served', s.at) : Now < u) => repeats < steps
      <4>1. CASE s = env
        BY <3>1, <4>1 DEF OnceInv
      <4>2. CASE s # env
        <5>1. ASSUME NEW u \in BuildTarget(cal, -1, s.at), Now < u PROVE FALSE
          <6>1. u \in Int /\ u < 0
            BY <2>0, <3>2, <5>1, NoTargetOfNone
          <6> QED BY <3>2, <5>1, <6>1
        <5> QED BY <3>1, <4>2, <5>1
      <4> QED BY <4>1, <4>2
    <3>5. repeats + Count(DateOf(cal, due'["restart"]) = served') <= steps
      <4>1. CASE DateOf(cal, due'["restart"]) = served'
        BY <2>0, <3>3, <3>4, <4>1 DEF Count
      <4>2. CASE DateOf(cal, due'["restart"]) # served'
        BY <2>0, <4>2 DEF Count, OnceInv, OncePerDate
      <4> QED BY <4>1, <4>2
    <3>6. Count(Early("restart"))' = 0 /\ Count(DateOf(cal, due'["restart"]) = served') \in {0, 1}
      BY <2>0, <3>1, <3>3 DEF Count, Early
    <3>7. (repeats + Count(DateOf(cal, due["restart"]) = served) + Count(Early("restart")) <= steps)'
      BY <2>0, <3>1, <3>5, <3>6
    <3>8. by'["restart"] # "loop"
      BY <3>1 DEF OnceInv
    <3> QED BY <3>1, <3>2, <3>3, <3>4, <3>7, <3>8 DEF OnceInv, OncePerDate, Now
  <2>4. CASE Exit
    <3>1. /\ up' = FALSE /\ by'["restart"] = "none"
          /\ UNCHANGED <<cal, clock, skew, steps, env, served, repeats>>
      BY <2>4 DEF Exit, Tasks
    <3> QED BY <3>1 DEF OnceInv, OncePerDate, Now
  <2>5. ASSUME NEW t \in Tasks, Fire(t) \/ Trigger(t) PROVE OnceInv'
    <3>1. UNCHANGED <<cal, clock, skew, steps, up, env, due, wake, served, repeats>>
      BY <2>5 DEF Fire, Trigger
    <3>2. by["restart"] = "loop" => by'["restart"] = "loop" /\ pc'["restart"] = pc["restart"]
      BY <2>5 DEF Fire, Trigger, Begin, Goto, TypeOK, Tasks
    <3>3. by'["restart"] = "loop" => up /\ clock >= wake["restart"]
      BY <2>5 DEF Fire, Trigger, Begin, Asleep, TypeOK, Tasks, OnceInv
    <3> QED BY <3>1, <3>2, <3>3, ScheduleStays
  <2>6. ASSUME NEW t \in Tasks, Overlap(t) PROVE OnceInv'
    <3>1. UNCHANGED <<cal, clock, skew, steps, up, env, by, pc, served, repeats>> /\ by[t] = "manual"
          /\ Rearm(t)
      BY <2>6 DEF Overlap
    <3>2. CASE t = "restart"
      <4>1. due'["restart"] = NextDailyAt(cal, env.at, Now)
        BY <3>1, <3>2 DEF Rearm, TypeOK, Tasks, Label
      <4>2. wake'["restart"] = due'["restart"] - skew
        BY <3>1, <3>2 DEF Rearm, TypeOK, Tasks
      <4> QED BY <3>1, <3>2, <4>1, <4>2, ScheduleRearmed
    <3>3. CASE t = "notice"
      <4>1. due'["restart"] = due["restart"] /\ wake'["restart"] = wake["restart"]
        BY <3>1, <3>3 DEF Rearm, TypeOK, Tasks
      <4> QED BY <3>1, <4>1, ScheduleStays DEF OnceInv
    <3> QED BY <3>2, <3>3 DEF Tasks
  <2>7. CASE Notice
    <3>1. UNCHANGED <<cal, clock, skew, steps, up, env, served, repeats>>
      BY <2>7 DEF Notice, NoticeRejected, Target, Publish, PublishFails
    <3>2. /\ due'["restart"] = due["restart"] /\ wake'["restart"] = wake["restart"]
          /\ by'["restart"] = by["restart"] /\ pc'["restart"] = pc["restart"]
      <4>1. CASE End("notice")
        BY <4>1 DEF End, Rearm, Goto, TypeOK, Tasks
      <4>2. ASSUME NEW lead, Target(lead)
            PROVE  UNCHANGED <<due, wake, by>> /\ pc'["restart"] = pc["restart"]
        BY <4>2 DEF Target, Goto, TypeOK, Tasks
      <4> QED BY <2>7, <4>1, <4>2 DEF Notice, NoticeRejected, Publish, PublishFails
    <3> QED BY <3>1, <3>2, ScheduleStays DEF OnceInv
  <2>8. CASE LeaveStopped \/ WaitTimesOut \/ RestartFails \/ Ready
    <3>1. End("restart") /\ UNCHANGED <<cal, clock, skew, steps, up, env, served, repeats>>
      BY <2>8 DEF LeaveStopped, WaitTimesOut, RestartFails, Ready
    <3> QED BY <3>1, RestartReturns
  <2>9. CASE Discover \/ Proceed \/ VendorStart
    <3>1. /\ UNCHANGED <<cal, clock, skew, steps, up, env, due, wake, by, served, repeats>>
          /\ pc["restart"] \in {"start", "wait"} => pc'["restart"] \in {"start", "wait"}
      BY <2>9 DEF Discover, Proceed, VendorStart, Goto, TypeOK, Tasks
    <3> QED BY <3>1, ScheduleStays DEF OnceInv
  <2>10. CASE VendorStop
    <3>1. /\ UNCHANGED <<cal, clock, skew, steps, up, env, due, wake, by>>
          /\ pc["restart"] = "stop" /\ pc'["restart"] = "start"
      BY <2>10 DEF VendorStop, Goto, TypeOK, Tasks
    <3>2. CASE by["restart"] = "loop"
      <4>1. /\ served' = DateOf(cal, due["restart"])
            /\ repeats' = IF served' = served THEN repeats + 1 ELSE repeats
        BY <2>10, <3>2 DEF VendorStop
      <4>2. /\ up /\ clock >= wake["restart"]
            /\ due["restart"] \in BuildTarget(cal, served', env.at)
            /\ repeats + Count(served' = served) + Count(Early("restart")) <= steps
        BY <3>1, <3>2, <4>1 DEF OnceInv
      <4>3. repeats' = repeats + Count(served' = served)
        BY <2>0, <4>1 DEF Count
      <4>4. Count(Early("restart")) \in {0, 1} /\ Count(served' = served) \in {0, 1}
        BY DEF Count
      <4>5. repeats' <= steps /\ (Early("restart") => repeats' < steps)
        <5>1. Early("restart") => Count(Early("restart")) = 1
          BY DEF Count
        <5> QED BY <2>0, <4>2, <4>3, <4>4, <5>1
      <4>6. ASSUME NEW u \in BuildTarget(cal, served', env.at), Now < u PROVE repeats' < steps
        <5>1. env.at \in Labels /\ served' \in Int
          BY <2>0, <4>1, RestartAssumption, Division, ClockAssumption DEF DateOf, Local
        <5>2. u = due["restart"]
          BY <2>0, <4>2, <4>6, <5>1, OneTarget
        <5>3. Early("restart")
          BY <2>0, <4>2, <4>6, <5>2 DEF Early, Now
        <5> QED BY <4>5, <5>3
      <4> QED BY <3>1, <3>2, <4>1, <4>2, <4>5, <4>6 DEF OnceInv, OncePerDate, Now
    <3>3. CASE by["restart"] # "loop"
      <4>1. UNCHANGED <<served, repeats>>
        BY <2>10, <3>3 DEF VendorStop
      <4> QED BY <3>1, <3>3, <4>1, ScheduleStays
    <3> QED BY <3>2, <3>3
  <2>11. CASE OperatorStops \/ OperatorStarts
    <3>1. UNCHANGED <<cal, clock, skew, steps, up, env, due, wake, by, pc, served, repeats>>
      BY <2>11 DEF OperatorStops, OperatorStarts
    <3> QED BY <3>1, ScheduleStays DEF OnceInv
  <2>12. CASE UNCHANGED vars
    <3>1. UNCHANGED <<cal, clock, skew, steps, up, env, due, wake, by, pc, served, repeats>>
      BY <2>12 DEF vars
    <3> QED BY <3>1, ScheduleStays DEF OnceInv
  <2> QED
    BY <2>1, <2>2, <2>3, <2>4, <2>5, <2>6, <2>7, <2>8, <2>9, <2>10, <2>11, <2>12 DEF Next, Restart
<1> QED BY <1>1, <1>2, TypeInvariant, PTL DEF Spec

\* No date has two scheduled restarts under the same settings but for those that
\* settings of the wall clock account for, in every time zone: neither an hour that
\* comes twice, nor one that is lost, nor an end of the daemon repeats one.
THEOREM OncePerDateHolds == Spec => []OncePerDate
BY OnceInvariant, PTL DEF OnceInv
-----------------------------------------------------------------------------
\* Local dates do not decrease, if none comes twice.
LEMMA DivisionGrows ==
    ASSUME NEW a \in Int, NEW b \in Int, a <= b
    PROVE  a \div Day <= b \div Day
<1> DEFINE x == a \div Day
           y == b \div Day
<1>1. Day \in Nat \ {0}
  BY ClockAssumption
<1>2. x \in Int /\ x * Day <= a /\ y \in Int /\ b < y * Day + Day
  BY Division
<1> HIDE DEF x, y
<1>3. ~(x >= y + 1)
  <2> SUFFICES ASSUME x >= y + 1 PROVE FALSE
    OBVIOUS
  <2>1. x * Day >= (y + 1) * Day
    BY <1>1, <1>2
  <2>2. (y + 1) * Day = y * Day + Day
    BY <1>1, <1>2
  <2> QED BY <1>1, <1>2, <2>1, <2>2
<1>4. x <= y
  BY <1>2, <1>3
<1> QED BY <1>4 DEF x, y

LEMMA DatesGrow ==
    ASSUME DatesGoOn, NEW cal_ \in Calendars, NEW u \in Int, NEW v \in Int, u <= v
    PROVE  DateOf(cal_, u) <= DateOf(cal_, v)
<1> DEFINE c == cal_.change
<1>0. c \in Int /\ cal_.shift \in Int
  BY ClockAssumption
<1>1. \A w \in Int : Local(cal_, w) \in Int /\ DateOf(cal_, w) \in Int
  BY <1>0, ClockAssumption, Division DEF Local, DateOf
<1>2. ASSUME NEW w \in Int, NEW z \in Int, w <= z, z < c \/ c <= w
      PROVE  DateOf(cal_, w) <= DateOf(cal_, z)
  <2>1. Local(cal_, w) <= Local(cal_, z)
    BY <1>0, <1>2 DEF Local
  <2> QED BY <1>1, <2>1, DivisionGrows DEF DateOf
<1>3. CASE u < c /\ c <= v
  <2>1. DateOf(cal_, u) <= DateOf(cal_, c - 1)
    BY <1>0, <1>2, <1>3
  <2>2. DateOf(cal_, c) <= DateOf(cal_, v)
    BY <1>0, <1>2, <1>3
  <2>3. DateOf(cal_, c - 1) <= DateOf(cal_, c)
    BY DEF DatesGoOn, GoesOn
  <2>4. /\ DateOf(cal_, c - 1) \in Int /\ DateOf(cal_, c) \in Int
        /\ DateOf(cal_, u) \in Int /\ DateOf(cal_, v) \in Int
    BY <1>0, <1>1
  <2> HIDE DEF c
  <2> QED BY <2>1, <2>2, <2>3, <2>4
<1> QED BY <1>0, <1>2, <1>3

\* The next fire stays the same until it comes.
LEMMA NextStays ==
    ASSUME DatesGoOn, NEW cal_ \in Calendars, NEW t \in Labels, NEW r \in Int, NEW m \in Int,
           r <= m, m < NextDailyAt(cal_, t, r)
    PROVE  NextDailyAt(cal_, t, m) = NextDailyAt(cal_, t, r)
<1> DEFINE x == NextDailyAt(cal_, t, r)
           y == NextDailyAt(cal_, t, m)
           D(u) == DateOf(cal_, u)
<1>1. /\ x \in Int /\ D(x) \in DatesAhead(cal_, t, r)
      /\ \A e \in DatesAhead(cal_, t, r) : D(x) <= e
      /\ x \in BuildTarget(cal_, D(x), t)
  BY NextIsATarget
<1>2. /\ y \in Int /\ y > m /\ D(y) \in DatesAhead(cal_, t, m)
      /\ \A e \in DatesAhead(cal_, t, m) : D(y) <= e
      /\ y \in BuildTarget(cal_, D(y), t)
  BY NextIsATarget
<1>3. D(r) \in Int /\ D(m) \in Int /\ D(x) \in Int /\ D(y) \in Int
  BY <1>1, <1>2, Division, ClockAssumption DEF DateOf, Local
<1> HIDE DEF x, y
<1>4. D(r) <= D(m) /\ D(m) <= D(x)
  BY <1>1, DatesGrow DEF x
<1>5. D(x) \in D(r) .. D(r) + 13 /\ D(y) \in D(m) .. D(m) + 13
  BY <1>1, <1>2 DEF DatesAhead
<1>6. D(x) \in DatesAhead(cal_, t, m)
  <2>1. D(x) \in D(m) .. D(m) + 13
    BY <1>3, <1>4, <1>5
  <2> QED BY <1>1, <2>1 DEF DatesAhead, x
<1>7. D(y) <= D(x)
  BY <1>2, <1>6
<1>8. D(y) \in DatesAhead(cal_, t, r)
  <2>1. D(y) \in D(r) .. D(r) + 13
    BY <1>3, <1>4, <1>5, <1>7
  <2>2. y > r
    BY <1>2
  <2> QED BY <1>2, <2>1, <2>2 DEF DatesAhead
<1>9. D(x) = D(y)
  BY <1>1, <1>3, <1>7, <1>8
<1>10. x \in BuildTarget(cal_, D(x), t) /\ y \in BuildTarget(cal_, D(x), t) /\ D(x) \in Int
  BY <1>1, <1>2, <1>3, <1>9
<1>11. x = y
  <2> HIDE DEF D
  <2> QED BY <1>10, OneTarget
<1> QED BY <1>11 DEF x, y

\* The loop of a task goes on to its next fire.
LEMMA Rearmed ==
    ASSUME TypeOK, NEW t \in Tasks, skew = 0, Rearm(t)
    PROVE  /\ due'[t] = NextDailyAt(cal, Label(env, t), Now)
           /\ due'[t] \in Int /\ due'[t] > Now
           /\ wake'[t] = due'[t]
           /\ \A u \in Tasks \ {t} : due'[u] = due[u] /\ wake'[u] = wake[u]
<1>1. cal \in Calendars /\ Label(env, t) \in Labels /\ Now \in Int
  BY LabelsAreLabels DEF TypeOK, Now
<1>2. /\ NextDailyAt(cal, Label(env, t), Now) \in Int
      /\ NextDailyAt(cal, Label(env, t), Now) > Now
  BY <1>1, NextIsLater
<1>3. due' = [due EXCEPT ![t] = NextDailyAt(cal, Label(env, t), Now)]
  BY DEF Rearm
<1>4. due'[t] = NextDailyAt(cal, Label(env, t), Now)
  BY <1>3 DEF TypeOK
<1>5. wake' = [wake EXCEPT ![t] = due'[t] - skew]
  BY DEF Rearm
<1>6. wake'[t] = due'[t]
  BY <1>2, <1>4, <1>5 DEF TypeOK
<1> QED BY <1>2, <1>3, <1>4, <1>5, <1>6 DEF TypeOK

\* What a body that returns leaves.
LEMMA PunctualReturn ==
    ASSUME TypeOK, RestartInv, Punctual, NEW t \in Tasks, End(t),
           UNCHANGED <<cal, clock, skew, up, since, env>>, trouble' \in {trouble, Now}
    PROVE  Punctual'
<1>1. /\ by' = [by EXCEPT ![t] = "none"] /\ pc' = [pc EXCEPT ![t] = "idle"]
      /\ (t # "notice" => target' = target)
  BY DEF End, Goto
<1>2. by'[t] = "none" /\ \A u \in Tasks \ {t} : by'[u] = by[u] /\ pc'[u] = pc[u]
  BY <1>1 DEF TypeOK
<1>3. /\ by[t] = "loop" => due'[t] \in Int /\ due'[t] > Now /\ wake'[t] = due'[t]
      /\ by[t] # "loop" => due'[t] = due[t] /\ wake'[t] = wake[t]
      /\ \A u \in Tasks \ {t} : due'[u] = due[u] /\ wake'[u] = wake[u]
  BY Rearmed DEF End, Punctual, loops
<1>4. clock \in Int /\ skew \in Int /\ since \in Int /\ trouble \in Int /\ Now' = Now /\ Now \in Int
  BY DEF TypeOK, Now
<1>5. skew' = 0 /\ since' <= Now' /\ trouble' <= Now'
  BY <1>4 DEF Punctual
<1>6. \A u \in Tasks : /\ ~up' => by'[u] = "none"
                       /\ by'[u] = "loop" => env'.enabled
                       /\ Asleep(u)' => due'[u] = wake'[u] /\ Now' <= due'[u]
  <2> TAKE u \in Tasks
  <2>1. CASE u = t
    BY <1>2, <1>3, <1>4, <2>1 DEF Punctual, Asleep
  <2>2. CASE u # t
    BY <1>2, <1>3, <1>4, <2>2 DEF Punctual, Asleep
  <2> QED BY <2>1, <2>2
<1>7. by'["restart"] = "loop" /\ pc'["restart"] # "wait" => Now' = due'["restart"]
  BY <1>2, <1>3, <1>4 DEF Punctual, Tasks
<1>8. by'["notice"] = "loop" =>
        /\ Now' = due'["notice"]
        /\ pc'["notice"] = "publish" => target' = NextDailyAt(cal', env'.at, Now')
  BY <1>1, <1>2, <1>3, <1>4 DEF Punctual, Tasks
<1> QED BY <1>5, <1>6, <1>7, <1>8 DEF Punctual

\* Nothing of the loops changes, and of the bodies at most where they are.
LEMMA PunctualStays ==
    ASSUME TypeOK, Punctual, UNCHANGED <<cal, clock, skew, up, since, env, due, wake, by, trouble>>,
           by["restart"] = "loop" /\ pc["restart"] = "wait" => pc'["restart"] = "wait",
           by["notice"] = "loop" /\ pc'["notice"] = "publish"
             => target' = (IF pc["notice"] = "publish" THEN target
                           ELSE NextDailyAt(cal, env.at, Now))
    PROVE  Punctual'
<1>1. Now' = Now
  BY DEF Now
<1> QED BY <1>1 DEF Punctual, Asleep

\* While the wall clock is not set, every step leaves the loops punctual.
LEMMA PunctualStep ==
    ASSUME TypeOK, RestartInv, Punctual, [Next]_vars, steps' = 0
    PROVE  Punctual'
<1> USE DEF time, daemon, loops, bodies, group, record, bounds
<1>0. /\ clock \in Int /\ skew \in Int /\ steps \in Nat /\ since \in Int /\ trouble \in Int
      /\ due \in [Tasks -> Int] /\ wake \in [Tasks -> Int]
      /\ cal \in Calendars /\ env \in Settings /\ Now \in Int /\ skew = 0
  BY RestartAssumption DEF TypeOK, Now, Punctual
<1>1. CASE Tick
  <2>1. /\ clock' = clock + 1 /\ UNCHANGED <<skew, up, since, env, due, wake, by, pc, trouble>>
        /\ \A t \in Tasks : Asleep(t) => clock < wake[t]
        /\ \A t \in Tasks : pc[t] \in {"idle", "wait"}
    BY <1>1 DEF Tick
  <2>2. Now' = Now + 1 /\ Now = clock
    BY <1>0, <2>1 DEF Now
  <2>3. by["notice"] # "loop"
    BY <2>1 DEF TypeOK, RestartInv, Tasks, Places
  <2>4. by["restart"] = "loop" => pc["restart"] = "wait"
    BY <2>1 DEF TypeOK, RestartInv, Tasks, Places
  <2>5. \A t \in Tasks : Asleep(t) => due[t] = wake[t] /\ Now' <= due[t]
    BY <1>0, <2>1, <2>2 DEF Punctual
  <2>6. \A t \in Tasks : Asleep(t)' <=> Asleep(t)
    BY <2>1 DEF Asleep
  <2> QED BY <1>0, <2>1, <2>2, <2>3, <2>4, <2>5, <2>6 DEF Punctual
<1>2. CASE ClockSet
  BY <1>0, <1>2 DEF ClockSet
<1>3. ASSUME NEW s \in Settings, Start(s) PROVE Punctual'
  <2>1. /\ up' = TRUE /\ env' = s /\ since' = Now /\ Now' = Now /\ skew' = 0
        /\ UNCHANGED <<by, trouble>>
        /\ due' = [t \in Tasks |-> NextDailyAt(cal, Label(s, t), Now)]
        /\ wake' = [t \in Tasks |-> due'[t] - skew]
    BY <1>0, <1>3 DEF Start, Now
  <2>2. \A t \in Tasks : by'[t] = "none"
    BY <1>3, <2>1 DEF Start, Punctual
  <2>3. \A t \in Tasks : due'[t] \in Int /\ due'[t] > Now /\ wake'[t] = due'[t]
    <3> TAKE t \in Tasks
    <3>1. due'[t] = NextDailyAt(cal, Label(s, t), Now) /\ wake'[t] = due'[t] - skew
      BY <2>1
    <3>2. due'[t] \in Int /\ due'[t] > Now
      BY <1>0, <3>1, LabelsAreLabels, NextIsLater
    <3> QED BY <1>0, <3>1, <3>2
  <2> QED BY <1>0, <2>1, <2>2, <2>3 DEF Punctual, Tasks
<1>4. CASE Exit
  <2>1. /\ up' = FALSE /\ since' = Now /\ Now' = Now /\ skew' = 0 /\ trouble' = trouble
        /\ by' = [t \in Tasks |-> "none"]
    BY <1>0, <1>4 DEF Exit, Now
  <2> QED BY <1>0, <2>1 DEF Punctual, Asleep, Tasks
<1>5. ASSUME NEW t \in Tasks, Fire(t) PROVE Punctual'
  <2>1. /\ Asleep(t) /\ clock >= wake[t] /\ by' = [by EXCEPT ![t] = "loop"]
        /\ pc' = [pc EXCEPT ![t] = First(t)]
        /\ UNCHANGED <<cal, clock, skew, up, since, env, due, wake, trouble, target>>
    BY <1>5 DEF Fire, Begin, Goto
  <2>2. by'[t] = "loop" /\ pc'[t] = First(t)
        /\ \A u \in Tasks \ {t} : by'[u] = by[u] /\ pc'[u] = pc[u]
    BY <2>1 DEF TypeOK
  <2>3. Now = due[t] /\ Now' = Now
    BY <1>0, <2>1 DEF Punctual, Now
  <2>4. up /\ env.enabled
    BY <2>1 DEF Asleep
  <2>5. skew' = 0 /\ since' <= Now' /\ trouble' <= Now'
    BY <2>1, <2>3 DEF Punctual
  <2>6. \A u \in Tasks : /\ ~up' => by'[u] = "none"
                         /\ by'[u] = "loop" => env'.enabled
                         /\ Asleep(u)' => due'[u] = wake'[u] /\ Now' <= due'[u]
    BY <2>1, <2>2, <2>3, <2>4 DEF Punctual, Asleep
  <2>7. by'["restart"] = "loop" /\ pc'["restart"] # "wait" => Now' = due'["restart"]
    BY <2>1, <2>2, <2>3 DEF Punctual, Tasks
  <2>8. by'["notice"] = "loop" =>
          /\ Now' = due'["notice"]
          /\ pc'["notice"] = "publish" => target' = NextDailyAt(cal', env'.at, Now')
    BY <2>1, <2>2, <2>3 DEF Punctual, Tasks, First
  <2> QED BY <2>5, <2>6, <2>7, <2>8 DEF Punctual
<1>6. ASSUME NEW t \in Tasks, Overlap(t) PROVE Punctual'
  <2>1. /\ Rearm(t) /\ by[t] = "manual" /\ trouble' \in {trouble, Now}
        /\ UNCHANGED <<cal, clock, skew, up, since, env, by, pc, target>>
    BY <1>6 DEF Overlap
  <2>2. /\ due'[t] \in Int /\ due'[t] > Now /\ wake'[t] = due'[t]
        /\ \A u \in Tasks \ {t} : due'[u] = due[u] /\ wake'[u] = wake[u]
    BY <1>0, <2>1, Rearmed
  <2>3. Now' = Now
    BY <2>1 DEF Now
  <2>4. \A u \in Tasks : Asleep(u)' => due'[u] = wake'[u] /\ Now' <= due'[u]
    <3> TAKE u \in Tasks
    <3>1. CASE u = t
      BY <1>0, <2>2, <2>3, <3>1
    <3>2. CASE u # t
      BY <2>1, <2>2, <2>3, <3>2 DEF Punctual, Asleep
    <3> QED BY <3>1, <3>2
  <2>5. \A u \in Tasks : by[u] = "loop" => due'[u] = due[u]
    BY <2>1, <2>2
  <2> QED BY <1>0, <2>1, <2>3, <2>4, <2>5 DEF Punctual, Tasks
<1>7. ASSUME NEW t \in Tasks, Trigger(t) PROVE Punctual'
  <2>1. /\ up /\ by' = [by EXCEPT ![t] = "manual"] /\ pc' = [pc EXCEPT ![t] = First(t)]
        /\ by[t] = "none"
        /\ UNCHANGED <<cal, clock, skew, up, since, env, due, wake, trouble, target>>
    BY <1>7 DEF Trigger, Begin, Goto
  <2>2. by'[t] = "manual" /\ \A u \in Tasks \ {t} : by'[u] = by[u] /\ pc'[u] = pc[u]
    BY <2>1 DEF TypeOK
  <2>3. Now' = Now
    BY <2>1 DEF Now
  <2>4. \A u \in Tasks : /\ Asleep(u)' => Asleep(u)
                         /\ by'[u] = "loop" => by[u] = "loop" /\ pc'[u] = pc[u]
    BY <2>1, <2>2 DEF Asleep
  <2> QED BY <2>1, <2>3, <2>4 DEF Punctual, Tasks
<1>8. ASSUME NEW t \in Tasks, End(t), UNCHANGED <<cal, clock, skew, up, since, env>>,
             trouble' \in {trouble, Now}
      PROVE  Punctual'
  BY <1>8, PunctualReturn
<1>9. CASE NoticeRejected
  BY <1>8, <1>9 DEF NoticeRejected, Tasks
<1>10. ASSUME NEW lead \in ManualLeads \cup {NoLead}, Target(lead) PROVE Punctual'
  <2>1. /\ pc["notice"] = "target" /\ pc' = [pc EXCEPT !["notice"] = "publish"]
        /\ UNCHANGED <<cal, clock, skew, up, since, env, due, wake, by, trouble>>
        /\ by["notice"] = "loop" => target' = NextDailyAt(cal, env.at, Now)
    BY <1>10 DEF Target, Goto
  <2>2. pc'["restart"] = pc["restart"]
    BY <2>1 DEF TypeOK
  <2> QED BY <2>1, <2>2, PunctualStays
<1>11. CASE Publish \/ PublishFails
  BY <1>8, <1>11 DEF Publish, PublishFails, Tasks
<1>12. CASE LeaveStopped \/ WaitTimesOut \/ RestartFails \/ Ready
  BY <1>8, <1>12 DEF LeaveStopped, WaitTimesOut, RestartFails, Ready, Tasks
<1>13. CASE Discover \/ Proceed \/ VendorStop \/ VendorStart
  <2>1. /\ pc["restart"] # "wait"
        /\ UNCHANGED <<cal, clock, skew, up, since, env, due, wake, by, trouble, target>>
    BY <1>13 DEF Discover, Proceed, VendorStop, VendorStart
  <2>2. pc'["notice"] = pc["notice"]
    <3>1. PICK place : Goto("restart", place)
      BY <1>13 DEF Discover, Proceed, VendorStop, VendorStart
    <3> QED BY <3>1 DEF Goto, TypeOK
  <2>3. by["notice"] = "loop" /\ pc'["notice"] = "publish"
          => target' = (IF pc["notice"] = "publish" THEN target
                        ELSE NextDailyAt(cal, env.at, Now))
    BY <2>1, <2>2
  <2> QED BY <2>1, <2>3, PunctualStays
<1>14. CASE OperatorStops \/ OperatorStarts \/ UNCHANGED vars
  <2>1. UNCHANGED <<cal, clock, skew, up, since, env, due, wake, by, pc, trouble, target>>
    BY <1>14 DEF OperatorStops, OperatorStarts, vars
  <2> QED BY <2>1, PunctualStays DEF Punctual
<1> QED
  BY <1>1, <1>2, <1>3, <1>4, <1>5, <1>6, <1>7, <1>9, <1>10, <1>11, <1>12, <1>13, <1>14
  DEF Next, Notice, Restart

\* No notice is due between an instant and the next notice that is computed then.
LEMMA NoneAhead ==
    ASSUME DatesGoOn, TypeOK, NEW s \in Settings,
           NEW n \in Now + 1 .. NextDailyAt(cal, Label(s, "notice"), Now) - 1
    PROVE  NextDailyAt(cal, Label(s, "notice"), n - 1) # n
<1> DEFINE t == Label(s, "notice")
           x == NextDailyAt(cal, t, Now)
<1>1. cal \in Calendars /\ t \in Labels /\ Now \in Int
  BY LabelsAreLabels DEF TypeOK, Tasks, Now
<1>2. x \in Int
  BY <1>1, NextIsLater
<1>3. n \in Int /\ n - 1 \in Int /\ Now <= n - 1 /\ n - 1 < x /\ n < x
  BY <1>1, <1>2
<1> HIDE DEF t
<1>4. NextDailyAt(cal, t, n - 1) = x
  BY <1>1, <1>3, NextStays
<1> QED BY <1>3, <1>4 DEF t

\* Notices that were said stay so, while the schedule stays and time goes on.
LEMMA SaidStays ==
    ASSUME TypeOK, NEW n \in Int, Said(n),
           UNCHANGED <<cal, env>>, Now' \in Int, Now' >= Now, trouble' \in Int, trouble' >= trouble,
           {s \in said : s.target >= Now'} \subseteq said'
    PROVE  Said(n)'
<1> DEFINE x == NextDailyAt(cal, env.at, n)
<1>1. cal \in Calendars /\ env.at \in Labels /\ Now \in Int /\ trouble \in Int
  BY RestartAssumption DEF TypeOK, Now
<1>2. x \in Int
  BY <1>1, NextIsLater
<1>3. SUFFICES ASSUME n > trouble', IsNotice(n)', x >= Now'
               PROVE  \E s \in said' : s.target = x
  BY DEF Said
<1>4. IsNotice(n)' <=> IsNotice(n)
  BY DEF IsNotice, Label
<1>5. n > trouble /\ x >= Now
  BY <1>1, <1>2, <1>3
<1>6. PICK s \in said : s.target = x
  BY <1>3, <1>4, <1>5 DEF Said
<1>7. s \in said'
  BY <1>3, <1>6
<1> QED BY <1>6, <1>7

\* The notice's loop stays asleep and nothing of the announcements changes.
LEMMA AnnouncedStays ==
    ASSUME TypeOK, Announced, UNCHANGED <<cal, up, since, env, trouble, said>>,
           due'["notice"] = due["notice"], Now' \in Int, Now' >= Now
    PROVE  Announced'
<1>1. since \in Int /\ due["notice"] \in Int /\ trouble \in Int
  BY DEF TypeOK, Tasks
<1>2. SUFFICES ASSUME up, env.enabled, NEW n \in since + 1 .. due["notice"] - 1
               PROVE  Said(n)'
  BY DEF Announced
<1>3. n \in Int /\ Said(n)
  BY <1>1, <1>2 DEF Announced
<1> QED BY <1>1, <1>3, SaidStays

\* A loop that goes on to its next notice owes nothing for the time up to now, if
\* that failed just now or was said.
LEMMA AnnouncedRearmed ==
    ASSUME DatesGoOn, TypeOK, Rearm("notice"), UNCHANGED <<cal, clock, skew, up, since, env>>,
           skew = 0,
           \A n \in since + 1 .. Now : Said(n)'
    PROVE  Announced'
<1>1. since \in Int /\ Now \in Int /\ Now' = Now /\ env \in Settings /\ cal \in Calendars
  BY DEF TypeOK, Now
<1>2. /\ due'["notice"] = NextDailyAt(cal, Label(env, "notice"), Now)
      /\ due'["notice"] \in Int
  BY Rearmed DEF Tasks
<1>3. SUFFICES ASSUME NEW n \in since + 1 .. due'["notice"] - 1
               PROVE  Said(n)'
  BY <1>1 DEF Announced
<1>4. n \in Int
  BY <1>1, <1>2
<1>5. CASE n <= Now
  BY <1>1, <1>2, <1>5
<1>6. CASE n > Now
  <2>1. n \in Now + 1 .. NextDailyAt(cal, Label(env, "notice"), Now) - 1
    BY <1>1, <1>2, <1>6
  <2>2. NextDailyAt(cal, Label(env, "notice"), n - 1) # n
    BY <1>1, <2>1, NoneAhead
  <2> QED BY <2>2 DEF Said, IsNotice, Label
<1> QED BY <1>1, <1>4, <1>5, <1>6

LEMMA AnnouncedStep ==
    ASSUME DatesGoOn, TypeOK, RestartInv, Punctual, Announced, [Next]_vars, steps' = 0
    PROVE  Announced'
<1> USE DEF time, daemon, loops, bodies, group, record, bounds
<1>0. /\ clock \in Int /\ skew \in Int /\ steps \in Nat /\ since \in Int /\ trouble \in Int
      /\ due \in [Tasks -> Int] /\ due["notice"] \in Int
      /\ cal \in Calendars /\ env \in Settings /\ Now \in Int /\ skew = 0
      /\ since <= Now /\ trouble <= Now
  BY RestartAssumption DEF TypeOK, Now, Punctual, Tasks
<1>1. CASE Tick
  <2>1. UNCHANGED <<cal, up, since, env, due, trouble, said>> /\ Now' \in Int /\ Now' >= Now
    BY <1>0, <1>1 DEF Tick, Now
  <2> QED BY <2>1, AnnouncedStays
<1>2. CASE ClockSet
  BY <1>0, <1>2 DEF ClockSet
<1>3. ASSUME NEW s \in Settings, Start(s) PROVE Announced'
  <2>1. /\ env' = s /\ since' = Now /\ cal' = cal
        /\ due'["notice"] = NextDailyAt(cal, Label(s, "notice"), Now)
    BY <1>3 DEF Start, Tasks
  <2>2. ASSUME NEW n \in since' + 1 .. due'["notice"] - 1 PROVE Said(n)'
    <3>1. NextDailyAt(cal, Label(s, "notice"), n - 1) # n
      BY <2>1, <2>2, NoneAhead
    <3> QED BY <2>1, <3>1 DEF Said, IsNotice, Label
  <2> QED BY <2>2 DEF Announced
<1>4. CASE Exit
  BY <1>4 DEF Exit, Announced
\* Neither the announcements nor the notice's loop has to do with the step.
<1>5. ASSUME UNCHANGED <<cal, clock, skew, up, since, env, trouble, said>>,
             due'["notice"] = due["notice"]
      PROVE  Announced'
  BY <1>0, <1>5, AnnouncedStays DEF Now
<1>6. ASSUME NEW t \in Tasks, Fire(t) \/ Trigger(t) PROVE Announced'
  BY <1>5, <1>6 DEF Fire, Trigger
\* A notice failed, or was skipped, just now.
<1>7. ASSUME Rearm("notice"), UNCHANGED <<cal, clock, skew, up, since, env>>, trouble' = Now
      PROVE  Announced'
  <2>1. \A n \in since + 1 .. Now : Said(n)'
    BY <1>0, <1>7 DEF Said
  <2> QED BY <1>0, <1>7, <2>1, AnnouncedRearmed
<1>8. ASSUME NEW t \in Tasks, Overlap(t) PROVE Announced'
  <2>1. /\ Rearm(t) /\ UNCHANGED <<cal, clock, skew, up, since, env, said>>
        /\ trouble' = IF t = "notice" THEN Now ELSE trouble
    BY <1>8 DEF Overlap
  <2>2. CASE t = "notice"
    BY <1>7, <2>1, <2>2
  <2>3. CASE t # "notice"
    <3>1. due'["notice"] = due["notice"]
      BY <1>0, <2>1, <2>3, Rearmed DEF Tasks
    <3> QED BY <1>5, <2>1, <2>3, <3>1
  <2> QED BY <2>2, <2>3
\* A restart returns, or a notice sent by hand.
<1>9. ASSUME NEW t \in Tasks, End(t), UNCHANGED <<cal, clock, skew, up, since, env, trouble, said>>,
             t = "notice" => by[t] = "manual"
      PROVE  Announced'
  <2>1. due'["notice"] = due["notice"]
    BY <1>0, <1>9, Rearmed DEF End, Tasks
  <2> QED BY <1>5, <1>9, <2>1
<1>10. CASE NoticeRejected
  BY <1>9, <1>10 DEF NoticeRejected, Tasks
<1>11. ASSUME NEW lead \in ManualLeads \cup {NoLead}, Target(lead) PROVE Announced'
  BY <1>5, <1>11 DEF Target
<1>12. CASE Publish
  <2>1. /\ pc["notice"] = "publish" /\ End("notice")
        /\ said' = {s \in said : s.target >= Now} \cup {[target |-> target, at |-> Now]}
        /\ UNCHANGED <<cal, clock, skew, up, since, env, trouble>>
    BY <1>12 DEF Publish
  <2>2. Now' = Now
    BY <2>1 DEF Now
  <2>3. ASSUME NEW n \in Int, Said(n) PROVE Said(n)'
    BY <1>0, <2>1, <2>2, <2>3, SaidStays
  <2>4. CASE by["notice"] = "manual"
    <3>1. UNCHANGED due
      BY <2>1, <2>4 DEF End
    <3> QED BY <1>0, <2>1, <2>3, <3>1 DEF Announced
  <2>5. CASE by["notice"] = "loop"
    <3>1. Rearm("notice")
      BY <2>1, <2>5 DEF End
    <3>2. Now = due["notice"] /\ target = NextDailyAt(cal, env.at, Now) /\ env.enabled /\ up
      BY <2>1, <2>5 DEF Punctual, Tasks, TypeOK
    <3>3. ASSUME NEW n \in since + 1 .. Now PROVE Said(n)'
      <4>1. CASE n = Now
        <5>1. NextDailyAt(cal, env.at, n)' = target
          BY <2>1, <3>2, <4>1
        <5>2. [target |-> target, at |-> Now] \in said'
          BY <2>1
        <5> QED BY <2>1, <5>1, <5>2 DEF Said
      <4>2. CASE n # Now
        <5>1. n \in since + 1 .. due["notice"] - 1 /\ n \in Int
          BY <1>0, <3>2, <4>2
        <5> QED BY <2>3, <3>2, <5>1 DEF Announced
      <4> QED BY <4>1, <4>2
    <3> QED BY <1>0, <2>1, <3>1, <3>3, AnnouncedRearmed
  <2>6. by["notice"] \in {"loop", "manual"}
    BY <2>1 DEF End
  <2> QED BY <2>4, <2>5, <2>6
<1>13. CASE PublishFails
  <2>1. /\ End("notice") /\ trouble' = Now
        /\ UNCHANGED <<cal, clock, skew, up, since, env, said>>
    BY <1>13 DEF PublishFails
  <2>2. CASE by["notice"] = "loop"
    BY <1>7, <2>1, <2>2 DEF End
  <2>3. CASE by["notice"] = "manual"
    <3>1. UNCHANGED due
      BY <2>1, <2>3 DEF End
    <3>2. ASSUME NEW n \in Int, Said(n) PROVE Said(n)'
      BY <1>0, <2>1, <3>2, SaidStays DEF Now
    <3> QED BY <1>0, <2>1, <3>1, <3>2 DEF Announced
  <2> QED BY <2>1, <2>2, <2>3 DEF End
<1>14. CASE LeaveStopped \/ WaitTimesOut \/ RestartFails \/ Ready
  BY <1>9, <1>14 DEF LeaveStopped, WaitTimesOut, RestartFails, Ready, Tasks
<1>15. CASE Discover \/ Proceed \/ VendorStop \/ VendorStart
  BY <1>5, <1>15 DEF Discover, Proceed, VendorStop, VendorStart
<1>16. CASE OperatorStops \/ OperatorStarts \/ UNCHANGED vars
  BY <1>5, <1>16 DEF OperatorStops, OperatorStarts, vars
<1> QED
  BY <1>1, <1>2, <1>3, <1>4, <1>6, <1>8, <1>10, <1>11, <1>12, <1>13, <1>14, <1>15, <1>16
  DEF Next, Notice, Restart

LEMMA AnnouncedInvariant ==
    ASSUME DatesGoOn
    PROVE  Spec => []AnnouncedInv
<1>1. Init => AnnouncedInv
  BY DEF Init, AnnouncedInv, Announced, Punctual, Asleep, Now, Tasks
<1>2. TypeOK /\ RestartInv /\ AnnouncedInv /\ [Next]_vars => AnnouncedInv'
  <2> SUFFICES ASSUME TypeOK, RestartInv, AnnouncedInv, [Next]_vars, steps' = 0
               PROVE  Punctual' /\ Announced'
    BY DEF AnnouncedInv
  <2>1. steps' = steps \/ steps' = steps + 1
    <3> USE DEF time, daemon, loops, bodies, group, record, bounds
    <3>1. CASE Tick \/ ClockSet \/ Exit
      BY <3>1 DEF Tick, ClockSet, Exit
    <3>2. CASE \E s \in Settings : Start(s)
      BY <3>2 DEF Start
    <3>3. CASE \E t \in Tasks : Fire(t) \/ Overlap(t) \/ Trigger(t)
      BY <3>3 DEF Fire, Overlap, Trigger
    <3>4. CASE Notice
      BY <3>4 DEF Notice, NoticeRejected, Target, Publish, PublishFails
    <3>5. CASE Restart
      BY <3>5 DEF Restart, Discover, LeaveStopped, Proceed, VendorStop, VendorStart, WaitTimesOut,
         RestartFails
    <3>6. CASE Ready \/ OperatorStops \/ OperatorStarts \/ UNCHANGED vars
      BY <3>6 DEF Ready, OperatorStops, OperatorStarts, vars
    <3> QED BY <3>1, <3>2, <3>3, <3>4, <3>5, <3>6 DEF Next
  <2>2. steps = 0
    BY <2>1 DEF TypeOK
  <2>3. Punctual /\ Announced
    BY <2>2 DEF AnnouncedInv
  <2> QED BY <2>3, PunctualStep, AnnouncedStep
<1> QED BY <1>1, <1>2, TypeInvariant, RestartInvariant, PTL DEF Spec

\* Every scheduled restart was announced for its very instant, as long as nobody
\* sets the wall clock and the clocks never go back to an earlier date: if the
\* daemon was up at one of its notices and that notice was sent, players were
\* told the time at which it takes place.
THEOREM RestartsAreAnnouncedHolds ==
    ASSUME DatesGoOn
    PROVE  Spec => RestartsAreAnnounced
<1> DEFINE A == RestartsNow /\ steps = 0
                => LET x == due["restart"]
                   IN  (\E n \in NoticesFor(x) : n > since /\ n > trouble)
                         => \E s \in said : s.target = x
<1>1. TypeOK /\ AnnouncedInv => A
  <2> SUFFICES ASSUME TypeOK, AnnouncedInv, RestartsNow, steps = 0,
                      NEW n \in NoticesFor(due["restart"]), n > since, n > trouble
               PROVE  \E s \in said : s.target = due["restart"]
    OBVIOUS
  <2>1. /\ due["restart"] \in Int /\ due["notice"] \in Int /\ since \in Int /\ Now \in Int
    BY DEF TypeOK, Tasks, Now
  <2>2. Punctual /\ Announced
    BY DEF AnnouncedInv
  <2>3. Now = due["restart"] /\ up /\ env.enabled
    BY <2>2 DEF Punctual, RestartsNow, TypeOK, Tasks
  <2>4. /\ n \in Int /\ n < Now /\ IsNotice(n)
        /\ NextDailyAt(cal, env.at, n) = due["restart"]
    BY <2>1, <2>3 DEF NoticesFor, IsNotice
  <2>5. Now <= due["notice"]
    BY <2>1, <2>2, <2>3 DEF Punctual, Asleep, Tasks
  <2>6. n \in since + 1 .. due["notice"] - 1
    BY <2>1, <2>4, <2>5
  <2>7. Said(n)
    BY <2>2, <2>3, <2>6 DEF Announced
  <2> QED BY <2>1, <2>3, <2>4, <2>7 DEF Said
<1> QED BY <1>1, AnnouncedInvariant, TypeInvariant, PTL DEF RestartsAreAnnounced
=============================================================================
