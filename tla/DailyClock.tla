----------------------------- MODULE DailyClock -----------------------------
(***************************************************************************)
(* Wall-clock times of day and the instants at which they occur.  An       *)
(* instant is a number; a calendar says from which instant on the local    *)
(* clocks are shifted and by how much (daylight saving time, forward or    *)
(* back), so that a local time may occur once, twice or not at all.        *)
(***************************************************************************)
EXTENDS Integers

CONSTANTS
    Day,          \* the units of a local day
    Calendars     \* the calendars considered: [change, shift]

\* Clocks are shifted by a day at most, and no local date from instant 0 on is
\* negative.
ASSUME ClockAssumption ==
    /\ Day \in Nat \ {0}
    /\ \A cal \in Calendars :
        cal.change \in Nat /\ cal.shift \in -Day .. Day /\ cal.change + cal.shift >= 0

Labels == 0..(Day - 1)

Local(cal, u) == IF u < cal.change THEN u ELSE u + cal.shift
DateOf(cal, u) == Local(cal, u) \div Day

\* Clocks that go back never go back to an earlier date: no date comes twice.
GoesOn(cal) == DateOf(cal, cal.change - 1) <= DateOf(cal, cal.change)
DatesGoOn == \A cal \in Calendars : GoesOn(cal)

\* The instants at which the local clock shows time t on date d.
LocalResult(cal, d, t) ==
    LET label == d * Day + t
    IN  {u \in {label, label - cal.shift} : Local(cal, u) = label}

\* What a plain search for the next time t does: the first that comes.
FirstInstantAt(cal, t, now) ==
    CHOOSE u \in now + 1 .. now + 3 * Day :
        /\ Local(cal, u) % Day = t
        /\ \A v \in now + 1 .. u - 1 : Local(cal, v) % Day # t

\* Only the date is looked up; the instant may be past.
AtOnThisDate(cal, t, now) ==
    LET s == LocalResult(cal, DateOf(cal, now), t)
    IN  IF s = {} THEN now + Day ELSE CHOOSE u \in s : \A v \in s : v <= u

\* The latest instant of t on date d, or none in the gap.
BuildTarget(cal, d, t) ==
    LET instants == LocalResult(cal, d, t)
    IN  {u \in instants : \A v \in instants : v <= u}

\* The dates, from now's on, whose target is still ahead.
DatesAhead(cal, t, now) ==
    {d \in DateOf(cal, now) .. DateOf(cal, now) + 13 : \E u \in BuildTarget(cal, d, t) : u > now}

\* The target on the first such date.
NextDailyAt(cal, t, now) ==
    LET dates == DatesAhead(cal, t, now)
        first == CHOOSE d \in dates : \A e \in dates : d <= e
    IN  IF dates = {} THEN now + Day ELSE CHOOSE u \in BuildTarget(cal, first, t) : TRUE
=============================================================================
