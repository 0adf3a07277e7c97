--------------------------- MODULE MCDailyRestart ---------------------------
(* DailyRestart on a day of four units, for TLC: on the second date the     *)
(* clocks go forward or back at time 1.                                     *)
EXTENDS DailyRestart

MCCalendars == {[change |-> 5, shift |-> 1], [change |-> 6, shift |-> -1]}

On(label, lead) == [enabled |-> TRUE, at |-> label, lead |-> lead]

\* A lead over midnight, one of more than a day, one of a day; no restarts.
MCSettings == {On(1, 2), On(2, 5), On(0, 4), [enabled |-> FALSE, at |-> 3, lead |-> 1]}

\* The clocks go forward at time 1 of the third date, when the notice is due.
MCLateChange == {[change |-> 9, shift |-> 1]}
MCShortLead == {On(3, 2)}

\* The clocks go back from time 1 of the second date to time 2 of the first.
MCDateTwice == {[change |-> 5, shift |-> -3]}

\* None of the others has a date that comes twice.
ASSUME \A cal_ \in MCCalendars \cup MCLateChange : GoesOn(cal_)
=============================================================================
