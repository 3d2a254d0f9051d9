------------------------------- MODULE Calendar -------------------------------
(***************************************************************************)
(* When a timer is next due (Trigger::Every of src/triggers.rs, called by  *)
(* run of src/schedule.rs): next_run steps from the moment a run ends to   *)
(* the next one, by minutes, hours, days, weeks or months, on its weekday  *)
(* or its day of the month.  A calendar of CONSTANT months and scaled      *)
(* days; the scheduler may be late, and the job long.                      *)
(***************************************************************************)
EXTENDS Integers, Sequences

CONSTANTS
    Day,           \* MINUTES_PER_DAY, in ticks
    Hour,          \* an hour, in ticks; a minute is one
    MinGap,        \* MIN_GAP_MINUTES, in ticks
    MonthLengths,  \* the months of the calendar, in days
    Offered,       \* timers an operator may ask for
    Delays         \* from when a run is due to its end, in ticks

VARIABLES
    timer,  \* the trigger
    due,    \* when it next runs
    last    \* when it was due and when it ended last, or Never

vars == <<timer, due, last>>

Never == [due |-> -1, ended |-> -1]
At(at) == at % Day
DayOf(time) == time \div Day
Midnight(time) == DayOf(time) * Day
Weekday(day) == day % 7

(* The first day of each month, and the month of a day.                    *)
FirstDay[m \in 1..(Len(MonthLengths) + 1)] ==
    IF m = 1 THEN 0 ELSE FirstDay[m - 1] + MonthLengths[m - 1]
Days == FirstDay[Len(MonthLengths) + 1]
MonthOf(day) == CHOOSE m \in DOMAIN MonthLengths : FirstDay[m] <= day /\ day < FirstDay[m + 1]

Lesser(a, b) == IF a < b THEN a ELSE b

-----------------------------------------------------------------------------
(* Unit::minutes, and validate of a timer.                                 *)
Length(unit) ==
    CASE unit = "minute" -> 1
      [] unit = "hour" -> Hour
      [] unit = "day" -> Day
      [] unit = "week" -> 7 * Day
      [] unit = "month" -> 28 * Day

Valid(t) ==
    /\ t.count >= 1
    /\ t.count * Length(t.unit) >= MinGap
    /\ t.count * Length(t.unit) <= 366 * Day
    /\ t.at \in 0..(Day - 1) /\ t.weekday \in 0..6 /\ t.day \in 1..31

-----------------------------------------------------------------------------
(* next_run.                                                               *)
(* while candidate <= from { candidate += step }                           *)
NotBefore(candidate, step, from) ==  \* mutant: a run due right now is due again
    IF candidate >= from THEN candidate
    ELSE candidate + step * ((from - candidate) \div step + 1)
FirstAfter(candidate, step, from) ==
    IF candidate > from THEN candidate
    ELSE candidate + step * ((from - candidate) \div step + 1)

StepDays(t, from) == FirstAfter(Midnight(from) + t.at, t.count * Day, from)

StepWeeks(t, from) ==
    LET ahead == (t.weekday - Weekday(DayOf(from))) % 7
    IN  FirstAfter(Midnight(from) + ahead * Day + t.at, t.count * 7 * Day, from)

(* on_day clamps the day to the month it falls in.  The anchor of a later  *)
(* try is in the month count months on, whatever its own day.              *)
OnDay(month, day) == FirstDay[month] + Lesser(day, MonthLengths[month]) - 1

StepMonths(t, from) ==
    LET month == MonthOf(DayOf(from))
        Candidate(tries) == OnDay(month + tries * t.count, t.day) * Day + t.at
    IN  IF Candidate(0) > from THEN Candidate(0) ELSE Candidate(1)

NextRun(t, from) ==
    CASE t.unit \in {"minute", "hour"} -> from + t.count * Length(t.unit)
      [] t.unit = "day" -> StepDays(t, from)
      [] t.unit = "week" -> StepWeeks(t, from)
      [] t.unit = "month" -> StepMonths(t, from)

-----------------------------------------------------------------------------
(* The timer is saved, and then runs time after time until the calendar    *)
(* runs out.                                                               *)
Init ==
    /\ timer \in {t \in Offered : Valid(t)}
    /\ \E saved \in 0..(7 * Day) : due = NextRun(timer, saved)
    /\ last = Never

Run ==
    \E delay \in Delays :
        LET now == due + delay IN
        /\ now < (Days - 403) * Day  \* bound: the next run is in the calendar
        /\ last' = [due |-> due, ended |-> now]
        /\ due' = NextRun(timer, now)
        /\ UNCHANGED timer

Next == Run

Spec == Init /\ [][Next]_vars

-----------------------------------------------------------------------------
(* Everything has its type (the stored trigger and next_run_at), and a run *)
(* is never put off past the end of the calendar.                          *)
TypeOK ==
    /\ timer \in Offered
    /\ due \in 0..(Days * Day - 1)
    /\ last = Never \/ (last.due >= 0 /\ last.due <= last.ended)

DueMonth(time) == MonthOf(DayOf(time))

(* Where on the calendar a timer runs: its time of day, its weekday, its   *)
(* day of the month or the month's last.                                   *)
OnItsPlace ==
    /\ timer.unit \in {"day", "week", "month"} => At(due) = timer.at
    /\ timer.unit = "week" => Weekday(DayOf(due)) = timer.weekday
    /\ timer.unit = "month" =>
        DayOf(due) - FirstDay[DueMonth(due)] + 1
            = Lesser(timer.day, MonthLengths[DueMonth(due)])

(* A timer whose run ends on the day it was due is next due count units on. *)
OnItsStep ==
    DayOf(last.ended) = DayOf(last.due) =>
        CASE timer.unit = "day" -> DayOf(due) - DayOf(last.due) = timer.count
          [] timer.unit = "week" -> DayOf(due) - DayOf(last.due) = 7 * timer.count
          [] timer.unit = "month" -> DueMonth(due) - DueMonth(last.due) = timer.count
          [] OTHER -> due - last.ended >= MinGap

(* However long the months and however late the scheduler, a timer runs at *)
(* its place on the calendar, as a_monthly_timer_clamps_to_the_month says, *)
(* always after the run it follows, and a whole step after a run that      *)
(* ended on its day - a timer on the 31st does not drift to the 28th.      *)
RunsKeepTheirStep ==
    OnItsPlace /\ (last # Never => due > last.ended /\ OnItsStep)
=============================================================================
