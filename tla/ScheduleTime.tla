---------------------------- MODULE ScheduleTime ----------------------------
(***************************************************************************)
(* Calendar arithmetic: src/lib/schedule-time.ts, the month of a           *)
(* subscription (src/lib/subscription.ts) and of a quota                   *)
(* (src/lib/audit-enqueue.ts).  Days are counted from the first day of     *)
(* month 1; the time of day, which all of these functions carry along, is  *)
(* left out, and so is the distance between the server's time zone and     *)
(* UTC (quotas and subscriptions use the first, schedules the second).     *)
(***************************************************************************)
EXTENDS Integers, Sequences

CONSTANT MonthStart  \* the days before each month; the last entry closes
                     \* the last month

ASSUME CalendarAssumption ==
    /\ MonthStart \in Seq(Nat)
    /\ Len(MonthStart) > 1
    /\ MonthStart[1] = 0
    /\ \A m \in 1 .. (Len(MonthStart) - 1) :
          MonthStart[m + 1] - MonthStart[m] \in 28 .. 31
    /\ \A m, n \in 1 .. Len(MonthStart) : m <= n => MonthStart[m] <= MonthStart[n]

Months      == 1 .. (Len(MonthStart) - 1)
DaysIn(m)   == MonthStart[m + 1] - MonthStart[m]
DaysOf(m)   == (MonthStart[m] + 1) .. MonthStart[m + 1]
MonthOf(day)    == CHOOSE m \in Months : day \in DaysOf(m)
DayOfMonth(day) == day - MonthStart[MonthOf(day)]

(* The anchor's day in month m, or the last day of a shorter month.        *)
AnchoredIn(m, anchor) ==
    IF DayOfMonth(anchor) <= DaysIn(m) THEN MonthStart[m] + DayOfMonth(anchor)
                                       ELSE MonthStart[m + 1]

Frequencies == {"WEEKLY", "MONTHLY"}

(* Mutant of NextScheduledRun: the last occurrence is the next one's       *)
(* anchor.                                                                 *)
NextScheduledRunDrifting(frequency, due, anchor) ==
    IF frequency = "WEEKLY" THEN due + 7
                            ELSE AnchoredIn(MonthOf(due) + 1, due)

NextScheduledRun(frequency, due, anchor) ==
    IF frequency = "WEEKLY" THEN due + 7
                            ELSE AnchoredIn(MonthOf(due) + 1, anchor)

FirstScheduledRun(frequency, created) ==
    NextScheduledRun(frequency, created, created)

(* The days a schedule is for, by definition: every seventh day after its  *)
(* creation, or the same day of the following months (the last one of a    *)
(* month that is too short, and the same day again after it).              *)
NthAfter(frequency, created, n) ==
    IF frequency = "WEEKLY" THEN created + 7 * n
    ELSE LET m == MonthOf(created) + n IN
         MonthStart[m] + (IF DayOfMonth(created) < DaysIn(m) THEN DayOfMonth(created)
                                                             ELSE DaysIn(m))

(* setMonth(getMonth() + 1) does not stop at the end of a shorter month:   *)
(* 31 January goes to 3 March.                                             *)
OneMonthAfter(day) == MonthStart[MonthOf(day) + 1] + DayOfMonth(day)
=============================================================================
