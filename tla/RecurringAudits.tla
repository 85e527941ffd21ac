-------------------------- MODULE RecurringAudits --------------------------
(***************************************************************************)
(* What a recurring audit promises to whoever asks for one, without        *)
(* passes, transactions, keys, quotas or jobs.  A schedule is for certain  *)
(* days, counted from the one it was created on.  They are served one      *)
(* after the other, each once and none before its time; serving may come   *)
(* as late as it likes.  Only a schedule that is due is switched off, if   *)
(* the organization's plan did not include scheduled audits on some day    *)
(* since then, and then it is over.                                        *)
(***************************************************************************)
EXTENDS ScheduleTime

CONSTANTS Schedules, FrequencyOf, Days

VARIABLES clock,     \* the day
          entitled,  \* whether the plan of a day includes scheduled audits,
                     \* by the subscriptions as they are
          mode,      \* "none", "on" or "off", by schedule
          since,     \* the day it was created on
          served,    \* how many of its days have been served
          audits     \* the audits: <<schedule, day it is for, day>>

recurringVars == <<clock, entitled, mode, since, served, audits>>

DayServed(s, n) == NthAfter(FrequencyOf[s], since[s], n)
Awaited(s)      == DayServed(s, served[s] + 1)

(* Some schedules have just been created when it begins.                   *)
RecurringInit ==
    /\ mode \in [Schedules -> {"none", "on"}]
    /\ since = [s \in Schedules |-> IF mode[s] = "on" THEN clock ELSE 0]
    /\ served = [s \in Schedules |-> 0]
    /\ audits = {}

SwitchOn(s) ==
    /\ mode[s] = "none"
    /\ mode' = [mode EXCEPT ![s] = "on"]
    /\ since' = [since EXCEPT ![s] = clock]
    /\ UNCHANGED <<clock, entitled, served, audits>>

Audit(s) ==
    /\ mode[s] = "on"
    /\ Awaited(s) <= clock
    /\ served' = [served EXCEPT ![s] = @ + 1]
    /\ audits' = audits \cup {<<s, Awaited(s), clock>>}
    /\ UNCHANGED <<clock, entitled, mode, since>>

SwitchOff(s) ==
    /\ mode[s] = "on"
    /\ Awaited(s) <= clock
    /\ \E day \in Days : Awaited(s) <= day /\ day <= clock /\ ~entitled[day]
    /\ mode' = [mode EXCEPT ![s] = "off"]
    /\ UNCHANGED <<clock, entitled, since, served, audits>>

(* Time passes, subscriptions begin and end.                               *)
Elsewhere ==
    /\ clock' >= clock
    /\ UNCHANGED <<mode, since, served, audits>>

RecurringNext ==
    \/ Elsewhere
    \/ \E s \in Schedules : SwitchOn(s) \/ Audit(s) \/ SwitchOff(s)

RecurringSpec == RecurringInit /\ [][RecurringNext]_recurringVars
=============================================================================
