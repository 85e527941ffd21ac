-------------------------- MODULE ScheduledAudits --------------------------
(***************************************************************************)
(* Recurring audits: src/lib/scheduled-audit-runner.ts, the script that    *)
(* runs it and the route that creates schedules                            *)
(* (src/app/api/projects/[projectId]/schedule), on top of AuditEnqueue.    *)
(*                                                                         *)
(* A pass takes the due schedules one by one, each in a transaction of its *)
(* own.  Selecting one locks its row (FOR UPDATE SKIP LOCKED), so that a   *)
(* concurrent pass goes on to the next one; what the transaction does to   *)
(* it is the step in which it commits.  "now" is the same for all of a     *)
(* pass, however long it takes.                                            *)
(***************************************************************************)
EXTENDS AuditEnqueue

CONSTANTS
    Schedules,     \* identities of the schedules that may be created
    ScheduleFor,   \* the project and the frequency of each
    FirstOnes,     \* those that were created before it begins, on FirstDay
    Passes,        \* processes that run due schedules at a time
    MaxSchedules,  \* schedules a pass takes
    NoSchedule,
    FailBound      \* bound: transactions that fail, passes that are killed

ASSUME ScheduleAssumption ==
    /\ ScheduleFor \in [Schedules -> [project : {s.project : s \in Submissions},
                                      frequency : Frequencies]]
    /\ FirstOnes \subseteq Schedules
    /\ NoSchedule \notin Schedules
ASSUME KeyAssumption == \A sub \in Submissions : sub.key[1] # "SCHEDULED_AUDIT"
ASSUME PassAssumption == MaxSchedules \in Nat \ {0} /\ FailBound \in Nat

VARIABLES
    schedule,  \* table "ScheduledAudit"
    pass,      \* where each pass is
    failures   \* failed transactions and killed passes

vars == <<enqueueVars, schedule, pass, failures>>

(* "checked": a request has passed the checks and not yet created the row. *)
ScheduleStates == {"absent", "checked", "enabled", "disabled"}

NoRow == [state |-> "absent", created |-> 0, next |-> 0]

NewRow(s, day) == [state |-> "enabled", created |-> day,
                   next |-> FirstScheduledRun(ScheduleFor[s].frequency, day)]

AtRest == [now |-> 0, left |-> 0, excluded |-> {}, holds |-> NoSchedule]

Init ==
    /\ EnqueueInit
    /\ schedule = [s \in Schedules |->
                     IF s \in FirstOnes THEN NewRow(s, FirstDay) ELSE NoRow]
    /\ pass = [p \in Passes |-> AtRest]
    /\ failures = 0

-----------------------------------------------------------------------------
(* The route that creates a schedule: three calls, of which the last one   *)
(* does not know what happened since the others.                           *)

Enabled(s) == schedule[s].state = "enabled"

CheckSchedule(s) ==
    /\ schedule[s].state = "absent"
    /\ Entitled(today)
    /\ \A t \in Schedules : ScheduleFor[t] = ScheduleFor[s] => ~Enabled(t)
    /\ schedule' = [schedule EXCEPT ![s].state = "checked"]
    /\ UNCHANGED <<enqueueVars, pass, failures>>

CreateSchedule(s) ==
    /\ schedule[s].state = "checked"
    /\ schedule' = [schedule EXCEPT ![s] = NewRow(s, today)]
    /\ UNCHANGED <<enqueueVars, pass, failures>>

-----------------------------------------------------------------------------
(* A pass.                                                                 *)

Working(p)  == pass[p].now # 0
Between(p)  == Working(p) /\ pass[p].holds = NoSchedule

Due(s, now) == Enabled(s) /\ schedule[s].next <= now

(* A pass that finds nothing changes nothing, and is not shown.            *)
StartPass(p) ==
    /\ ~Working(p)
    /\ \E s \in Schedules : Due(s, today)
    /\ pass' = [pass EXCEPT ![p] = [now |-> today, left |-> MaxSchedules,
                                    excluded |-> {}, holds |-> NoSchedule]]
    /\ UNCHANGED <<enqueueVars, schedule, failures>>

(* Mutant of Claimable: without the lock.                                  *)
ClaimableUnlocked(p) == {s \in Schedules : /\ Due(s, pass[p].now)
                                           /\ s \notin pass[p].excluded}

Claimable(p) == {s \in Schedules : /\ Due(s, pass[p].now)
                                   /\ s \notin pass[p].excluded
                                   /\ \A o \in Passes : pass[o].holds # s}

NotAfter(s, t) ==
    \/ schedule[s].next < schedule[t].next
    \/ schedule[s].next = schedule[t].next /\ schedule[s].created <= schedule[t].created

ClaimOne(p) ==
    /\ Between(p)
    /\ pass[p].left > 0
    /\ \E s \in Claimable(p) :
          /\ \A t \in Claimable(p) : NotAfter(s, t)
          /\ pass' = [pass EXCEPT ![p].holds = s]
    /\ UNCHANGED <<enqueueVars, schedule, failures>>

EndPass(p) ==
    /\ Between(p)
    /\ pass[p].left = 0 \/ Claimable(p) = {}
    /\ pass' = [pass EXCEPT ![p] = AtRest]
    /\ UNCHANGED <<enqueueVars, schedule, failures>>

(* Whatever comes of it, the pass does not look at the schedule again.     *)
GoOn(p) == pass' = [pass EXCEPT ![p] =
    [now |-> pass[p].now, left |-> pass[p].left - 1,
     excluded |-> pass[p].excluded \cup {pass[p].holds}, holds |-> NoSchedule]]

(* Mutants of ActiveRun: only runs of the schedule itself; any run.        *)
ActiveRunOfItsOwn(s) == \E n \in DOMAIN runs : /\ runs[n].key[2] = s
                                               /\ n \in ActiveRuns
AnyRun(s) == \E n \in DOMAIN runs : runs[n].project = ScheduleFor[s].project

ActiveRun(s) == \E n \in ActiveRuns : runs[n].project = ScheduleFor[s].project

(* The submission of an occurrence: its key is the schedule and the day.   *)
Occurrence(s) == [project |-> ScheduleFor[s].project,
                  key |-> IdempotencyKey("SCHEDULED_AUDIT", s, schedule[s].next)]

(* The plan for the "now" of the pass, as of this transaction, is not one  *)
(* with scheduled audits: the free one, or a starter plan that runs.       *)
DisableSchedule(p) ==
    LET s == pass[p].holds IN
    /\ s # NoSchedule
    /\ ~Entitled(pass[p].now)
    /\ schedule' = [schedule EXCEPT ![s].state = "disabled"]
    /\ GoOn(p)
    /\ UNCHANGED <<enqueueVars, failures>>

(* Skipped for an overlap or for the quota: the schedule stays due.        *)
SkipSchedule(p) ==
    LET s     == pass[p].holds
        now   == pass[p].now
        limit == MonthlyAuditLimit(now)
    IN
    /\ s # NoSchedule
    /\ Entitled(now)
    /\ ActiveRun(s) \/ Refused(Occurrence(s), limit, now)
    /\ GoOn(p)
    /\ UNCHANGED <<enqueueVars, schedule, failures>>

Advanced(s) == NextScheduledRun(ScheduleFor[s].frequency, schedule[s].next,
                                schedule[s].created)

EnqueueOccurrence(p) ==
    LET s     == pass[p].holds
        now   == pass[p].now
        limit == MonthlyAuditLimit(now)
    IN
    /\ s # NoSchedule
    /\ Entitled(now)
    /\ ~ActiveRun(s)
    /\ ~Refused(Occurrence(s), limit, now)
    /\ Enqueue(Occurrence(s), limit, now)
    /\ schedule' = [schedule EXCEPT ![s].next = Advanced(s)]
    /\ GoOn(p)
    /\ UNCHANGED <<today, subs, request, failures>>

(* recordProcessingFailure: only an event is written.                      *)
ProcessingFails(p) ==
    /\ pass[p].holds # NoSchedule
    /\ failures < FailBound
    /\ failures' = failures + 1
    /\ GoOn(p)
    /\ UNCHANGED <<enqueueVars, schedule>>

(* Killed, or an error while selecting or recording a failure; the         *)
(* transaction under way is rolled back.                                   *)
PassDies(p) ==
    /\ Working(p)
    /\ failures < FailBound
    /\ failures' = failures + 1
    /\ pass' = [pass EXCEPT ![p] = AtRest]
    /\ UNCHANGED <<enqueueVars, schedule>>

PassStep(p) ==
    \/ ClaimOne(p)
    \/ EndPass(p)
    \/ DisableSchedule(p)
    \/ SkipSchedule(p)
    \/ EnqueueOccurrence(p)

Next ==
    \/ EnqueueStep /\ UNCHANGED <<schedule, pass, failures>>
    \/ \E s \in Schedules : CheckSchedule(s) \/ CreateSchedule(s)
    \/ \E p \in Passes : StartPass(p) \/ PassStep(p) \/ ProcessingFails(p) \/ PassDies(p)

Spec == Init /\ [][Next]_vars

(* The script is run again and again, passes go on, and workers finish     *)
(* their jobs.                                                             *)
Fairness ==
    /\ \A p \in Passes : WF_vars(StartPass(p) \/ PassStep(p))
    /\ WF_vars(/\ \E n \in DOMAIN runs : JobEnds(n)
               /\ UNCHANGED <<schedule, pass, failures>>)

FairSpec == Spec /\ Fairness

-----------------------------------------------------------------------------
(* Properties.                                                             *)

(* Type invariant; a job has a day of its end exactly when it has ended.   *)
TypeOK ==
    /\ today \in Days
    /\ subs \in Seq(SubRows)
    /\ \A n \in DOMAIN runs :
          /\ runs[n].status \in RunStatuses
          /\ runs[n].job \in JobStates
          /\ runs[n].day \in Days
          /\ runs[n].finishedOn \in Days \cup {0}
          /\ runs[n].job = "active" <=> runs[n].finishedOn = 0
    /\ \A q \in Clients : request[q].at \in {"idle", "submit"}
    /\ schedule \in [Schedules -> [state : ScheduleStates, created : Days \cup {0},
                                   next : Nat]]
    /\ pass \in [Passes -> [now : Days \cup {0}, left : 0 .. MaxSchedules,
                            excluded : SUBSET Schedules,
                            holds : Schedules \cup {NoSchedule}]]
    /\ failures \in 0 .. FailBound

RunsOf(s) == {n \in DOMAIN runs : /\ runs[n].key[1] = "SCHEDULED_AUDIT"
                                  /\ runs[n].key[2] = s}
Created(s) == schedule[s].state \in {"enabled", "disabled"}

NthOccurrence(s, n) == NthAfter(ScheduleFor[s].frequency, schedule[s].created, n)

(* Every occurrence is audited once, in order and never before its day:    *)
(* however passes, failures, skips and backlogs come together, the n-th    *)
(* run of a schedule is for its occurrence n, and with n runs it waits for *)
(* occurrence n + 1.                                                       *)
RunsUpTo(s, n) == {m \in RunsOf(s) : m <= n}

OccurrencesOnce ==
    \A s \in Schedules : Created(s) =>
       /\ schedule[s].next = NthOccurrence(s, Cardinality(RunsOf(s)) + 1)
       /\ \A n \in RunsOf(s) :
             /\ runs[n].key[3] = NthOccurrence(s, Cardinality(RunsUpTo(s, n)))
             /\ runs[n].key[3] <= runs[n].day

(* A scheduled audit is never under way next to an earlier run of its      *)
(* project, be it of another schedule or asked for by a client.  The one   *)
(* exception is a run that counted as FAILED when the audit was submitted  *)
(* and whose job was to be attempted again.                                *)
NoOverlapUnlessRetried ==
    \A m, n \in DOMAIN runs :
       (/\ m < n
        /\ runs[m].project = runs[n].project
        /\ runs[n].key[1] = "SCHEDULED_AUDIT") => runs[m].status # "active"

(* A schedule that is due is run or disabled in the end, unless its        *)
(* project has a run that does not end or the quota is used up.  This      *)
(* needs passes that take at least as many schedules as can be blocked.    *)
Blocked(s) ==
    \/ \E n \in Stuck : runs[n].project = ScheduleFor[s].project
    \/ Refused(Occurrence(s), MonthlyAuditLimit(today), today)

DueServed ==
    \A s \in Schedules : []<>(~Due(s, today) \/ Blocked(s))

(* Schedules and passes implement RecurringAudits.                         *)
ModeOf(state) ==
    CASE state \in {"absent", "checked"} -> "none"
      [] state = "enabled"               -> "on"
      [] state = "disabled"              -> "off"

Recurring == INSTANCE RecurringAudits WITH
    FrequencyOf <- [s \in Schedules |-> ScheduleFor[s].frequency],
    clock    <- today,
    entitled <- [day \in Days |-> Entitled(day)],
    mode     <- [s \in Schedules |-> ModeOf(schedule[s].state)],
    since    <- [s \in Schedules |-> schedule[s].created],
    served   <- [s \in Schedules |-> Cardinality(RunsOf(s))],
    audits   <- {<<runs[n].key[2], runs[n].key[3], runs[n].day>> :
                    n \in UNION {RunsOf(s) : s \in Schedules}}

(* Every step is one of RecurringAudits: whatever passes, failures and     *)
(* clients do, an occurrence is audited when it is the next one of a       *)
(* schedule that is switched on, and a schedule is switched off only when  *)
(* it is due and the plan of a day on which it was due, by the             *)
(* subscriptions as they are now, does not include scheduled audits.       *)
ImplementsRecurringAudits == Recurring!RecurringSpec
=============================================================================
