---------------------------- MODULE AuditEnqueue ----------------------------
(***************************************************************************)
(* Submitting audits: src/lib/audit-enqueue.ts, behind the route of a      *)
(* project (src/app/api/projects/[projectId]/audit, which has a quota) and *)
(* the public one (src/app/api/audit/runs, which has none), and            *)
(* src/lib/cleanup.ts, which forgets old jobs and the keys in them.        *)
(*                                                                         *)
(* A run, its job and its share are inserted by one serializable           *)
(* transaction: one step.  A transaction that lost a conflict is repeated; *)
(* one that inserted a key at the same time as another one finds the       *)
(* other's.  Both come to the same as running one after the other.         *)
(*                                                                         *)
(* There is one organization.  Its subscriptions are rows of a plan and an *)
(* end; how it comes by them is in SubscriptionBilling.                    *)
(***************************************************************************)
EXTENDS ScheduleTime, FiniteSets

CONSTANTS
    Days,         \* the days that are looked at
    FirstDay,     \* the day it begins
    Plans,        \* the plans
    FreePlan,     \* the one of an organization without a subscription
    LimitOf,      \* monthlyAuditLimit of each
    Scheduling,   \* those that include scheduled audits
    FirstSubs,    \* the subscriptions on FirstDay
    Submissions,  \* what clients send: [project, key]
    NoProject,    \* the project of a public submission
    Clients,      \* requests under way at a time
    OnSale,       \* bound: the plans that are bought meanwhile
    SubBound,     \* bound: subscriptions
    StuckBound,   \* bound: runs that do not end with their job
    RetryBound    \* bound: runs that are being attempted again at a time

(* The calendar goes on for a month after the last day that is looked at.  *)
ASSUME DaysAssumption ==
    /\ Days \subseteq UNION {DaysOf(m) : m \in 1 .. (Len(MonthStart) - 2)}
    /\ FirstDay \in Days

(* Table "Subscription", as far as plans are looked up in it.              *)
SubStatuses == {"ACTIVE", "PAST_DUE"}
SubRows     == [plan : Plans, until : Nat, status : SubStatuses]

ASSUME PlanAssumption ==
    /\ FreePlan \in Plans
    /\ LimitOf \in [Plans -> Nat]
    /\ Scheduling \subseteq Plans
    /\ OnSale \subseteq Plans \ {FreePlan}
    /\ FirstSubs \in Seq(SubRows)
ASSUME BoundAssumption == StuckBound \in Nat /\ RetryBound \in Nat

VARIABLES
    today,      \* the clock of the database and of the processes
    subs,       \* table "Subscription" in the order of createdAt
    runs,       \* tables "AuditRun" and "Job", in the order of createdAt
    request     \* where each request is

enqueueVars == <<today, subs, runs, request>>

(* "active" and "retried" stand for QUEUED and RUNNING, "attempted" and    *)
(* "settled" for SUCCEEDED and FAILED: a run whose attempt has failed is   *)
(* FAILED until its job, which is not done, is attempted again.  The job   *)
(* is active, finished (on a day), or deleted by the clean-up.  "limit" is *)
(* history: the limit the submission was held to, if any.                  *)
RunStatuses == {"active", "attempted", "retried", "settled"}
JobStates   == {"active", "finished", "deleted"}
NoLimit     == -1

NewRun(sub, limit) ==
    [day |-> today, project |-> sub.project, key |-> sub.key, limit |-> limit,
     status |-> "active", job |-> "active", finishedOn |-> 0]

(* buildAuditIdempotencyKey: keys of different sources and scopes differ.  *)
IdempotencyKey(source, scope, rawKey) == <<source, scope, rawKey>>

NoSubmission == [project |-> NoProject, key |-> <<>>]
Idle         == [at |-> "idle", sub |-> NoSubmission, limit |-> NoLimit]

EnqueueInit ==
    /\ today = FirstDay
    /\ subs = FirstSubs
    /\ runs = <<>>
    /\ request = [q \in Clients |-> Idle]

-----------------------------------------------------------------------------
(* The plan for the moment "now": that of the newest active subscription   *)
(* that has not ended by then.                                             *)

InForce(n, now) == subs[n].status = "ACTIVE" /\ subs[n].until > now

Newest(n, now) == /\ InForce(n, now)
                  /\ \A m \in DOMAIN subs : InForce(m, now) => m <= n

SubscriptionPlan(now) ==
    IF \E n \in DOMAIN subs : Newest(n, now)
    THEN subs[CHOOSE n \in DOMAIN subs : Newest(n, now)].plan
    ELSE FreePlan

(* plan.scheduledAudits and plan.monthlyAuditLimit.                        *)
Entitled(now)          == SubscriptionPlan(now) \in Scheduling
MonthlyAuditLimit(now) == LimitOf[SubscriptionPlan(now)]

(* A plan is bought, a cheaper or a dearer one while another runs as well. *)
Subscribe ==
    /\ Len(subs) < SubBound
    /\ \E plan \in OnSale :
          subs' = Append(subs, [plan |-> plan, until |-> OneMonthAfter(today),
                                status |-> "ACTIVE"])
    /\ UNCHANGED <<today, runs, request>>

(* expire-subscriptions.ts.  (The rows it cancels later are past due.)     *)
ExpireSubscriptions ==
    /\ \E n \in DOMAIN subs : subs[n].status = "ACTIVE" /\ subs[n].until < today
    /\ subs' = [n \in DOMAIN subs |->
                   [plan |-> subs[n].plan, until |-> subs[n].until,
                    status |-> IF subs[n].until < today THEN "PAST_DUE"
                                                        ELSE subs[n].status]]
    /\ UNCHANGED <<today, runs, request>>

-----------------------------------------------------------------------------
(* The transaction.                                                        *)

(* Mutant of Remembered: only in jobs that are not done.                   *)
RememberedWhileActive(key) ==
    \E n \in DOMAIN runs : runs[n].key = key /\ runs[n].job = "active"

(* findExistingEnqueue: the key is looked for in the jobs.                 *)
Remembered(key) ==
    \E n \in DOMAIN runs : runs[n].key = key /\ runs[n].job # "deleted"

(* The organization's runs since the first day of the month of "now".      *)
UsedSince(now) == {n \in DOMAIN runs : /\ runs[n].project # NoProject
                                       /\ runs[n].day > MonthStart[MonthOf(now)]}

(* Mutant of LimitReached: one run too many.                               *)
LimitExceeded(sub, limit, now) ==
    sub.project # NoProject /\ Cardinality(UsedSince(now)) > limit

LimitReached(sub, limit, now) ==
    sub.project # NoProject /\ Cardinality(UsedSince(now)) >= limit

Refused(sub, limit, now) == ~Remembered(sub.key) /\ LimitReached(sub, limit, now)

(* createInTransaction.  Returning the run of the key, refusing a key that *)
(* came with other contents, and refusing for the limit all leave the      *)
(* tables alone.                                                           *)
Enqueue(sub, limit, now) ==
    runs' = IF Remembered(sub.key) \/ LimitReached(sub, limit, now)
            THEN runs ELSE Append(runs, NewRun(sub, limit))

-----------------------------------------------------------------------------
(* A request.  The route reads the plan before the transaction.            *)

AskForAudit(q, sub) ==
    /\ request[q].at = "idle"
    /\ request' = [request EXCEPT ![q] =
          [at |-> "submit", sub |-> sub,
           limit |-> IF sub.project = NoProject THEN NoLimit
                                                ELSE MonthlyAuditLimit(today)]]
    /\ UNCHANGED <<today, subs, runs>>

EnqueueAuditAtomically(q) ==
    /\ request[q].at = "submit"
    /\ Enqueue(request[q].sub, request[q].limit, today)
    /\ request' = [request EXCEPT ![q] = Idle]
    /\ UNCHANGED <<today, subs>>

(* Every attempt failed, or the process ended: nothing was inserted.  (An  *)
(* answer lost after the transaction is EnqueueAuditAtomically; in both    *)
(* cases the client may ask again with the same key.)                      *)
RequestFails(q) ==
    /\ request[q].at = "submit"
    /\ request' = [request EXCEPT ![q] = Idle]
    /\ UNCHANGED <<today, subs, runs>>

-----------------------------------------------------------------------------
(* The rest of the system, as far as submissions depend on it.             *)

ActiveRuns == {n \in DOMAIN runs : runs[n].status \in {"active", "retried"}}
Stuck      == {n \in ActiveRuns : runs[n].job # "active"}
InRetry    == {n \in DOMAIN runs : runs[n].status \in {"attempted", "retried"}}

Rewritten(run, status, job, finishedOn) ==
    [day |-> run.day, project |-> run.project, key |-> run.key, limit |-> run.limit,
     status |-> status, job |-> job, finishedOn |-> finishedOn]

RunBecomes(n, status) ==
    /\ runs' = [runs EXCEPT ![n] =
                   Rewritten(runs[n], status, runs[n].job, runs[n].finishedOn)]
    /\ UNCHANGED <<today, subs, request>>

(* A job has several attempts; each but the last one may end like this.    *)
AttemptEnds(n) ==
    /\ n \in ActiveRuns
    /\ runs[n].job = "active"
    /\ runs[n].status = "active" => Cardinality(InRetry) < RetryBound
    /\ RunBecomes(n, "attempted")

NextAttempt(n) ==
    /\ n \in DOMAIN runs
    /\ runs[n].job = "active" /\ runs[n].status = "attempted"
    /\ RunBecomes(n, "retried")

(* The worker is done with a job.  It may leave the run as it is, see      *)
(* RunsSettleUnlessDisturbed of AuditWorker.                               *)
JobEnds(n) ==
    /\ n \in DOMAIN runs
    /\ runs[n].job = "active"
    /\ \E status \in {"settled", runs[n].status} :
          /\ status # "settled" => n \in ActiveRuns /\ Cardinality(Stuck) < StuckBound
          /\ runs' = [runs EXCEPT ![n] = Rewritten(runs[n], status, "finished", today)]
    /\ UNCHANGED <<today, subs, request>>

(* cleanupStaleJobs: finished more than seven days ago.                    *)
CleanupAge == 7
Stale(run) == run.job = "finished" /\ run.finishedOn < today - CleanupAge

CleanupStaleJobs ==
    /\ \E n \in DOMAIN runs : Stale(runs[n])
    /\ runs' = [n \in DOMAIN runs |->
                   IF Stale(runs[n])
                   THEN Rewritten(runs[n], runs[n].status, "deleted", runs[n].finishedOn)
                   ELSE runs[n]]
    /\ UNCHANGED <<today, subs, request>>

DayPasses ==
    /\ \E day \in Days : day > today /\ today' = day
    /\ UNCHANGED <<subs, runs, request>>

EnqueueStep ==
    \/ Subscribe
    \/ ExpireSubscriptions
    \/ \E q \in Clients : \/ \E sub \in Submissions : AskForAudit(q, sub)
                          \/ EnqueueAuditAtomically(q)
                          \/ RequestFails(q)
    \/ \E n \in DOMAIN runs : AttemptEnds(n) \/ NextAttempt(n) \/ JobEnds(n)
    \/ CleanupStaleJobs
    \/ DayPasses

-----------------------------------------------------------------------------
(* Properties.                                                             *)

(* A key stands for one run: a submission that is repeated, at once or     *)
(* late, by whatever request, never starts a second audit while the first  *)
(* one is under way or less than CleanupAge days old.                      *)
KeysRemembered ==
    \A m, n \in DOMAIN runs :
       (m < n /\ runs[m].key = runs[n].key) =>
          /\ runs[m].job = "deleted"
          /\ runs[n].day > runs[m].finishedOn + CleanupAge

(* Usage limits block excessive audits: no run was inserted beyond the     *)
(* limit its submission was held to, counting every run of its month,      *)
(* whoever inserted it and whatever "now" the transaction counted from.    *)
MonthOfRun(n) == MonthOf(runs[n].day)

WithinQuota ==
    \A n \in DOMAIN runs :
       runs[n].project # NoProject =>
          Cardinality({k \in 1 .. n : /\ runs[k].project # NoProject
                                      /\ MonthOfRun(k) = MonthOfRun(n)})
             <= runs[n].limit
=============================================================================
