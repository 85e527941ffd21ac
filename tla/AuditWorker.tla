---------------------------- MODULE AuditWorker ----------------------------
(***************************************************************************)
(* Worker processes (src/worker/index.ts, worker-cycle.ts) executing the   *)
(* audit handler (audit.handler.ts) on jobs they lease from the JobQueue,  *)
(* together with the AuditRun rows the jobs are about and the admin's      *)
(* retry-audit route, which creates further jobs for a failed run.         *)
(*                                                                         *)
(* A process has Concurrency slots.  One cycle recycles expired leases,    *)
(* leases at most one job per slot, and runs the leased jobs side by side. *)
(* `slot' holds where each slot is; every database call of a slot is a     *)
(* step of its own, so everything else can happen between two of them.     *)
(*                                                                         *)
(* The fence of the queue guards the Job row only.  The handler's writes   *)
(* to AuditRun carry no fence: a slot whose lease is long gone still makes *)
(* them.  That difference is what this module is about.                    *)
(***************************************************************************)
EXTENDS JobQueue

CONSTANTS
    Runs,          \* AuditRun rows
    RunOf,         \* the run in each job's payload
    FirstJobs,     \* jobs inserted together with their run (audit-enqueue.ts)
    Procs,         \* worker processes
    Concurrency,   \* WORKER_CONCURRENCY
    Admins,        \* retry-audit requests that may be under way
    CrashBound,    \* bound: processes killed
    StallBound,    \* bound: leases that run out under a live slot
    FaultBound,    \* bound: database calls of the workers that throw
    RouteFaultBound, \* bound: calls of the retry route that throw, and
                     \* requests of it that are cut off
    ShutdownBound  \* bound: SIGTERMs

ASSUME SlotsAssumption ==
    /\ Concurrency \in Nat \ {0}
    /\ Workers = Procs \X (1 .. Concurrency)
ASSUME RunsAssumption ==
    /\ Runs # {} /\ RunOf \in [Jobs -> Runs]
    /\ FirstJobs \subseteq Jobs
    /\ \A i, j \in FirstJobs : RunOf[i] = RunOf[j] => i = j
ASSUME BudgetAssumption ==
    /\ {CrashBound, StallBound, FaultBound, RouteFaultBound, ShutdownBound}
         \subseteq Nat
    /\ AttemptBound >= MaxAttempts + CrashBound + StallBound + FaultBound

VARIABLES
    run,      \* the AuditRun table
    cycle,    \* where the loop of each process is
    asked,    \* how many slots have asked for a job in this cycle
    slot,     \* what each slot is doing, and for which lease
    stopping, \* processes that received a signal
    admin,    \* retry-audit requests
    spent     \* how much of each budget is used up

workerVars == <<run, cycle, asked, slot, stopping, admin, spent>>
vars == <<job, issued, verdicts, run, cycle, asked, slot, stopping, admin, spent>>

NoJobLease == [job |-> CHOOSE j \in Jobs : TRUE, worker |-> NoWorker, attempt |-> 0]
FreeSlot == [at |-> "free", lease |-> NoJobLease, aborted |-> FALSE,
             beating |-> FALSE, left |-> 0]
IdleAdmin == [at |-> "idle", run |-> CHOOSE r \in Runs : TRUE, cut |-> {}]

SlotsOf(p) == {s \in Workers : s[1] = p}
Busy(s)    == slot[s].at # "free"
TheRun(s)  == RunOf[slot[s].lease.job]

(* Where a slot can be: granted a job by a statement whose result is not   *)
(* there yet, leased and waiting for the batch to start, then              *)
(* the database calls of processLease and the handler in their order.      *)
Places == {"free", "granted", "leased", "load", "mark", "fetch", "measure", "notify",
           "failrun", "check", "report"}

Goto(s, place) == slot' = [slot EXCEPT ![s].at = place]
Spend(budget, limit) ==
    /\ spent[budget] < limit
    /\ spent' = [spent EXCEPT ![budget] = @ + 1]

(* A database call that throws may have been executed or not.  Faults of   *)
(* the workers and of the retry route are counted apart.                   *)
Fault == Spend("faults", FaultBound)
RouteFault == Spend("routeFaults", RouteFaultBound)

Budgets == {"crashes", "stalls", "faults", "routeFaults", "shutdowns"}

-----------------------------------------------------------------------------
(* Both rows of a first submission are inserted in one transaction.        *)
Init ==
    /\ job = [j \in Jobs |-> IF j \in FirstJobs
                             THEN [Absent EXCEPT !.status = "QUEUED"] ELSE Absent]
    /\ issued = {}
    /\ verdicts = {}
    /\ run = [r \in Runs |-> [status |-> "QUEUED", error |-> FALSE,
                              results |-> FALSE]]
    /\ cycle = [p \in Procs |-> "idle"]
    /\ asked = [p \in Procs |-> 0]
    /\ slot = [s \in Workers |-> FreeSlot]
    /\ stopping = [p \in Procs |-> FALSE]
    /\ admin = [a \in Admins |-> IdleAdmin]
    /\ spent = [b \in Budgets |-> 0]

-----------------------------------------------------------------------------
(* Mutant of StartCycle: expired leases are not recycled.                  *)
StartCycleOnly(p) ==
    /\ cycle[p] = "idle"
    /\ ~stopping[p]
    /\ cycle' = [cycle EXCEPT ![p] = "resuming"]
    /\ UNCHANGED <<job, issued, verdicts, run, asked, slot, stopping, admin, spent>>

(* runWorkerCycle.  It goes from one database call to the next: `cycle' is *)
(* "leasing" while a lease statement is under way and "resuming" between   *)
(* the execution of a statement and the continuation of the code after it. *)
(* Only there is the signal looked at, so a statement under way when the   *)
(* signal arrives still leases its job.                                    *)
StartCycle(p) ==
    /\ cycle[p] = "idle"
    /\ ~stopping[p]
    /\ cycle' = [cycle EXCEPT ![p] = "resuming"]
    /\ IF \E j \in Jobs : Expired(j) THEN RecycleExpiredLeases
                                     ELSE UNCHANGED queueVars
    /\ UNCHANGED <<run, asked, slot, stopping, admin, spent>>

(* The slot with index asked + 1 asks for a job.                           *)
Asks(s) ==
    /\ cycle[s[1]] = "leasing"
    /\ s[2] = asked[s[1]] + 1
    /\ asked' = [asked EXCEPT ![s[1]] = s[2]]
    /\ cycle' = [cycle EXCEPT ![s[1]] = "resuming"]

Granted(s, j, attempt) ==
    [at |-> "granted", lease |-> [job |-> j, worker |-> s, attempt |-> attempt],
     aborted |-> FALSE, beating |-> FALSE, left |-> 0]

LeaseSlot(s, j) ==
    /\ Asks(s)
    /\ LeaseNextJob(s, j)
    /\ slot' = [slot EXCEPT ![s] = Granted(s, j, job[j].attempt + 1)]
    /\ UNCHANGED <<run, stopping, admin, spent>>

LeaseNothing(s) ==
    /\ Asks(s)
    /\ \A j \in Jobs : ~Available(j)
    /\ UNCHANGED <<job, issued, verdicts, run, slot, stopping, admin, spent>>

(* Mutant of Begun: the signal received meanwhile is not looked at.        *)
BegunAnyway(s) ==
    IF slot[s].at # "granted" THEN slot[s]
    ELSE [slot[s] EXCEPT !.at = "leased", !.beating = TRUE, !.left = LeaseTicks]

(* beginLease: heartbeat and timeout run from here on, unless the signal   *)
(* has already been received.                                              *)
Begun(s) ==
    IF slot[s].at # "granted" THEN slot[s]
    ELSE [at |-> "leased", lease |-> slot[s].lease, aborted |-> stopping[s[1]],
          beating |-> ~stopping[s[1]], left |-> LeaseTicks]

(* The first check of processLease, which runs for all leases at once.     *)
Started(row) ==
    IF row.at # "leased" THEN row
    ELSE [row EXCEPT !.at = IF row.aborted THEN "report" ELSE "load"]

AskNext(p) ==
    /\ cycle[p] = "resuming"
    /\ ~stopping[p] /\ asked[p] < Concurrency
    /\ slot' = [s \in Workers |-> IF s[1] = p THEN Begun(s) ELSE slot[s]]
    /\ cycle' = [cycle EXCEPT ![p] = "leasing"]
    /\ UNCHANGED <<job, issued, verdicts, run, asked, stopping, admin, spent>>

StartBatch(p) ==
    /\ cycle[p] = "resuming"
    /\ stopping[p] \/ asked[p] = Concurrency
    /\ slot' = [s \in Workers |-> IF s[1] = p THEN Started(Begun(s)) ELSE slot[s]]
    /\ cycle' = [cycle EXCEPT ![p] = "working"]
    /\ asked' = [asked EXCEPT ![p] = 0]
    /\ UNCHANGED <<job, issued, verdicts, run, stopping, admin, spent>>

(* Promise.all over the batch has resolved.                                *)
EndBatch(p) ==
    /\ cycle[p] = "working"
    /\ \A s \in SlotsOf(p) : ~Busy(s)
    /\ cycle' = [cycle EXCEPT ![p] = "idle"]
    /\ UNCHANGED <<job, issued, verdicts, run, asked, slot, stopping, admin, spent>>

(* runLoop leaves its loop; the process ends.                              *)
StopLoop(p) ==
    /\ cycle[p] = "idle"
    /\ stopping[p]
    /\ cycle' = [cycle EXCEPT ![p] = "down"]
    /\ UNCHANGED <<job, issued, verdicts, run, asked, slot, stopping, admin, spent>>

-----------------------------------------------------------------------------
(* processLease and auditRunHandler, call by call.                         *)
RunBecomes(r, status, error) ==
    run' = [run EXCEPT ![r].status = status, ![r].error = error]

(* findUnique and normalizeAuditTargetUrl: outside the handler's try, so   *)
(* an error here leaves the run as it is.                                  *)
LoadRun(s) ==
    /\ slot[s].at = "load"
    /\ \/ Goto(s, "mark") /\ UNCHANGED spent
       \/ Goto(s, "report") /\ Fault
    /\ UNCHANGED <<job, issued, verdicts, run, cycle, asked, stopping, admin>>

MarkRunRunning(s) ==
    /\ slot[s].at = "mark"
    /\ \/ /\ RunBecomes(TheRun(s), "RUNNING", FALSE)
          /\ Goto(s, "fetch")
          /\ UNCHANGED spent
       \/ /\ RunBecomes(TheRun(s), "RUNNING", FALSE) \/ UNCHANGED run
          /\ Goto(s, "report")
          /\ Fault
    /\ UNCHANGED <<job, issued, verdicts, cycle, asked, stopping, admin>>

(* Fetching the site observes the abort signal and may fail by itself.     *)
FetchSite(s) ==
    /\ slot[s].at = "fetch"
    /\ \/ ~slot[s].aborted /\ Goto(s, "measure")
       \/ Goto(s, "failrun")
    /\ UNCHANGED <<job, issued, verdicts, run, cycle, asked, stopping, admin, spent>>

(* The performance provider and the rules do not look at the signal; the   *)
(* result is stored in one transaction.                                    *)
Persisted(r) ==
    run' = [run EXCEPT ![r].status = "SUCCEEDED", ![r].results = TRUE]

PersistResults(s) ==
    /\ slot[s].at = "measure"
    /\ \/ /\ Persisted(TheRun(s))
          /\ Goto(s, "notify")
          /\ UNCHANGED spent
       \/ /\ Persisted(TheRun(s)) \/ UNCHANGED run
          /\ Goto(s, "failrun")
          /\ Fault
    /\ UNCHANGED <<job, issued, verdicts, cycle, asked, stopping, admin>>

(* Funnel event (its errors are swallowed), then the membership lookup,    *)
(* which is still inside the try.                                          *)
NotifyOwner(s) ==
    /\ slot[s].at = "notify"
    /\ \/ Goto(s, "check") /\ UNCHANGED spent
       \/ Goto(s, "failrun") /\ Fault
    /\ UNCHANGED <<job, issued, verdicts, run, cycle, asked, stopping, admin>>

(* Mutants of MarkRunFailed: the catch does not throw again, or does not   *)
(* update the run.                                                         *)
MarkRunFailedOnly(s) ==
    /\ slot[s].at = "failrun"
    /\ RunBecomes(TheRun(s), "FAILED", TRUE)
    /\ Goto(s, "check")
    /\ UNCHANGED <<job, issued, verdicts, cycle, asked, stopping, admin, spent>>
RethrowOnly(s) ==
    /\ slot[s].at = "failrun"
    /\ Goto(s, "report")
    /\ UNCHANGED <<job, issued, verdicts, run, cycle, asked, stopping, admin, spent>>

(* The handler's catch.                                                    *)
MarkRunFailed(s) ==
    /\ slot[s].at = "failrun"
    /\ \/ RunBecomes(TheRun(s), "FAILED", TRUE) /\ UNCHANGED spent
       \/ UNCHANGED run /\ Fault
    /\ Goto(s, "report")
    /\ UNCHANGED <<job, issued, verdicts, cycle, asked, stopping, admin>>

(* The calls of the queue that are rejected for a stale lease.             *)
SucceedIfOwner(l) ==
    IF Owns(l) THEN MarkJobSucceeded(l) ELSE UNCHANGED queueVars
FailIfOwner(l) ==
    IF Owns(l) THEN MarkJobFailed(l) ELSE UNCHANGED queueVars

(* Mutant of ReportSuccess: it is called inside the handler's try.         *)
ReportSuccessInTry(s) ==
    /\ slot[s].at = "check"
    /\ \/ /\ slot[s].aborted
          /\ Goto(s, "report")
          /\ UNCHANGED <<queueVars, spent>>
       \/ /\ ~slot[s].aborted
          /\ SucceedIfOwner(slot[s].lease)
          /\ slot' = [slot EXCEPT ![s] = FreeSlot]
          /\ UNCHANGED spent
       \/ /\ ~slot[s].aborted
          /\ SucceedIfOwner(slot[s].lease) \/ UNCHANGED queueVars
          /\ Goto(s, "failrun")
          /\ Fault
    /\ UNCHANGED <<run, cycle, asked, stopping, admin>>

(* The handler returned.  A stale completion is only logged.               *)
ReportSuccess(s) ==
    /\ slot[s].at = "check"
    /\ \/ /\ slot[s].aborted
          /\ Goto(s, "report")
          /\ UNCHANGED <<queueVars, spent>>
       \/ /\ ~slot[s].aborted
          /\ SucceedIfOwner(slot[s].lease)
          /\ slot' = [slot EXCEPT ![s] = FreeSlot]
          /\ UNCHANGED spent
       \/ /\ ~slot[s].aborted
          /\ SucceedIfOwner(slot[s].lease) \/ UNCHANGED queueVars
          /\ Goto(s, "report")
          /\ Fault
    /\ UNCHANGED <<run, cycle, asked, stopping, admin>>

ReportFailure(s) ==
    /\ slot[s].at = "report"
    /\ FailIfOwner(slot[s].lease)
    /\ slot' = [slot EXCEPT ![s] = FreeSlot]
    /\ UNCHANGED <<run, cycle, asked, stopping, admin, spent>>

(* The process is gone: its slots forget everything, the rows stay.        *)
Die(p) ==
    /\ slot' = [s \in Workers |-> IF s[1] = p THEN FreeSlot ELSE slot[s]]
    /\ asked' = [asked EXCEPT ![p] = 0]
    /\ cycle' = [cycle EXCEPT ![p] = "down"]

(* markJobFailed throws: processLease rejects, so does the batch, and      *)
(* index.ts exits with the other slots' work in the middle.                *)
ReportFailureThrows(s) ==
    /\ slot[s].at = "report"
    /\ FailIfOwner(slot[s].lease) \/ UNCHANGED queueVars
    /\ Fault
    /\ Die(s[1])
    /\ UNCHANGED <<run, stopping, admin>>

(* Recycling or leasing throws, before or after it was executed: the cycle *)
(* rejects and the process exits.                                          *)
CycleThrows(p) ==
    /\ \/ cycle[p] = "idle" /\ ~stopping[p]
       \/ cycle[p] \in {"leasing", "resuming"}
    /\ Fault
    /\ Die(p)
    /\ UNCHANGED <<job, issued, verdicts, run, stopping, admin>>

-----------------------------------------------------------------------------
(* The heartbeat timer, the job timeout, signals, crashes and restarts.    *)
Heartbeat(s) ==
    /\ Busy(s)
    /\ slot[s].beating /\ ~slot[s].aborted
    /\ \/ /\ Owns(slot[s].lease)
          /\ job[slot[s].lease.job].lease # BeatTicks
          /\ HeartbeatJobLease(slot[s].lease)
          /\ UNCHANGED <<slot, spent>>
       \/ /\ ~Owns(slot[s].lease)             \* JOB_LEASE_LOST
          /\ slot' = [slot EXCEPT ![s].aborted = TRUE]
          /\ UNCHANGED <<queueVars, spent>>
       \/ /\ slot' = [slot EXCEPT ![s].aborted = TRUE]  \* JOB_HEARTBEAT_FAILED
          /\ Fault
          /\ UNCHANGED queueVars
    /\ UNCHANGED <<run, cycle, asked, stopping, admin>>

JobTimeout(s) ==
    /\ Busy(s)
    /\ slot[s].left = 0
    /\ slot[s].beating
    /\ slot' = [slot EXCEPT ![s].beating = FALSE, ![s].aborted = TRUE]
    /\ UNCHANGED <<job, issued, verdicts, run, cycle, asked, stopping, admin, spent>>

(* requestShutdown: abort every active lease of the process.               *)
Shutdown(p) ==
    /\ cycle[p] # "down"
    /\ ~stopping[p]
    /\ Spend("shutdowns", ShutdownBound)
    /\ stopping' = [stopping EXCEPT ![p] = TRUE]
    /\ slot' = [s \in Workers |->
                  IF s[1] = p /\ Busy(s) THEN [slot[s] EXCEPT !.aborted = TRUE]
                  ELSE slot[s]]
    /\ UNCHANGED <<job, issued, verdicts, run, cycle, asked, admin>>

Crash(p) ==
    /\ cycle[p] # "down"
    /\ Spend("crashes", CrashBound)
    /\ Die(p)
    /\ UNCHANGED <<job, issued, verdicts, run, stopping, admin>>

(* The process manager starts the process again.  Its name carries the     *)
(* process id; that it gets the same one is the harder case for the fence. *)
Restart(p) ==
    /\ cycle[p] = "down"
    /\ cycle' = [cycle EXCEPT ![p] = "idle"]
    /\ stopping' = [stopping EXCEPT ![p] = FALSE]
    /\ UNCHANGED <<job, issued, verdicts, run, asked, slot, admin, spent>>

(* Time passes.  A lease that runs out under a live slot (the event loop   *)
(* or the database was slow, or the handler outlived its timeout) is       *)
(* charged to the stall budget.                                            *)
RunsOut(s) == Busy(s) /\ Owns(slot[s].lease) /\ job[slot[s].lease.job].lease = 1

WorkerTick ==
    /\ PassTime
    /\ slot' = [s \in Workers |->
                  IF slot[s].left > 0 THEN [slot[s] EXCEPT !.left = @ - 1]
                  ELSE slot[s]]
    /\ IF \E s \in Workers : RunsOut(s) THEN Spend("stalls", StallBound)
                                        ELSE UNCHANGED spent
    /\ UNCHANGED <<issued, verdicts, run, cycle, asked, stopping, admin>>

-----------------------------------------------------------------------------
(* The retry-audit route: look for an active job, reset the failed run     *)
(* with a compare-and-set, insert a fresh job; three separate calls.  The  *)
(* supply of job identities is a bound: a reset waits for a spare one.     *)
(* A request can end between any two calls, when one of them throws or the *)
(* server goes down; `cut' keeps the runs a request had reset by then.     *)
Active(j) == job[j].status \in {"QUEUED", "RUNNING"}

Continue(a, place) ==
    admin' = [admin EXCEPT ![a] = [at |-> place, run |-> admin[a].run,
                                   cut |-> admin[a].cut]]
BreakOff(a) ==
    admin' = [admin EXCEPT ![a] = [at |-> "idle", run |-> admin[a].run,
                                   cut |-> admin[a].cut \cup {admin[a].run}]]

RetryCheck(a, r) ==
    /\ admin[a].at = "idle"
    /\ \A j \in Jobs : RunOf[j] = r => ~Active(j)
    /\ admin' = [admin EXCEPT ![a] = [at |-> "reset", run |-> r,
                                      cut |-> admin[a].cut]]
    /\ UNCHANGED <<job, issued, verdicts, run, cycle, asked, slot, stopping, spent>>

(* Mutant of RetryReset: an update instead of a compare-and-set.           *)
RetryResetAny(a) ==
    /\ admin[a].at = "reset"
    /\ \E j \in Jobs : RunOf[j] = admin[a].run /\ job[j].status = "ABSENT"
    /\ RunBecomes(admin[a].run, "QUEUED", FALSE)
    /\ Continue(a, "enqueue")
    /\ UNCHANGED <<job, issued, verdicts, cycle, asked, slot, stopping, spent>>

(* The reset is outside the try: when it throws, executed or not, nothing  *)
(* is taken back.                                                          *)
RetryReset(a) ==
    /\ admin[a].at = "reset"
    /\ \E j \in Jobs : RunOf[j] = admin[a].run /\ job[j].status = "ABSENT"
    /\ \/ /\ run[admin[a].run].status = "FAILED"
          /\ RunBecomes(admin[a].run, "QUEUED", FALSE)
          /\ \/ Continue(a, "enqueue") /\ UNCHANGED spent
             \/ BreakOff(a) /\ RouteFault
       \/ /\ run[admin[a].run].status # "FAILED"
          /\ Continue(a, "idle")
          /\ UNCHANGED <<run, spent>>
       \/ Continue(a, "idle") /\ RouteFault /\ UNCHANGED run
    /\ UNCHANGED <<job, issued, verdicts, cycle, asked, slot, stopping>>

(* Mutant of RetryEnqueue: the job that failed is queued again.            *)
RetryRequeue(a) ==
    /\ admin[a].at = "enqueue"
    /\ \E j \in Jobs : /\ RunOf[j] = admin[a].run /\ job[j].status = "FAILED"
                       /\ job' = [job EXCEPT ![j].status = "QUEUED"]
    /\ Continue(a, "idle")
    /\ UNCHANGED <<issued, verdicts, run, cycle, asked, slot, stopping, spent>>

RetryEnqueue(a) ==
    /\ admin[a].at = "enqueue"
    /\ \/ /\ \E j \in Jobs : RunOf[j] = admin[a].run /\ EnqueueJob(j)
          /\ Continue(a, "idle")
          /\ UNCHANGED spent
       \/ /\ \/ \E j \in Jobs : RunOf[j] = admin[a].run /\ EnqueueJob(j)
             \/ UNCHANGED queueVars
          /\ Continue(a, "undo")
          /\ RouteFault
    /\ UNCHANGED <<run, cycle, asked, slot, stopping>>

(* QUEUE_ENQUEUE_FAILED: the reset is undone without looking at the run.   *)
RetryUndo(a) ==
    /\ admin[a].at = "undo"
    /\ RunBecomes(admin[a].run, "FAILED", TRUE)
    /\ Continue(a, "idle")
    /\ UNCHANGED <<job, issued, verdicts, cycle, asked, slot, stopping, spent>>

(* The request ends after its reset, before the job is inserted or before  *)
(* the reset is taken back, or taking it back throws.                      *)
RetryDies(a) ==
    /\ admin[a].at \in {"enqueue", "undo"}
    /\ BreakOff(a)
    /\ RouteFault
    /\ UNCHANGED <<job, issued, verdicts, run, cycle, asked, slot, stopping>>

-----------------------------------------------------------------------------
SlotStep(s) ==
    \/ LoadRun(s) \/ MarkRunRunning(s) \/ FetchSite(s)
    \/ PersistResults(s) \/ NotifyOwner(s) \/ MarkRunFailed(s)
    \/ ReportSuccess(s) \/ ReportFailure(s)

ProcStep(p) ==
    \/ StartCycle(p) \/ AskNext(p) \/ StartBatch(p) \/ EndBatch(p) \/ StopLoop(p)
    \/ Restart(p)

Next ==
    \/ \E p \in Procs : ProcStep(p) \/ Shutdown(p) \/ Crash(p) \/ CycleThrows(p)
    \/ \E s \in Workers, j \in Jobs : LeaseSlot(s, j)
    \/ \E s \in Workers : LeaseNothing(s)
    \/ \E s \in Workers : SlotStep(s) \/ ReportFailureThrows(s)
    \/ \E s \in Workers : Heartbeat(s) \/ JobTimeout(s)
    \/ WorkerTick
    \/ \E a \in Admins, r \in Runs : RetryCheck(a, r)
    \/ \E a \in Admins : RetryReset(a) \/ RetryEnqueue(a) \/ RetryUndo(a)
                        \/ RetryDies(a)

Spec == Init /\ [][Next]_vars

-----------------------------------------------------------------------------
(* Database calls return or throw, and so does the performance provider,   *)
(* whose request is timed.  That a fetch settles is not assumed: the       *)
(* decoder of a response may never end (AuditFetch).                       *)
Fairness ==
    /\ \A p \in Procs : WF_vars(ProcStep(p))
    /\ \A s \in Workers : /\ WF_vars(LeaseNothing(s) \/ \E j \in Jobs : LeaseSlot(s, j))
                          /\ WF_vars(slot[s].at # "fetch" /\ SlotStep(s))
                          /\ WF_vars(JobTimeout(s))
                          /\ WF_vars(Heartbeat(s))
    /\ WF_vars(WorkerTick)
    /\ \A a \in Admins : WF_vars(RetryReset(a) \/ RetryEnqueue(a) \/ RetryUndo(a))

FairSpec == Spec /\ Fairness

-----------------------------------------------------------------------------
RunStatuses == {"QUEUED", "RUNNING", "SUCCEEDED", "FAILED"}

TypeOK ==
    /\ QueueTypeOK
    /\ run \in [Runs -> [status : RunStatuses, error : BOOLEAN, results : BOOLEAN]]
    /\ asked \in [Procs -> 0 .. Concurrency]
    /\ cycle \in [Procs -> {"idle", "leasing", "resuming", "working", "down"}]
    /\ slot \in [Workers -> [at : Places, lease : issued \cup {NoJobLease},
                             aborted : BOOLEAN, beating : BOOLEAN,
                             left : 0 .. LeaseTicks]]
    /\ stopping \in [Procs -> BOOLEAN]
    /\ admin \in [Admins -> [at : {"idle", "reset", "enqueue", "undo"}, run : Runs,
                             cut : SUBSET Runs]]
    /\ spent \in [Budgets -> Nat]

InHandler(s) == slot[s].at \in {"mark", "fetch", "measure", "notify", "failrun"}

(* A job is SUCCEEDED only when results of its run have been stored, even  *)
(* though the two rows are written by separate calls and either may throw. *)
SuccessHasResults ==
    \A j \in Jobs : job[j].status = "SUCCEEDED" => run[RunOf[j]].results

(* As long as no lease ran out under a live slot, two slots never work on  *)
(* the same run, whatever crashes and restarts happen, and even if an      *)
(* operator retries it.  Two retry requests at once can break it, since    *)
(* both may find no active job and create one each.                        *)
NoOverlapUnlessStalled ==
    spent["stalls"] = 0 =>
       \A s, t \in Workers :
          InHandler(s) /\ InHandler(t) /\ TheRun(s) = TheRun(t) => s = t

(* As long as no lease ran out under a live slot and no retry request met  *)
(* an error or was cut off, a successful job leaves its run successful,    *)
(* whatever error the workers meet: nobody moves the run away from         *)
(* SUCCEEDED later.                                                        *)
SuccessSticksUnlessStalled ==
    spent["stalls"] = 0 /\ spent["routeFaults"] = 0 =>
       \A j \in Jobs :
          job[j].status = "SUCCEEDED" => run[RunOf[j]].status = "SUCCEEDED"

(* More than maxAttempts attempts are always due to lost leases: crashes,  *)
(* exits on database errors and stalls, one extra attempt for each.        *)
AttemptsExplained ==
    \A j \in Jobs :
       job[j].attempt <= MaxAttempts + spent["crashes"] + spent["stalls"]
                                     + spent["faults"]

(* As long as no lease ran out under a live slot, a run that has no job    *)
(* QUEUED or RUNNING is left alone by every slot: what is written to it    *)
(* late comes from the retry route, which resets it or takes that back.    *)
SettledRunsRest ==
    [][\A r \in Runs :
          /\ spent["stalls"] = 0
          /\ \A j \in Jobs : RunOf[j] = r => ~Active(j)
          /\ run'[r] # run[r]
          => \E a \in Admins : admin[a].run = r /\ admin[a].at \in {"reset", "undo"}]_vars

(* After a signal no further handler is started: a job leased by the       *)
(* statement that was under way is given back untouched.                   *)
NotStarted(s) == slot[s].at \in {"free", "granted", "leased"}

NoStartAfterSignal ==
    [][\A s \in Workers : stopping[s[1]] /\ NotStarted(s) =>
          slot'[s].at \in {"free", "granted", "leased", "report"}]_vars

(* A fetch that never settles, because the decoder of a response does not  *)
(* end.  The batch waits for it, and the process asks for no further jobs. *)
Hung == \E s \in Workers : <>[](slot[s].at = "fetch")

(* No job stays QUEUED or RUNNING for ever, though its worker be killed,   *)
(* outlive a lease, be told to stop or fail to report: it ends up          *)
(* SUCCEEDED or FAILED, unless a fetch hangs for ever.  Only StallBound    *)
(* leases run out under a live slot: slots that always outlive theirs      *)
(* repeat a job for ever, since recycling does not look at maxAttempts.    *)
JobsFinishUnlessHung ==
    \A j \in Jobs : Hung \/ []<>~Active(j)

(* A run does not stay QUEUED or RUNNING, though its worker be killed:     *)
(* only a database error or a signal in a worker, a stalled slot, a fetch  *)
(* that hangs or a retry request that is cut off between its reset and its *)
(* enqueue can bring that about, or a job whose time is up before its      *)
(* handler starts, because the lease statement of another slot took that   *)
(* long.                                                                   *)
Disturbed ==
    \/ \E b \in Budgets \ {"crashes", "routeFaults"} : spent[b] > 0
    \/ \E s \in Workers : slot[s].at = "leased" /\ slot[s].left = 0
Settled(r) == run[r].status \in {"SUCCEEDED", "FAILED"}
CutOff(r)  == \E a \in Admins : r \in admin[a].cut

RunsSettleUnlessDisturbed ==
    \A r \in Runs : Hung \/ <>Disturbed \/ <>CutOff(r) \/ <>[]Settled(r)

(* Until one of them happens, a run that is QUEUED or RUNNING has a job    *)
(* that will see to it, or a retry request is about to insert one or to    *)
(* mark the run FAILED again.  What leaves a run behind with nobody to     *)
(* settle it is a request that ended in between, and no process, however   *)
(* it ends.                                                                *)
HasJob(r)  == \E j \in Jobs : RunOf[j] = r /\ job[j].status # "ABSENT"
SeenTo(r)  ==
    \/ \E j \in Jobs : RunOf[j] = r /\ Active(j)
    \/ \E a \in Admins : admin[a].run = r /\ admin[a].at \in {"enqueue", "undo"}

NoRunLeftBehind ==
    \A r \in Runs : HasJob(r) /\ ~Settled(r) => SeenTo(r) \/ CutOff(r)
=============================================================================
