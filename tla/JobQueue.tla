------------------------------ MODULE JobQueue ------------------------------
(***************************************************************************)
(* The PostgreSQL job queue of src/worker/queue.ts.                        *)
(*                                                                         *)
(* The state is the "Job" table.  Every exported function of queue.ts is   *)
(* one SQL statement, hence one action.  A caller keeps the lease it was   *)
(* handed (job, worker, attempt) for as long as it likes: it may be slow,  *)
(* stopped, or have a statement still in flight, so a call on behalf of    *)
(* any lease ever issued can reach the database at any later moment.  The  *)
(* set `issued' is exactly that.                                           *)
(*                                                                         *)
(* Time is discrete.  A timestamp column is kept as the number of ticks it *)
(* lies ahead of NOW(), which makes the state space finite: `lease' counts *)
(* down to 0 (expired), `due' counts down through 0 (available) to         *)
(* -WaitBound, where waiting times are no longer told apart.               *)
(***************************************************************************)
EXTENDS Integers, FiniteSets

CONSTANTS
    Jobs,           \* identities of the rows that may be inserted
    Workers,        \* worker slot names, `${workerId}-${index}`
    NoWorker,       \* "workerId" IS NULL
    MaxAttempts,    \* "maxAttempts" of every job
    LeaseTicks,     \* "timeoutMs": the length of a fresh lease
    BeatTicks,      \* the extension a heartbeat grants
    RecycleTicks,   \* the 5 seconds a recycled job has to wait
    Backoff,        \* nextBackoffMs in ticks, by attempt (see QueueTiming)
    AttemptBound,   \* bound: no job is leased more often than this
    WaitBound       \* bound: waiting longer than this is not told apart

ASSUME WorkersAssumption == NoWorker \notin Workers
ASSUME TicksAssumption ==
    /\ MaxAttempts \in Nat \ {0} /\ AttemptBound \in Nat \ {0}
    /\ LeaseTicks \in Nat \ {0} /\ BeatTicks \in Nat \ {0}
    /\ RecycleTicks \in Nat
    /\ Backoff \in [1 .. AttemptBound -> Nat]
    /\ WaitBound \in Nat

VARIABLES
    job,      \* the table
    issued,   \* every lease leaseNextJob ever returned
    verdicts  \* every completion the queue accepted (returned true for)

queueVars == <<job, issued, verdicts>>

Statuses == {"ABSENT", "QUEUED", "RUNNING", "SUCCEEDED", "FAILED"}
Terminal == {"SUCCEEDED", "FAILED"}
NoLease == -1   \* "leasedUntil" IS NULL

Leases == [job : Jobs, worker : Workers, attempt : 1 .. AttemptBound]
Verdicts == [lease : Leases, result : {"succeeded", "retry", "failed"}]

Rows == [status : Statuses, attempt : 0 .. AttemptBound,
         worker : Workers \cup {NoWorker}, lease : Int, due : Int]

Absent == [status |-> "ABSENT", attempt |-> 0, worker |-> NoWorker,
           lease |-> NoLease, due |-> 0]

-----------------------------------------------------------------------------
(* Mutant of Owns: the fence forgets "attempt".                            *)
OwnsByName(l) ==
    LET row == job[l.job] IN
    row.status = "RUNNING" /\ row.worker = l.worker /\ row.lease > 0

(* The lease fence shared by heartbeat, success and failure: the row is    *)
(* still RUNNING for this worker and attempt, and the lease has not run out.*)
Owns(l) ==
    LET row == job[l.job] IN
    /\ row.status = "RUNNING"
    /\ row.worker = l.worker
    /\ row.attempt = l.attempt
    /\ row.lease > 0

(* Mutants: failed jobs are picked up again; leases are recycled one tick  *)
(* early, or without looking at "leasedUntil".                             *)
AvailableIfFailed(j) == job[j].status \in {"QUEUED", "FAILED"} /\ job[j].due <= 0
ExpiredEarly(j)      == job[j].status = "RUNNING" /\ job[j].lease \in {0, 1}
ExpiredIfRunning(j)  == job[j].status = "RUNNING"

Available(j) == job[j].status = "QUEUED" /\ job[j].due <= 0
Expired(j)   == job[j].status = "RUNNING" /\ job[j].lease = 0

(* Mutants of Requeued: counting starts afresh; "leasedBy" is left in      *)
(* place.                                                                  *)
RequeuedAfresh(row, wait) ==
    [status |-> "QUEUED", attempt |-> 0, worker |-> NoWorker,
     lease |-> NoLease, due |-> wait]
RequeuedHeld(row, wait) ==
    [status |-> "QUEUED", attempt |-> row.attempt, worker |-> row.worker,
     lease |-> NoLease, due |-> wait]

(* What the statements make of a row.                                      *)
Requeued(row, wait) ==
    [status |-> "QUEUED", attempt |-> row.attempt, worker |-> NoWorker,
     lease |-> NoLease, due |-> wait]

LeasedTo(row, w) ==
    [status |-> "RUNNING", attempt |-> row.attempt + 1, worker |-> w,
     lease |-> LeaseTicks, due |-> row.due]

Extended(row) == [row EXCEPT !.lease = BeatTicks]

Finished(row, status) ==
    [status |-> status, attempt |-> row.attempt, worker |-> row.worker,
     lease |-> NoLease, due |-> row.due]

-----------------------------------------------------------------------------
QueueInit ==
    /\ job = [j \in Jobs |-> Absent]
    /\ issued = {}
    /\ verdicts = {}

EnqueueJob(j) ==
    /\ job[j].status = "ABSENT"
    /\ job' = [job EXCEPT ![j].status = "QUEUED"]
    /\ UNCHANGED <<issued, verdicts>>

(* One UPDATE over every expired lease; it looks at neither "attempt" nor  *)
(* "maxAttempts".                                                          *)
RecycleExpiredLeases ==
    /\ \E j \in Jobs : Expired(j)
    /\ job' = [j \in Jobs |-> IF Expired(j) THEN Requeued(job[j], RecycleTicks)
                              ELSE job[j]]
    /\ UNCHANGED <<issued, verdicts>>

(* ORDER BY "availableAt": the longest waiting row.  "createdAt" breaks    *)
(* ties within a tick, which the model leaves open.                        *)
LeaseNextJob(w, j) ==
    /\ Available(j)
    /\ \A k \in Jobs : Available(k) => job[j].due <= job[k].due
    /\ job[j].attempt < AttemptBound
    /\ job' = [job EXCEPT ![j] = LeasedTo(job[j], w)]
    /\ issued' = issued \cup
                   {[job |-> j, worker |-> w, attempt |-> job[j].attempt + 1]}
    /\ UNCHANGED verdicts

HeartbeatJobLease(l) ==
    /\ Owns(l)
    /\ job' = [job EXCEPT ![l.job] = Extended(job[l.job])]
    /\ UNCHANGED <<issued, verdicts>>

MarkJobSucceeded(l) ==
    /\ Owns(l)
    /\ job' = [job EXCEPT ![l.job] = Finished(job[l.job], "SUCCEEDED")]
    /\ verdicts' = verdicts \cup {[lease |-> l, result |-> "succeeded"]}
    /\ UNCHANGED issued

(* Mutant of MarkJobFailedRetry: one attempt too many.                     *)
MarkJobFailedRetryMore(l) ==
    /\ Owns(l)
    /\ l.attempt <= MaxAttempts
    /\ job' = [job EXCEPT ![l.job] = Requeued(job[l.job], Backoff[l.attempt])]
    /\ verdicts' = verdicts \cup {[lease |-> l, result |-> "retry"]}
    /\ UNCHANGED issued

(* The retry decision is taken from the attempt of the caller's lease.     *)
MarkJobFailedRetry(l) ==
    /\ Owns(l)
    /\ l.attempt < MaxAttempts
    /\ job' = [job EXCEPT ![l.job] = Requeued(job[l.job], Backoff[l.attempt])]
    /\ verdicts' = verdicts \cup {[lease |-> l, result |-> "retry"]}
    /\ UNCHANGED issued

MarkJobFailedFinal(l) ==
    /\ Owns(l)
    /\ l.attempt >= MaxAttempts
    /\ job' = [job EXCEPT ![l.job] = Finished(job[l.job], "FAILED")]
    /\ verdicts' = verdicts \cup {[lease |-> l, result |-> "failed"]}
    /\ UNCHANGED issued

MarkJobFailed(l) == MarkJobFailedRetry(l) \/ MarkJobFailedFinal(l)

(* NOW() advances.                                                         *)
Aged(row) ==
    [status |-> row.status, attempt |-> row.attempt, worker |-> row.worker,
     lease  |-> IF row.lease > 0 THEN row.lease - 1 ELSE row.lease,
     due    |-> IF row.status = "QUEUED" /\ row.due > -WaitBound
                THEN row.due - 1 ELSE row.due]

PassTime == job' = [j \in Jobs |-> Aged(job[j])]

Tick == PassTime /\ UNCHANGED <<issued, verdicts>>

QueueNext ==
    \/ \E j \in Jobs : EnqueueJob(j)
    \/ RecycleExpiredLeases
    \/ \E w \in Workers, j \in Jobs : LeaseNextJob(w, j)
    \/ \E l \in issued : HeartbeatJobLease(l)
    \/ \E l \in issued : MarkJobSucceeded(l)
    \/ \E l \in issued : MarkJobFailedRetry(l)
    \/ \E l \in issued : MarkJobFailedFinal(l)
    \/ Tick

QueueSpec == QueueInit /\ [][QueueNext]_queueVars

-----------------------------------------------------------------------------
(* The types of the table and of the two histories.                        *)
QueueTypeOK ==
    /\ job \in [Jobs -> Rows]
    /\ issued \subseteq Leases
    /\ verdicts \subseteq Verdicts

(* "attempt" works as a fencing token: leases of a job carry the attempts  *)
(* 1, 2, ..., attempt, each once, whatever recycling and retries happen in *)
(* between, so a stale lease can never be mistaken for the current one.    *)
FenceNeverReused ==
    /\ \A l, m \in issued : l.job = m.job /\ l.attempt = m.attempt => l = m
    /\ \A l \in issued : l.attempt <= job[l.job].attempt
    /\ \A j \in Jobs : job[j].status = "RUNNING" =>
          [job |-> j, worker |-> job[j].worker, attempt |-> job[j].attempt]
             \in issued

(* What callers were told is what the table says: a job has at most one    *)
(* final verdict, given on its newest lease; a lease gets at most one      *)
(* verdict; and a job is FAILED only if its last allowed attempt was       *)
(* reported failed (markJobSucceeded, markJobFailed).                      *)
VerdictTrue(v) ==
    LET row == job[v.lease.job] IN
    CASE v.result = "retry"     -> v.lease.attempt < MaxAttempts
      [] v.result = "succeeded" -> /\ row.status = "SUCCEEDED"
                                   /\ row.attempt = v.lease.attempt
                                   /\ row.worker = v.lease.worker
      [] v.result = "failed"    -> /\ row.status = "FAILED"
                                   /\ row.attempt = v.lease.attempt
                                   /\ row.worker = v.lease.worker
                                   /\ v.lease.attempt >= MaxAttempts

VerdictsMatchTable ==
    /\ \A v, u \in verdicts : v.lease = u.lease => v = u
    /\ \A v \in verdicts : v.lease \in issued /\ VerdictTrue(v)
    /\ \A j \in Jobs : job[j].status \in Terminal =>
          \E v \in verdicts : v.lease.job = j /\ v.result # "retry"

(* A lease that has not run out is ended by nobody but its holder: neither *)
(* recycling nor another worker takes the row away from it.                *)
LiveLeaseUndisturbed ==
    [][\A l \in issued :
          Owns(l) /\ ~(job'[l.job].status = "RUNNING"
                       /\ job'[l.job].attempt = l.attempt)
             => \E v \in verdicts' \ verdicts : v.lease = l]_queueVars

(* SUCCEEDED and FAILED are forever: no late call, recycle or lease        *)
(* changes a terminal row.                                                 *)
TerminalIsFinal ==
    [][\A j \in Jobs : job[j].status \in Terminal => job'[j] = job[j]]_queueVars

(* The runbook's promise that a job is attempted at most maxAttempts times.*)
AttemptsWithinMax == \A j \in Jobs : job[j].attempt <= MaxAttempts

(* The queue implements ExclusiveWork.                                     *)
PhaseOf(status) ==
    CASE status = "ABSENT"    -> "none"
      [] status = "QUEUED"    -> "waiting"
      [] status = "RUNNING"   -> "held"
      [] status = "SUCCEEDED" -> "succeeded"
      [] status = "FAILED"    -> "failed"

Work == INSTANCE ExclusiveWork WITH
    Nobody <- NoWorker,
    phase  <- [j \in Jobs |-> PhaseOf(job[j].status)],
    turn   <- [j \in Jobs |-> job[j].attempt],
    holder <- [j \in Jobs |-> job[j].worker],
    log    <- {<<v.lease.job, v.lease.attempt, v.lease.worker, v.result>> :
                  v \in verdicts}

(* Every step of the queue is a step of ExclusiveWork: what is recorded    *)
(* about a job was said by the holder of its current turn.                 *)
ImplementsExclusiveWork == Work!WorkSpec

=============================================================================
