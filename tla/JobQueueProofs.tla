--------------------------- MODULE JobQueueProofs ---------------------------
(***************************************************************************)
(* Proofs about the job queue for any set of jobs and workers, any lease   *)
(* and backoff times and any bound on attempts.                            *)
(*                                                                         *)
(* The invariant is QueueInv.  FenceNeverReused and VerdictsMatchTable are *)
(* not inductive alone: that a lease gets a single verdict also needs that *)
(* a verdict ends the lease it was given on (VerdictEndsLease); that time  *)
(* leaves terminal rows alone needs OnlyRunningLeased.                     *)
(***************************************************************************)
EXTENDS JobQueue, TLAPS

VerdictEndsLease ==
    \A v \in verdicts :
       v.lease.attempt = job[v.lease.job].attempt
          => job[v.lease.job].status # "RUNNING"

OnlyRunningLeased ==
    \A j \in Jobs : job[j].status # "RUNNING" => job[j].lease = NoLease

QueueInv ==
    /\ QueueTypeOK
    /\ OnlyRunningLeased
    /\ FenceNeverReused
    /\ VerdictsMatchTable
    /\ VerdictEndsLease

-----------------------------------------------------------------------------
(* The types of the table and the histories hold in every behaviour.       *)
LEMMA InitType == QueueInit => QueueTypeOK
  BY WorkersAssumption, TicksAssumption
     DEF QueueInit, QueueTypeOK, Absent, Rows, Statuses, NoLease, Leases, Verdicts

LEMMA AgedType == \A row \in Rows : Aged(row) \in Rows
  BY TicksAssumption DEF Rows, Aged

LEMMA RequeuedType ==
    \A row \in Rows, wait \in Nat : Requeued(row, wait) \in Rows
  BY TicksAssumption DEF Rows, Requeued, Statuses, NoLease

LEMMA ExtendedType == \A row \in Rows : Extended(row) \in Rows
  BY TicksAssumption DEF Rows, Extended

LEMMA FinishedType ==
    \A row \in Rows, status \in Terminal : Finished(row, status) \in Rows
  BY DEF Rows, Finished, Statuses, Terminal, NoLease

LEMMA LeasedType ==
    ASSUME NEW row \in Rows, NEW w \in Workers, row.attempt < AttemptBound
    PROVE  LeasedTo(row, w) \in Rows
  BY TicksAssumption DEF Rows, LeasedTo, Statuses

LEMMA IssuedType ==
    ASSUME QueueTypeOK, NEW l \in issued
    PROVE  /\ l \in Leases
           /\ l.job \in Jobs /\ l.worker \in Workers
           /\ l.attempt \in 1 .. AttemptBound
           /\ job[l.job] \in Rows
           /\ \A r \in {"succeeded", "retry", "failed"} :
                 [lease |-> l, result |-> r] \in Verdicts
  BY DEF QueueTypeOK, Leases, Verdicts

LEMMA StepType == QueueTypeOK /\ [QueueNext]_queueVars => QueueTypeOK'
<1> SUFFICES ASSUME QueueTypeOK, [QueueNext]_queueVars PROVE QueueTypeOK'
    OBVIOUS
<1> USE TicksAssumption DEF QueueTypeOK
<1>1. ASSUME NEW j \in Jobs, EnqueueJob(j) PROVE QueueTypeOK'
      BY <1>1 DEF EnqueueJob, Rows, Statuses
<1>2. CASE RecycleExpiredLeases
      BY <1>2, RequeuedType DEF RecycleExpiredLeases
<1>3. ASSUME NEW w \in Workers, NEW j \in Jobs, LeaseNextJob(w, j)
      PROVE  QueueTypeOK'
      BY <1>3, LeasedType DEF LeaseNextJob, Rows, Leases
<1>4. ASSUME NEW l \in issued, HeartbeatJobLease(l) PROVE QueueTypeOK'
      BY <1>4, IssuedType, ExtendedType DEF HeartbeatJobLease
<1>5. ASSUME NEW l \in issued, MarkJobSucceeded(l) PROVE QueueTypeOK'
  <2>1. Finished(job[l.job], "SUCCEEDED") \in Rows
        BY IssuedType, FinishedType DEF Terminal
  <2> QED BY <1>5, <2>1, IssuedType DEF MarkJobSucceeded
<1>6. ASSUME NEW l \in issued, MarkJobFailedRetry(l) PROVE QueueTypeOK'
  <2>1. Requeued(job[l.job], Backoff[l.attempt]) \in Rows
        BY IssuedType, RequeuedType
  <2> QED BY <1>6, <2>1, IssuedType DEF MarkJobFailedRetry
<1>7. ASSUME NEW l \in issued, MarkJobFailedFinal(l) PROVE QueueTypeOK'
  <2>1. Finished(job[l.job], "FAILED") \in Rows
        BY IssuedType, FinishedType DEF Terminal
  <2> QED BY <1>7, <2>1, IssuedType DEF MarkJobFailedFinal
<1>8. CASE Tick
      BY <1>8, AgedType DEF Tick, PassTime
<1>9. CASE UNCHANGED queueVars
      BY <1>9 DEF queueVars
<1> QED
    BY <1>1, <1>2, <1>3, <1>4, <1>5, <1>6, <1>7, <1>8, <1>9 DEF QueueNext

(* The columns of the table, the leases and the verdicts keep their types. *)
THEOREM QueueTypeCorrect == QueueSpec => []QueueTypeOK
  BY InitType, StepType, PTL DEF QueueSpec

-----------------------------------------------------------------------------
(* The three halves of the step: each part of the invariant is kept by     *)
(* every operation of the queue.                                           *)
LEMMA InitInv == QueueInit => QueueInv
  BY InitType
     DEF QueueInit, QueueInv, OnlyRunningLeased, FenceNeverReused, VerdictsMatchTable,
         VerdictEndsLease, Absent, Terminal

LEMMA StepLeased ==
    QueueTypeOK /\ OnlyRunningLeased /\ [QueueNext]_queueVars
      => OnlyRunningLeased'
<1> SUFFICES ASSUME QueueTypeOK, OnlyRunningLeased, [QueueNext]_queueVars
             PROVE  OnlyRunningLeased'
    OBVIOUS
<1> USE DEF QueueTypeOK, OnlyRunningLeased, NoLease
<1>1. ASSUME NEW j \in Jobs, EnqueueJob(j) PROVE OnlyRunningLeased'
      BY <1>1 DEF EnqueueJob, Rows
<1>2. CASE RecycleExpiredLeases
      BY <1>2 DEF RecycleExpiredLeases, Requeued
<1>3. ASSUME NEW w \in Workers, NEW j \in Jobs, LeaseNextJob(w, j)
      PROVE  OnlyRunningLeased'
      BY <1>3 DEF LeaseNextJob, LeasedTo
<1>4. ASSUME NEW l \in issued, HeartbeatJobLease(l) PROVE OnlyRunningLeased'
  <2>1. Extended(job[l.job]).status = "RUNNING"
        BY <1>4, IssuedType DEF HeartbeatJobLease, Owns, Extended, Rows
  <2> QED BY <1>4, <2>1, IssuedType DEF HeartbeatJobLease
<1>5. ASSUME NEW l \in issued, MarkJobSucceeded(l) PROVE OnlyRunningLeased'
      BY <1>5, IssuedType DEF MarkJobSucceeded, Finished
<1>6. ASSUME NEW l \in issued, MarkJobFailedRetry(l) PROVE OnlyRunningLeased'
      BY <1>6, IssuedType DEF MarkJobFailedRetry, Requeued
<1>7. ASSUME NEW l \in issued, MarkJobFailedFinal(l) PROVE OnlyRunningLeased'
      BY <1>7, IssuedType DEF MarkJobFailedFinal, Finished
<1>8. CASE Tick
      BY <1>8 DEF Tick, PassTime, Aged
<1>9. CASE UNCHANGED queueVars
      BY <1>9 DEF queueVars
<1> QED
    BY <1>1, <1>2, <1>3, <1>4, <1>5, <1>6, <1>7, <1>8, <1>9 DEF QueueNext

LEMMA QuietStep ==
    ASSUME QueueInv, QueueTypeOK', OnlyRunningLeased',
           issued' = issued, verdicts' = verdicts,
           \A k \in Jobs : /\ job'[k].attempt = job[k].attempt
                           /\ \/ /\ job'[k].status = job[k].status
                                 /\ job'[k].worker = job[k].worker
                              \/ /\ job[k].status \notin Terminal
                                 /\ job'[k].status = "QUEUED"
    PROVE  QueueInv'
<1>1. FenceNeverReused'
      BY DEF QueueInv, QueueTypeOK, FenceNeverReused, Leases
<1>2. VerdictsMatchTable'
  <2>1. ASSUME NEW v \in verdicts PROVE VerdictTrue(v)'
    <3>1. /\ v.lease.job \in Jobs /\ VerdictTrue(v)
          /\ v.result \in {"succeeded", "retry", "failed"}
          BY DEF QueueInv, QueueTypeOK, VerdictsMatchTable, Leases, Verdicts
    <3>2. CASE v.result = "retry"
          BY <3>1, <3>2 DEF VerdictTrue
    <3>3. CASE v.result # "retry"
      <4>1. job[v.lease.job].status \in Terminal
            BY <3>1, <3>3 DEF VerdictTrue, Terminal
      <4> QED BY <3>1, <3>3, <4>1 DEF VerdictTrue
    <3> QED BY <3>2, <3>3
  <2>2. ASSUME NEW j \in Jobs, job'[j].status \in Terminal
        PROVE  job[j].status \in Terminal
        BY <2>2 DEF Terminal
  <2> QED BY <2>1, <2>2 DEF QueueInv, VerdictsMatchTable
<1>3. VerdictEndsLease'
      BY DEF QueueInv, QueueTypeOK, VerdictEndsLease, Terminal, Leases, Verdicts
<1> QED BY <1>1, <1>2, <1>3 DEF QueueInv

LEMMA LeaseStep ==
    ASSUME QueueInv, QueueTypeOK', OnlyRunningLeased', NEW w \in Workers, NEW j \in Jobs,
           LeaseNextJob(w, j)
    PROVE  QueueInv'
<1> DEFINE new == [job |-> j, worker |-> w, attempt |-> job[j].attempt + 1]
<1>1. /\ issued' = issued \cup {new}
      /\ verdicts' = verdicts
      /\ job[j].status = "QUEUED"
      /\ job' = [job EXCEPT ![j] = LeasedTo(job[j], w)]
      BY DEF LeaseNextJob, Available
<1>2. /\ job[j] \in Rows
      /\ job'[j].status = "RUNNING" /\ job'[j].worker = w
      /\ job'[j].attempt = job[j].attempt + 1
      /\ \A k \in Jobs \ {j} : job'[k] = job[k]
      BY <1>1 DEF LeasedTo, QueueInv, QueueTypeOK
<1>3. FenceNeverReused'
      BY <1>1, <1>2
         DEF QueueInv, QueueTypeOK, FenceNeverReused, Leases, Rows
<1>4. VerdictsMatchTable'
  <2>1. ASSUME NEW v \in verdicts
        PROVE  v.lease \in issued' /\ VerdictTrue(v)'
    <3>1. v.lease \in issued /\ VerdictTrue(v) /\ v.lease.job \in Jobs
          BY IssuedType DEF QueueInv, VerdictsMatchTable
    <3>2. v.result \in {"succeeded", "retry", "failed"}
          BY DEF QueueInv, QueueTypeOK, Verdicts
    <3>3. CASE v.lease.job = j
          BY <1>1, <3>1, <3>2, <3>3 DEF VerdictTrue
    <3>4. CASE v.lease.job # j
          BY <1>1, <1>2, <3>1, <3>4 DEF VerdictTrue
    <3> QED BY <3>3, <3>4
  <2>2. ASSUME NEW k \in Jobs, job'[k].status \in Terminal
        PROVE  k # j /\ job'[k] = job[k]
        BY <1>2, <2>2 DEF Terminal
  <2>3. ASSUME NEW k \in Jobs, job'[k].status \in Terminal
        PROVE  \E v \in verdicts' : v.lease.job = k /\ v.result # "retry"
        BY <1>1, <2>2, <2>3 DEF QueueInv, VerdictsMatchTable
  <2> QED BY <1>1, <2>1, <2>3 DEF QueueInv, VerdictsMatchTable
<1>5. VerdictEndsLease'
      BY <1>1, <1>2
         DEF QueueInv, QueueTypeOK, VerdictEndsLease, VerdictsMatchTable,
             FenceNeverReused, Leases, Verdicts, Rows
<1> QED BY <1>3, <1>4, <1>5 DEF QueueInv

LEMMA VerdictStep ==
    ASSUME QueueInv, QueueTypeOK', OnlyRunningLeased', NEW l \in issued, Owns(l),
           NEW r \in {"succeeded", "retry", "failed"},
           issued' = issued,
           verdicts' = verdicts \cup {[lease |-> l, result |-> r]},
           \A k \in Jobs \ {l.job} : job'[k] = job[k],
           job'[l.job].attempt = l.attempt,
           \/ /\ r = "succeeded" /\ job'[l.job].status = "SUCCEEDED"
              /\ job'[l.job].worker = l.worker
           \/ /\ r = "failed" /\ job'[l.job].status = "FAILED"
              /\ job'[l.job].worker = l.worker /\ l.attempt >= MaxAttempts
           \/ /\ r = "retry" /\ job'[l.job].status = "QUEUED"
              /\ l.attempt < MaxAttempts
    PROVE  QueueInv'
<1>1. /\ l \in Leases /\ l.job \in Jobs
      /\ job[l.job].status = "RUNNING" /\ job[l.job].attempt = l.attempt
      BY IssuedType DEF QueueInv, Owns
<1>2. \A v \in verdicts : v.lease # l
      BY <1>1 DEF QueueInv, VerdictEndsLease
<1>3. FenceNeverReused'
      BY <1>1 DEF QueueInv, QueueTypeOK, FenceNeverReused, Leases
<1>4. VerdictsMatchTable'
  <2> DEFINE said == [lease |-> l, result |-> r]
  <2>1. \A v, u \in verdicts' : v.lease = u.lease => v = u
        BY <1>2 DEF QueueInv, VerdictsMatchTable
  <2>2. ASSUME NEW v \in verdicts'
        PROVE  v.lease \in issued' /\ VerdictTrue(v)'
    <3>1. CASE v = said
          BY <1>1, <3>1 DEF VerdictTrue
    <3>2. CASE v \in verdicts /\ v.lease.job # l.job
      <4>1. v.lease \in issued /\ VerdictTrue(v) /\ v.lease.job \in Jobs
            BY <3>2, IssuedType DEF QueueInv, VerdictsMatchTable
      <4>2. job'[v.lease.job] = job[v.lease.job]
            BY <3>2, <4>1
      <4> QED BY <4>1, <4>2 DEF VerdictTrue
    <3>3. CASE v \in verdicts /\ v.lease.job = l.job
      <4>1. v.result = "retry"
            BY <1>1, <3>3 DEF QueueInv, QueueTypeOK, VerdictsMatchTable,
                              VerdictTrue, Leases, Verdicts
      <4> QED BY <3>3, <4>1 DEF QueueInv, VerdictsMatchTable, VerdictTrue
    <3> QED BY <3>1, <3>2, <3>3
  <2>3. ASSUME NEW j \in Jobs, job'[j].status \in Terminal
        PROVE  \E v \in verdicts' : v.lease.job = j /\ v.result # "retry"
    <3>1. CASE j = l.job
      <4>1. said \in verdicts' /\ said.lease.job = j /\ r # "retry"
            BY <2>3, <3>1 DEF Terminal
      <4> QED BY <4>1
    <3>2. CASE j # l.job
          BY <2>3, <3>2 DEF QueueInv, VerdictsMatchTable
    <3> QED BY <3>1, <3>2
  <2> QED BY <2>1, <2>2, <2>3 DEF VerdictsMatchTable
<1>5. VerdictEndsLease'
      BY <1>1, <1>2
         DEF QueueInv, QueueTypeOK, VerdictEndsLease, Leases, Verdicts
<1> QED BY <1>3, <1>4, <1>5 DEF QueueInv

LEMMA StepInv == QueueInv /\ [QueueNext]_queueVars => QueueInv'
<1> SUFFICES ASSUME QueueInv, [QueueNext]_queueVars PROVE QueueInv'
    OBVIOUS
<1>0. QueueTypeOK /\ QueueTypeOK' /\ OnlyRunningLeased'
      BY StepType, StepLeased DEF QueueInv
<1>1. ASSUME NEW j \in Jobs, EnqueueJob(j) PROVE QueueInv'
      BY <1>0, <1>1, QuietStep DEF EnqueueJob, QueueTypeOK, Rows, Terminal
<1>2. CASE RecycleExpiredLeases
      BY <1>0, <1>2, QuietStep
         DEF RecycleExpiredLeases, Requeued, Expired, QueueTypeOK, Terminal
<1>3. ASSUME NEW w \in Workers, NEW j \in Jobs, LeaseNextJob(w, j)
      PROVE  QueueInv'
      BY <1>0, <1>3, LeaseStep
<1>4. ASSUME NEW l \in issued, HeartbeatJobLease(l) PROVE QueueInv'
  <2>1. l.job \in Jobs /\ job[l.job] \in Rows
        BY <1>0, IssuedType
  <2>2. /\ Extended(job[l.job]).attempt = job[l.job].attempt
        /\ Extended(job[l.job]).status = job[l.job].status
        /\ Extended(job[l.job]).worker = job[l.job].worker
        BY <2>1 DEF Extended, Rows
  <2> QED BY <1>0, <1>4, <2>1, <2>2, QuietStep
             DEF HeartbeatJobLease, QueueTypeOK
<1>5. ASSUME NEW l \in issued, MarkJobSucceeded(l) PROVE QueueInv'
  <2>1. l.job \in Jobs /\ job[l.job] \in Rows
        BY <1>0, IssuedType
  <2> QED BY <1>0, <1>5, <2>1, VerdictStep
             DEF MarkJobSucceeded, Finished, Owns, QueueTypeOK
<1>6. ASSUME NEW l \in issued, MarkJobFailedRetry(l) PROVE QueueInv'
  <2>1. l.job \in Jobs /\ job[l.job] \in Rows
        BY <1>0, IssuedType
  <2> QED BY <1>0, <1>6, <2>1, VerdictStep
             DEF MarkJobFailedRetry, Requeued, Owns, QueueTypeOK
<1>7. ASSUME NEW l \in issued, MarkJobFailedFinal(l) PROVE QueueInv'
  <2>1. l.job \in Jobs /\ job[l.job] \in Rows
        BY <1>0, IssuedType
  <2> QED BY <1>0, <1>7, <2>1, VerdictStep
             DEF MarkJobFailedFinal, Finished, Owns, QueueTypeOK
<1>8. CASE Tick
      BY <1>0, <1>8, QuietStep DEF Tick, PassTime, Aged, QueueTypeOK
<1>9. CASE UNCHANGED queueVars
      BY <1>0, <1>9, QuietStep DEF queueVars
<1> QED
    BY <1>1, <1>2, <1>3, <1>4, <1>5, <1>6, <1>7, <1>8, <1>9 DEF QueueNext

(* The inductive invariant.                                                *)
THEOREM QueueInvariant == QueueSpec => []QueueInv
  BY InitInv, StepInv, PTL DEF QueueSpec

(* Fencing tokens are never reused, however leases expire, are recycled,   *)
(* retried or abandoned.                                                   *)
THEOREM FencingHolds == QueueSpec => []FenceNeverReused
<1>1. QueueInv => FenceNeverReused
      BY DEF QueueInv
<1> QED BY QueueInvariant, <1>1, PTL

(* Callers are told the truth: one verdict per lease, the final one on the *)
(* newest lease and equal to what the table says.                          *)
THEOREM VerdictsHold == QueueSpec => []VerdictsMatchTable
<1>1. QueueInv => VerdictsMatchTable
      BY DEF QueueInv
<1> QED BY QueueInvariant, <1>1, PTL

-----------------------------------------------------------------------------
(* Terminal rows and live leases.                                          *)
LEMMA StepKeepsTerminal ==
    QueueInv /\ [QueueNext]_queueVars
      => [\A j \in Jobs : job[j].status \in Terminal => job'[j] = job[j]]_queueVars
<1> SUFFICES ASSUME QueueInv, QueueNext, NEW k \in Jobs,
                    job[k].status \in Terminal
             PROVE  job'[k] = job[k]
    BY DEF queueVars
<1> USE DEF QueueInv, QueueTypeOK, Terminal
<1>1. ASSUME NEW j \in Jobs, EnqueueJob(j) PROVE job'[k] = job[k]
      BY <1>1 DEF EnqueueJob
<1>2. CASE RecycleExpiredLeases
      BY <1>2 DEF RecycleExpiredLeases, Expired
<1>3. ASSUME NEW w \in Workers, NEW j \in Jobs, LeaseNextJob(w, j)
      PROVE  job'[k] = job[k]
      BY <1>3 DEF LeaseNextJob, Available
<1>4. ASSUME NEW l \in issued,
             HeartbeatJobLease(l) \/ MarkJobSucceeded(l)
               \/ MarkJobFailedRetry(l) \/ MarkJobFailedFinal(l)
      PROVE  job'[k] = job[k]
  <2>1. l.job # k
        BY <1>4 DEF HeartbeatJobLease, MarkJobSucceeded, MarkJobFailedRetry,
                    MarkJobFailedFinal, Owns
  <2> QED BY <1>4, <2>1 DEF HeartbeatJobLease, MarkJobSucceeded,
                            MarkJobFailedRetry, MarkJobFailedFinal
<1>5. CASE Tick
  <2>1. job[k] \in Rows /\ job[k].status # "QUEUED" /\ ~(job[k].lease > 0)
        BY DEF OnlyRunningLeased, NoLease
  <2>2. Aged(job[k]) = job[k]
        BY <2>1 DEF Aged, Rows
  <2> QED BY <1>5, <2>2 DEF Tick, PassTime
<1> QED BY <1>1, <1>2, <1>3, <1>4, <1>5 DEF QueueNext

(* A terminal row never changes again.                                     *)
THEOREM TerminalHolds == QueueSpec => TerminalIsFinal
  BY QueueInvariant, StepKeepsTerminal, PTL DEF QueueSpec, TerminalIsFinal

LEMMA StepSparesLiveLease ==
    QueueInv /\ [QueueNext]_queueVars
      => [\A l \in issued :
            Owns(l) /\ ~(job'[l.job].status = "RUNNING"
                         /\ job'[l.job].attempt = l.attempt)
               => \E v \in verdicts' \ verdicts : v.lease = l]_queueVars
<1> SUFFICES ASSUME QueueInv, QueueNext, NEW l \in issued, Owns(l),
                    ~(job'[l.job].status = "RUNNING"
                        /\ job'[l.job].attempt = l.attempt)
             PROVE  \E v \in verdicts' \ verdicts : v.lease = l
    BY DEF queueVars
<1>0. /\ l.job \in Jobs /\ job[l.job] \in Rows /\ job \in [Jobs -> Rows]
      /\ job[l.job].status = "RUNNING" /\ job[l.job].attempt = l.attempt
      /\ job[l.job].worker = l.worker
      /\ job[l.job].lease > 0 /\ l \in Leases
      /\ \A v \in verdicts : v.lease # l
      BY IssuedType DEF QueueInv, QueueTypeOK, Owns, VerdictEndsLease
<1>1. ASSUME NEW j \in Jobs, EnqueueJob(j) PROVE FALSE
      BY <1>0, <1>1 DEF EnqueueJob
<1>2. ASSUME RecycleExpiredLeases PROVE FALSE
      BY <1>0, <1>2 DEF RecycleExpiredLeases, Expired
<1>3. ASSUME NEW w \in Workers, NEW j \in Jobs, LeaseNextJob(w, j) PROVE FALSE
      BY <1>0, <1>3 DEF LeaseNextJob, Available
<1>4. ASSUME NEW m \in issued, HeartbeatJobLease(m) PROVE FALSE
      BY <1>0, <1>4 DEF HeartbeatJobLease, Extended, Rows
<1>5. ASSUME NEW m \in issued,
             MarkJobSucceeded(m) \/ MarkJobFailedRetry(m)
               \/ MarkJobFailedFinal(m)
      PROVE  \E v \in verdicts' \ verdicts : v.lease = l
  <2>1. Owns(m) /\ m \in Leases
        BY <1>5, IssuedType
           DEF MarkJobSucceeded, MarkJobFailedRetry, MarkJobFailedFinal, QueueInv
  <2>2. m.job = l.job
        BY <1>0, <1>5 DEF MarkJobSucceeded, MarkJobFailedRetry, MarkJobFailedFinal
  <2>3. m = l
        BY <1>0, <2>1, <2>2 DEF Owns, Leases
  <2>4. ASSUME NEW r, verdicts' = verdicts \cup {[lease |-> l, result |-> r]}
        PROVE  \E v \in verdicts' \ verdicts : v.lease = l
    <3>1. [lease |-> l, result |-> r].lease = l
          OBVIOUS
    <3> QED BY <1>0, <2>4, <3>1
  <2> QED BY <1>5, <2>3, <2>4
             DEF MarkJobSucceeded, MarkJobFailedRetry, MarkJobFailedFinal
<1>6. ASSUME Tick PROVE FALSE
      BY <1>0, <1>6 DEF Tick, PassTime, Aged
<1> QED BY <1>1, <1>2, <1>3, <1>4, <1>5, <1>6 DEF QueueNext

(* No recycle and no other worker takes a row whose lease is still running.*)
THEOREM LiveLeaseHolds == QueueSpec => LiveLeaseUndisturbed
  BY QueueInvariant, StepSparesLiveLease, PTL DEF QueueSpec, LiveLeaseUndisturbed

LEMMA StepKeepsStale ==
    QueueInv /\ [QueueNext]_queueVars => \A l \in issued : Owns(l)' => Owns(l)
<1> SUFFICES ASSUME QueueInv, [QueueNext]_queueVars, NEW l \in issued, Owns(l)'
             PROVE  Owns(l)
    OBVIOUS
<1>0. /\ l.job \in Jobs /\ job \in [Jobs -> Rows] /\ l.attempt \in Nat
      /\ job[l.job].attempt \in Nat /\ l.attempt <= job[l.job].attempt
      /\ job[l.job].lease \in Int
  <2>1. l.job \in Jobs /\ l.attempt \in 1 .. AttemptBound /\ job \in [Jobs -> Rows]
    BY IssuedType DEF QueueInv, QueueTypeOK, Leases
  <2>2. job[l.job].attempt \in 0 .. AttemptBound /\ job[l.job].lease \in Int
    BY <2>1 DEF Rows
  <2>3. l.attempt <= job[l.job].attempt
    BY DEF QueueInv, FenceNeverReused
  <2>4. QED
    BY <2>1, <2>2, <2>3, TicksAssumption
<1>1. ASSUME UNCHANGED job[l.job] PROVE Owns(l)
  BY <1>1 DEF Owns
<1>2. ASSUME NEW j \in Jobs, EnqueueJob(j) PROVE Owns(l)
  <2>1. CASE j = l.job
    <3>1. job'[j].status = "QUEUED"
      BY <1>0, <1>2 DEF EnqueueJob, Rows
    <3>2. QED
      BY <2>1, <3>1 DEF Owns
  <2>2. CASE j # l.job
    BY <1>0, <1>1, <1>2, <2>2 DEF EnqueueJob
  <2>3. QED
    BY <2>1, <2>2
<1>3. CASE RecycleExpiredLeases
  <2>1. CASE Expired(l.job)
    <3>1. job'[l.job].status = "QUEUED"
      BY <1>0, <1>3, <2>1 DEF RecycleExpiredLeases, Requeued
    <3>2. QED
      BY <3>1 DEF Owns
  <2>2. CASE ~Expired(l.job)
    BY <1>0, <1>1, <1>3, <2>2 DEF RecycleExpiredLeases
  <2>3. QED
    BY <2>1, <2>2
<1>4. ASSUME NEW w \in Workers, NEW j \in Jobs, LeaseNextJob(w, j) PROVE Owns(l)
  <2>1. CASE j = l.job
    <3>1. job'[j].attempt = job[j].attempt + 1
      BY <1>0, <1>4 DEF LeaseNextJob, LeasedTo
    <3>2. QED
      BY <1>0, <2>1, <3>1 DEF Owns
  <2>2. CASE j # l.job
    BY <1>0, <1>1, <1>4, <2>2 DEF LeaseNextJob
  <2>3. QED
    BY <2>1, <2>2
<1>5. ASSUME NEW m \in issued, HeartbeatJobLease(m) PROVE Owns(l)
  <2>1. CASE m.job = l.job
    <3>1. PICK row : row = [job[l.job] EXCEPT !.lease = BeatTicks]
      OBVIOUS
    <3>2. /\ row.status = job[l.job].status /\ row.worker = job[l.job].worker
          /\ row.attempt = job[l.job].attempt
      BY <1>0, <3>1 DEF Rows
    <3>3. job'[l.job] = row /\ job[l.job].lease > 0
      BY <1>0, <1>5, <2>1, <3>1 DEF HeartbeatJobLease, Extended, Owns
    <3>4. QED
      BY <3>2, <3>3 DEF Owns
  <2>2. CASE m.job # l.job
    BY <1>0, <1>1, <1>5, <2>2 DEF HeartbeatJobLease
  <2>3. QED
    BY <2>1, <2>2
<1>6. ASSUME NEW m \in issued,
             MarkJobSucceeded(m) \/ MarkJobFailedRetry(m) \/ MarkJobFailedFinal(m)
      PROVE  Owns(l)
  <2>1. CASE m.job = l.job
    <3>1. job'[l.job].status # "RUNNING"
      BY <1>0, <1>6, <2>1
      DEF MarkJobSucceeded, MarkJobFailedRetry, MarkJobFailedFinal, Requeued, Finished
    <3>2. QED
      BY <3>1 DEF Owns
  <2>2. CASE m.job # l.job
    BY <1>0, <1>1, <1>6, <2>2 DEF MarkJobSucceeded, MarkJobFailedRetry, MarkJobFailedFinal
  <2>3. QED
    BY <2>1, <2>2
<1>7. CASE Tick
  <2>1. job'[l.job] = Aged(job[l.job])
    BY <1>0, <1>7 DEF Tick, PassTime
  <2>2. QED
    BY <1>0, <2>1 DEF Aged, Owns
<1>8. CASE UNCHANGED queueVars
  BY <1>1, <1>8 DEF queueVars
<1>9. QED
  BY <1>2, <1>3, <1>4, <1>5, <1>6, <1>7, <1>8 DEF QueueNext

(* A lease that is lost is lost for good: whatever is recycled, retried or *)
(* attempted again, under the same worker name or another one, no later    *)
(* call on its behalf is accepted.                                         *)
THEOREM LostForGood ==
    QueueSpec => [][\A l \in issued : ~Owns(l) => ~Owns(l)']_queueVars
<1>1. QueueInv /\ [QueueNext]_queueVars
        => [\A l \in issued : ~Owns(l) => ~Owns(l)']_queueVars
  BY StepKeepsStale
<1>2. QED
  BY QueueInvariant, <1>1, PTL DEF QueueSpec

-----------------------------------------------------------------------------
(* The queue implements ExclusiveWork.                                     *)
LEMMA FreshRefines ==
    ASSUME \A j \in Jobs : /\ job[j].status \in {"ABSENT", "QUEUED"}
                          /\ job[j].attempt = 0 /\ job[j].worker = NoWorker,
           verdicts = {}
    PROVE  Work!WorkInit
  BY DEF Work!WorkInit, PhaseOf

LEMMA InitRefines == QueueInit => Work!WorkInit
  BY FreshRefines DEF QueueInit, Absent

LEMMA PhaseValues ==
    /\ PhaseOf("ABSENT") = "none"      /\ PhaseOf("QUEUED") = "waiting"
    /\ PhaseOf("RUNNING") = "held"     /\ PhaseOf("FAILED") = "failed"
    /\ PhaseOf("SUCCEEDED") = "succeeded"
  BY DEF PhaseOf

(* The mapped variables, and what a change of one row makes of them.       *)
PhaseMap  == [j \in Jobs |-> PhaseOf(job[j].status)]
TurnMap   == [j \in Jobs |-> job[j].attempt]
HolderMap == [j \in Jobs |-> job[j].worker]
LogMap    == {<<v.lease.job, v.lease.attempt, v.lease.worker, v.result>> :
                 v \in verdicts}

LEMMA LogChange ==
    ASSUME NEW l \in issued, NEW r,
           verdicts' = verdicts \cup {[lease |-> l, result |-> r]}
    PROVE  LogMap' = LogMap \cup {<<l.job, l.attempt, l.worker, r>>}
<1> DEFINE said == [lease |-> l, result |-> r]
           entry(v) == <<v.lease.job, v.lease.attempt, v.lease.worker, v.result>>
<1>1. entry(said) = <<l.job, l.attempt, l.worker, r>>
      OBVIOUS
<1>2. LogMap = {entry(v) : v \in verdicts} /\ LogMap' = {entry(v) : v \in verdicts'}
      BY DEF LogMap
<1>3. verdicts' = verdicts \cup {said}
      OBVIOUS
<1> HIDE DEF said, entry
<1> QED BY <1>1, <1>2, <1>3

LEMMA RowFields ==
    \A row, wait, w, status :
       /\ Requeued(row, wait).status = "QUEUED"
       /\ Requeued(row, wait).attempt = row.attempt
       /\ Requeued(row, wait).worker = NoWorker
       /\ LeasedTo(row, w).status = "RUNNING"
       /\ LeasedTo(row, w).attempt = row.attempt + 1
       /\ LeasedTo(row, w).worker = w
       /\ Finished(row, status).status = status
       /\ Finished(row, status).attempt = row.attempt
       /\ Finished(row, status).worker = row.worker
  BY DEF Requeued, LeasedTo, Finished

(* The actions of ExclusiveWork in terms of the mapped variables.          *)
LEMMA ShowStutter ==
    ASSUME PhaseMap' = PhaseMap, TurnMap' = TurnMap, HolderMap' = HolderMap,
           verdicts' = verdicts
    PROVE  UNCHANGED Work!workVars
  BY DEF Work!workVars, PhaseMap, TurnMap, HolderMap

LEMMA ShowSubmit ==
    ASSUME NEW j \in Jobs, PhaseMap[j] = "none",
           PhaseMap' = [PhaseMap EXCEPT ![j] = "waiting"],
           TurnMap' = TurnMap, HolderMap' = HolderMap, verdicts' = verdicts
    PROVE  Work!Submit(j)
  BY DEF Work!Submit, PhaseMap, TurnMap, HolderMap

LEMMA ShowHandOut ==
    ASSUME NEW j \in Jobs, NEW w \in Workers, PhaseMap[j] = "waiting",
           PhaseMap' = [PhaseMap EXCEPT ![j] = "held"],
           TurnMap' = [TurnMap EXCEPT ![j] = TurnMap[j] + 1],
           HolderMap' = [HolderMap EXCEPT ![j] = w], verdicts' = verdicts
    PROVE  Work!HandOut(j, w)
  BY DEF Work!HandOut, PhaseMap, TurnMap, HolderMap

LEMMA ShowTakeAway ==
    ASSUME NEW lost \in SUBSET Jobs,
           \A j \in lost : PhaseMap[j] = "held",
           PhaseMap' = [j \in Jobs |-> IF j \in lost THEN "waiting"
                                       ELSE PhaseMap[j]],
           HolderMap' = [j \in Jobs |-> IF j \in lost THEN NoWorker
                                        ELSE HolderMap[j]],
           TurnMap' = TurnMap, verdicts' = verdicts
    PROVE  Work!TakeAway(lost)
  BY DEF Work!TakeAway, PhaseMap, TurnMap, HolderMap

LEMMA ShowFinish ==
    ASSUME NEW j \in Jobs, NEW outcome, PhaseMap[j] = "held",
           PhaseMap' = [PhaseMap EXCEPT ![j] = outcome],
           TurnMap' = TurnMap, HolderMap' = HolderMap,
           LogMap' = LogMap \cup {<<j, TurnMap[j], HolderMap[j], outcome>>}
    PROVE  Work!Finish(j, outcome)
  BY DEF Work!Finish, Work!Said, PhaseMap, TurnMap, HolderMap, LogMap

LEMMA ShowGiveBack ==
    ASSUME NEW j \in Jobs, PhaseMap[j] = "held",
           PhaseMap' = [PhaseMap EXCEPT ![j] = "waiting"],
           TurnMap' = TurnMap,
           HolderMap' = [HolderMap EXCEPT ![j] = NoWorker],
           LogMap' = LogMap \cup {<<j, TurnMap[j], HolderMap[j], "retry">>}
    PROVE  Work!GiveBack(j)
  BY DEF Work!GiveBack, Work!Said, PhaseMap, TurnMap, HolderMap, LogMap

LEMMA StepRefines ==
    QueueInv /\ [QueueNext]_queueVars => [Work!WorkNext]_(Work!workVars)
<1> SUFFICES ASSUME QueueInv, [QueueNext]_queueVars
             PROVE  Work!WorkNext \/ UNCHANGED Work!workVars
    OBVIOUS
<1>0. /\ job \in [Jobs -> Rows]
      /\ \A l \in issued : l \in Leases /\ l.job \in Jobs
      BY IssuedType DEF QueueInv, QueueTypeOK
<1>M. \A j \in Jobs : /\ PhaseMap[j] = PhaseOf(job[j].status)
                      /\ TurnMap[j] = job[j].attempt
                      /\ HolderMap[j] = job[j].worker
      BY DEF PhaseMap, TurnMap, HolderMap
<1>1. ASSUME NEW j \in Jobs, EnqueueJob(j) PROVE Work!Submit(j)
  <2> DEFINE row == [job[j] EXCEPT !.status = "QUEUED"]
  <2>1. /\ row.status = "QUEUED" /\ row.attempt = job[j].attempt
        /\ row.worker = job[j].worker
        BY <1>0 DEF Rows
  <2>2. job' = [job EXCEPT ![j] = row] /\ verdicts' = verdicts
        BY <1>1 DEF EnqueueJob
  <2>3. /\ PhaseMap' = [PhaseMap EXCEPT ![j] = "waiting"]
        /\ TurnMap' = TurnMap /\ HolderMap' = HolderMap
        BY <1>0, <2>1, <2>2, PhaseValues DEF PhaseMap, TurnMap, HolderMap
  <2>4. PhaseMap[j] = "none"
        BY <1>1, <1>M, PhaseValues DEF EnqueueJob
  <2> QED BY <2>2, <2>3, <2>4, ShowSubmit
<1>2. ASSUME RecycleExpiredLeases
      PROVE  \E lost \in SUBSET Jobs : Work!TakeAway(lost)
  <2>0. PICK gone \in SUBSET Jobs : gone = {j \in Jobs : Expired(j)}
        OBVIOUS
  <2>1. \A j \in gone : PhaseMap[j] = "held"
        BY <1>M, <2>0, PhaseValues DEF Expired
  <2>2. PhaseMap' = [j \in Jobs |-> IF j \in gone THEN "waiting" ELSE PhaseMap[j]]
        BY <1>2, <2>0, PhaseValues DEF PhaseMap, RecycleExpiredLeases, Requeued
  <2>3. HolderMap' = [j \in Jobs |-> IF j \in gone THEN NoWorker ELSE HolderMap[j]]
        BY <1>2, <2>0 DEF HolderMap, RecycleExpiredLeases, Requeued
  <2>4. TurnMap' = TurnMap
        BY <1>2 DEF TurnMap, RecycleExpiredLeases, Requeued
  <2>5. verdicts' = verdicts
        BY <1>2 DEF RecycleExpiredLeases
  <2>6. Work!TakeAway(gone)
        BY <2>1, <2>2, <2>3, <2>4, <2>5, ShowTakeAway
  <2> QED BY <2>6
<1>3. ASSUME NEW w \in Workers, NEW j \in Jobs, LeaseNextJob(w, j)
      PROVE  Work!HandOut(j, w)
  <2>1. /\ PhaseMap' = [PhaseMap EXCEPT ![j] = "held"]
        /\ TurnMap' = [TurnMap EXCEPT ![j] = TurnMap[j] + 1]
        /\ HolderMap' = [HolderMap EXCEPT ![j] = w]
    <3>0. PICK row : row = LeasedTo(job[j], w)
          OBVIOUS
    <3>a. row.status = "RUNNING" /\ row.attempt = job[j].attempt + 1 /\ row.worker = w
          BY <3>0, RowFields
    <3>1. job' = [job EXCEPT ![j] = row]
          BY <3>0, <1>3 DEF LeaseNextJob
    <3>2. /\ PhaseMap' = [PhaseMap EXCEPT ![j] = PhaseOf("RUNNING")]
          /\ TurnMap' = [TurnMap EXCEPT ![j] = job[j].attempt + 1]
          /\ HolderMap' = [HolderMap EXCEPT ![j] = w]
          BY <1>0, <3>a, <3>1 DEF PhaseMap, TurnMap, HolderMap
    <3> QED BY <1>0, <1>M, <3>2, PhaseValues
  <2>2. PhaseMap[j] = "waiting" /\ verdicts' = verdicts
        BY <1>3, <1>M, PhaseValues DEF LeaseNextJob, Available
  <2> QED BY <2>1, <2>2, ShowHandOut
<1>4. ASSUME NEW l \in issued, HeartbeatJobLease(l)
      PROVE  UNCHANGED Work!workVars
  <2>1. /\ Extended(job[l.job]).status = job[l.job].status
        /\ Extended(job[l.job]).attempt = job[l.job].attempt
        /\ Extended(job[l.job]).worker = job[l.job].worker
        BY <1>0 DEF Extended, Rows
  <2>2. PhaseMap' = PhaseMap /\ TurnMap' = TurnMap /\ HolderMap' = HolderMap
        BY <1>0, <1>4, <2>1 DEF HeartbeatJobLease, PhaseMap, TurnMap, HolderMap
  <2> QED BY <1>4, <2>2, ShowStutter DEF HeartbeatJobLease
<1>5. ASSUME NEW l \in issued, MarkJobSucceeded(l)
      PROVE  Work!Finish(l.job, "succeeded")
  <2>1. /\ PhaseMap[l.job] = "held" /\ TurnMap[l.job] = l.attempt
        /\ HolderMap[l.job] = l.worker
        BY <1>0, <1>5, <1>M, PhaseValues DEF MarkJobSucceeded, Owns
  <2>2. /\ PhaseMap' = [PhaseMap EXCEPT ![l.job] = "succeeded"]
        /\ TurnMap' = [TurnMap EXCEPT ![l.job] = TurnMap[l.job]]
        /\ HolderMap' = [HolderMap EXCEPT ![l.job] = HolderMap[l.job]]
    <3>0. PICK row : row = Finished(job[l.job], "SUCCEEDED")
          OBVIOUS
    <3>a. row.status = "SUCCEEDED" /\ row.attempt = job[l.job].attempt /\ row.worker = job[l.job].worker
          BY <3>0, RowFields
    <3>1. job' = [job EXCEPT ![l.job] = row]
          BY <3>0, <1>5 DEF MarkJobSucceeded
    <3>2. /\ PhaseMap' = [PhaseMap EXCEPT ![l.job] = PhaseOf("SUCCEEDED")]
          /\ TurnMap' = [TurnMap EXCEPT ![l.job] = job[l.job].attempt]
          /\ HolderMap' = [HolderMap EXCEPT ![l.job] = job[l.job].worker]
          BY <1>0, <3>a, <3>1 DEF PhaseMap, TurnMap, HolderMap
    <3> QED BY <1>0, <1>M, <3>2, PhaseValues
  <2>3. LogMap' = LogMap \cup {<<l.job, l.attempt, l.worker, "succeeded">>}
        BY <1>5, LogChange DEF MarkJobSucceeded
  <2>4. TurnMap' = TurnMap /\ HolderMap' = HolderMap
        BY <2>2 DEF TurnMap, HolderMap
  <2> QED BY <1>0, <2>1, <2>2, <2>3, <2>4, ShowFinish
<1>6. ASSUME NEW l \in issued, MarkJobFailedRetry(l)
      PROVE  Work!GiveBack(l.job)
  <2>1. /\ PhaseMap[l.job] = "held" /\ TurnMap[l.job] = l.attempt
        /\ HolderMap[l.job] = l.worker
        BY <1>0, <1>6, <1>M, PhaseValues DEF MarkJobFailedRetry, Owns
  <2>2. /\ PhaseMap' = [PhaseMap EXCEPT ![l.job] = "waiting"]
        /\ TurnMap' = [TurnMap EXCEPT ![l.job] = TurnMap[l.job]]
        /\ HolderMap' = [HolderMap EXCEPT ![l.job] = NoWorker]
    <3>0. PICK row : row = Requeued(job[l.job], Backoff[l.attempt])
          OBVIOUS
    <3>a. row.status = "QUEUED" /\ row.attempt = job[l.job].attempt /\ row.worker = NoWorker
          BY <3>0, RowFields
    <3>1. job' = [job EXCEPT ![l.job] = row]
          BY <3>0, <1>6 DEF MarkJobFailedRetry
    <3>2. /\ PhaseMap' = [PhaseMap EXCEPT ![l.job] = PhaseOf("QUEUED")]
          /\ TurnMap' = [TurnMap EXCEPT ![l.job] = job[l.job].attempt]
          /\ HolderMap' = [HolderMap EXCEPT ![l.job] = NoWorker]
          BY <1>0, <3>a, <3>1 DEF PhaseMap, TurnMap, HolderMap
    <3> QED BY <1>0, <1>M, <3>2, PhaseValues
  <2>3. LogMap' = LogMap \cup {<<l.job, l.attempt, l.worker, "retry">>}
        BY <1>6, LogChange DEF MarkJobFailedRetry
  <2>4. TurnMap' = TurnMap
        BY <2>2 DEF TurnMap
  <2> QED BY <1>0, <2>1, <2>2, <2>3, <2>4, ShowGiveBack
<1>7. ASSUME NEW l \in issued, MarkJobFailedFinal(l)
      PROVE  Work!Finish(l.job, "failed")
  <2>1. /\ PhaseMap[l.job] = "held" /\ TurnMap[l.job] = l.attempt
        /\ HolderMap[l.job] = l.worker
        BY <1>0, <1>7, <1>M, PhaseValues DEF MarkJobFailedFinal, Owns
  <2>2. /\ PhaseMap' = [PhaseMap EXCEPT ![l.job] = "failed"]
        /\ TurnMap' = [TurnMap EXCEPT ![l.job] = TurnMap[l.job]]
        /\ HolderMap' = [HolderMap EXCEPT ![l.job] = HolderMap[l.job]]
    <3>0. PICK row : row = Finished(job[l.job], "FAILED")
          OBVIOUS
    <3>a. row.status = "FAILED" /\ row.attempt = job[l.job].attempt /\ row.worker = job[l.job].worker
          BY <3>0, RowFields
    <3>1. job' = [job EXCEPT ![l.job] = row]
          BY <3>0, <1>7 DEF MarkJobFailedFinal
    <3>2. /\ PhaseMap' = [PhaseMap EXCEPT ![l.job] = PhaseOf("FAILED")]
          /\ TurnMap' = [TurnMap EXCEPT ![l.job] = job[l.job].attempt]
          /\ HolderMap' = [HolderMap EXCEPT ![l.job] = job[l.job].worker]
          BY <1>0, <3>a, <3>1 DEF PhaseMap, TurnMap, HolderMap
    <3> QED BY <1>0, <1>M, <3>2, PhaseValues
  <2>3. LogMap' = LogMap \cup {<<l.job, l.attempt, l.worker, "failed">>}
        BY <1>7, LogChange DEF MarkJobFailedFinal
  <2>4. TurnMap' = TurnMap /\ HolderMap' = HolderMap
        BY <2>2 DEF TurnMap, HolderMap
  <2> QED BY <1>0, <2>1, <2>2, <2>3, <2>4, ShowFinish
<1>8. ASSUME Tick PROVE UNCHANGED Work!workVars
  <2>1. PhaseMap' = PhaseMap /\ TurnMap' = TurnMap /\ HolderMap' = HolderMap
        BY <1>8 DEF Tick, PassTime, Aged, PhaseMap, TurnMap, HolderMap
  <2> QED BY <1>8, <2>1, ShowStutter DEF Tick
<1>9. CASE UNCHANGED queueVars
  <2>1. PhaseMap' = PhaseMap /\ TurnMap' = TurnMap /\ HolderMap' = HolderMap
        BY <1>9 DEF queueVars, PhaseMap, TurnMap, HolderMap
  <2> QED BY <1>9, <2>1, ShowStutter DEF queueVars
<1> QED
    BY <1>0, <1>1, <1>2, <1>3, <1>4, <1>5, <1>6, <1>7, <1>8, <1>9
       DEF QueueNext, Work!WorkNext

(* The queue keeps the promise of ExclusiveWork.                           *)
THEOREM QueueImplementsExclusiveWork == QueueSpec => ImplementsExclusiveWork
  BY QueueInvariant, InitRefines, StepRefines, PTL
     DEF QueueSpec, ImplementsExclusiveWork, Work!WorkSpec
=============================================================================
