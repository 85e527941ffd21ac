--------------------------- MODULE MCAuditWorker ---------------------------
(* AuditWorker for TLC: slots are pairs of a process and an index, the     *)
(* jobs are about one run (a first job and its retries), a tick is 15      *)
(* seconds, and timeouts are 30 seconds.                                   *)
EXTENDS AuditWorker, QueueTiming, TLC

TickMs    == 15000
TimeoutMs == 30000

(* Processes are interchangeable.                                          *)
AnyProc == Permutations(Procs)

MCWorkers == Procs \X (1 .. Concurrency)

MCLeaseTicks == TimeoutMs \div TickMs
MCBeatTicks  == HeartbeatExtensionMs(TimeoutMs) \div TickMs
MCBackoff    == [a \in 1 .. AttemptBound |-> NextBackoffMs(a) \div TickMs]

OneRun  == [j \in Jobs |-> CHOOSE r \in Runs : TRUE]
=============================================================================
