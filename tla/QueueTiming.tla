---------------------------- MODULE QueueTiming ----------------------------
(***************************************************************************)
(* The two pure computations the queue and the worker take their times     *)
(* from, in milliseconds: nextBackoffMs (src/worker/queue.ts) and          *)
(* heartbeatTiming (src/worker/worker-cycle.ts).                           *)
(***************************************************************************)
EXTENDS Integers

Larger(a, b)  == IF a >= b THEN a ELSE b
Smaller(a, b) == IF a <= b THEN a ELSE b

(* 5 s, 10 s, 20 s, ... never more than a minute.                          *)
NextBackoffMs(attempt) ==
    Smaller(60000, 5000 * 2 ^ Larger(0, attempt - 1))

(* A third of the job's timeout, between one and ten seconds.              *)
HeartbeatIntervalMs(timeoutMs) ==
    Larger(1000, Smaller(10000, timeoutMs \div 3))

(* Mutant of HeartbeatExtensionMs: a single interval.                      *)
OneIntervalMs(timeoutMs) == Larger(1000, HeartbeatIntervalMs(timeoutMs))

(* What one heartbeat grants.                                              *)
HeartbeatExtensionMs(timeoutMs) ==
    Larger(5000, Smaller(timeoutMs, HeartbeatIntervalMs(timeoutMs) * 3))

=============================================================================
