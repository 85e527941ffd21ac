----------------------------- MODULE MCJobQueue -----------------------------
(* JobQueue for TLC: jobs with a 15 second timeout, a tick of 5 seconds.   *)
EXTENDS JobQueue, QueueTiming

TickMs    == 5000
TimeoutMs == 15000

MCLeaseTicks == TimeoutMs \div TickMs
MCBeatTicks  == HeartbeatExtensionMs(TimeoutMs) \div TickMs
MCBackoff    == [a \in 1 .. AttemptBound |-> NextBackoffMs(a) \div TickMs]
=============================================================================
