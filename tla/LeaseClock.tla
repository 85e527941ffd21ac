----------------------------- MODULE LeaseClock -----------------------------
(***************************************************************************)
(* One lease seen by the clock, in milliseconds: the heartbeat timer and   *)
(* the timeout that beginLease starts (src/worker/worker-cycle.ts) against *)
(* the "leasedUntil" they keep ahead of the clock.                         *)
(*                                                                         *)
(* A beat is skipped while the previous one is still on its way to the     *)
(* database (`inFlight'); the model lets any beat be skipped, but not more *)
(* than SkipBound in a row.                                                *)
(***************************************************************************)
EXTENDS QueueTiming

CONSTANTS Timeouts,   \* the "timeoutMs" a job may have
          SkipBound   \* bound: beats skipped in a row

ASSUME TimeoutsAssumption == Timeouts \subseteq Nat \ {0}
ASSUME SkipAssumption == SkipBound \in Nat

VARIABLES timeoutMs,  \* of this job
          now,        \* time since the lease was granted
          leaseEnd,   \* "leasedUntil" on the same clock
          skipped     \* beats skipped since the last one that was sent

clockVars == <<timeoutMs, now, leaseEnd, skipped>>

Interval  == HeartbeatIntervalMs(timeoutMs)
Extension == HeartbeatExtensionMs(timeoutMs)

ClockInit ==
    /\ timeoutMs \in Timeouts
    /\ now = 0
    /\ leaseEnd = timeoutMs
    /\ skipped = 0

(* The interval timer fires before the timeout does, and the row is        *)
(* updated if the lease is still alive.                                    *)
Beat ==
    /\ now + Interval < timeoutMs
    /\ now' = now + Interval
    /\ now' < leaseEnd
    /\ leaseEnd' = now' + Extension
    /\ skipped' = 0
    /\ UNCHANGED timeoutMs

SkipBeat ==
    /\ now + Interval < timeoutMs
    /\ skipped < SkipBound
    /\ now' = now + Interval
    /\ skipped' = skipped + 1
    /\ UNCHANGED <<timeoutMs, leaseEnd>>

(* JOB_TIMEOUT: no beat after this.                                        *)
TimeOut ==
    /\ now < timeoutMs
    /\ now + Interval >= timeoutMs
    /\ now' = timeoutMs
    /\ UNCHANGED <<timeoutMs, leaseEnd, skipped>>

(* After the timeout only the failure is left to report.                   *)
Reported == now = timeoutMs /\ UNCHANGED clockVars

ClockNext == Beat \/ SkipBeat \/ TimeOut \/ Reported

ClockSpec == ClockInit /\ [][ClockNext]_clockVars

-----------------------------------------------------------------------------
(* Types of the clock; it does not run past the timeout.                   *)
ClockTypeOK ==
    /\ timeoutMs \in Timeouts
    /\ now \in 0 .. timeoutMs /\ leaseEnd \in Nat
    /\ skipped \in 0 .. SkipBound

(* A job with a timeout of at least three seconds never loses its lease to *)
(* the clock while single beats are skipped: at every beat and at the      *)
(* timeout at least one further beat interval is left, so a failure        *)
(* caused by JOB_TIMEOUT is still reported under a valid lease.            *)
LeaseOutlivesBeats ==
    timeoutMs >= 3000 => leaseEnd - now >= Interval

=============================================================================
