---------------------------- MODULE MCLeaseClock ----------------------------
(* LeaseClock for TLC: timeouts around the edges of heartbeatTiming (one   *)
(* and three seconds, where the interval leaves its minimum, fifteen,      *)
(* where it reaches its maximum of ten for thirty) and the two in use.     *)
EXTENDS LeaseClock

Around(t) == {t - 1, t, t + 1}

MCTimeouts ==
    UNION {Around(t) : t \in {1000, 1500, 2000, 3000, 5000, 15000, 30000}}
       \cup {45000, 90000}
=============================================================================
