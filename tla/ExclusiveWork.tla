--------------------------- MODULE ExclusiveWork ---------------------------
(***************************************************************************)
(* What the job queue promises to whoever submits a job, without leases,   *)
(* clocks or SQL.  A job is worked on in numbered turns.  A turn has one   *)
(* holder; it ends when that holder says so or when the work is taken      *)
(* away, and whatever is recorded about a job was said by the holder of    *)
(* the turn that was running at that moment.  A finished job stays so.     *)
(***************************************************************************)
EXTENDS Integers

CONSTANTS Jobs, Workers, Nobody

VARIABLES phase,   \* where each job stands
          turn,    \* how often it has been handed out
          holder,  \* who works on it now
          log      \* what holders have said: <<job, turn, worker, outcome>>

workVars == <<phase, turn, holder, log>>

(* Some jobs have just been submitted when it begins.                      *)
WorkInit ==
    /\ phase \in [Jobs -> {"none", "waiting"}]
    /\ turn = [j \in Jobs |-> 0]
    /\ holder = [j \in Jobs |-> Nobody]
    /\ log = {}

Submit(j) ==
    /\ phase[j] = "none"
    /\ phase' = [phase EXCEPT ![j] = "waiting"]
    /\ UNCHANGED <<turn, holder, log>>

HandOut(j, w) ==
    /\ phase[j] = "waiting"
    /\ phase' = [phase EXCEPT ![j] = "held"]
    /\ turn' = [turn EXCEPT ![j] = @ + 1]
    /\ holder' = [holder EXCEPT ![j] = w]
    /\ UNCHANGED log

(* The work of several holders may be taken away at once.                  *)
TakeAway(lost) ==
    /\ \A j \in lost : phase[j] = "held"
    /\ phase' = [j \in Jobs |-> IF j \in lost THEN "waiting" ELSE phase[j]]
    /\ holder' = [j \in Jobs |-> IF j \in lost THEN Nobody ELSE holder[j]]
    /\ UNCHANGED <<turn, log>>

Said(j, outcome) == log' = log \cup {<<j, turn[j], holder[j], outcome>>}

Finish(j, outcome) ==
    /\ phase[j] = "held"
    /\ phase' = [phase EXCEPT ![j] = outcome]
    /\ Said(j, outcome)
    /\ UNCHANGED <<turn, holder>>

GiveBack(j) ==
    /\ phase[j] = "held"
    /\ phase' = [phase EXCEPT ![j] = "waiting"]
    /\ holder' = [holder EXCEPT ![j] = Nobody]
    /\ Said(j, "retry")
    /\ UNCHANGED turn

WorkNext ==
    \/ \E j \in Jobs : Submit(j)
    \/ \E j \in Jobs, w \in Workers : HandOut(j, w)
    \/ \E lost \in SUBSET Jobs : TakeAway(lost)
    \/ \E j \in Jobs, outcome \in {"succeeded", "failed"} : Finish(j, outcome)
    \/ \E j \in Jobs : GiveBack(j)

WorkSpec == WorkInit /\ [][WorkNext]_workVars

=============================================================================
