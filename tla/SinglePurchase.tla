--------------------------- MODULE SinglePurchase ---------------------------
(***************************************************************************)
(* What checkout and callback promise together to the payer of a report,   *)
(* without leases, markers, events or retries: at most one purchase is     *)
(* under way or done at any time, money is only taken for the purchase     *)
(* under way, and the outcome recorded for a purchase is the truth about   *)
(* the money.                                                              *)
(***************************************************************************)
CONSTANT Orders

VARIABLES outcome,  \* "none", "open", "paid" or "failed" for each order
          charged   \* orders the payer's money was taken for

purchaseVars == <<outcome, charged>>

PurchaseInit ==
    /\ outcome = [o \in Orders |-> "none"]
    /\ charged = {}

(* A new attempt.  It may replace one that nobody can have paid.           *)
Begin(new) ==
    /\ outcome[new] = "none"
    /\ \A o \in Orders : outcome[o] # "paid" /\ (outcome[o] = "open" => o \notin charged)
    /\ outcome' = [o \in Orders |-> IF o = new THEN "open"
                                    ELSE IF outcome[o] = "open" THEN "failed"
                                    ELSE outcome[o]]
    /\ UNCHANGED charged

Charge(o) ==
    /\ outcome[o] = "open"
    /\ charged' = charged \cup {o}
    /\ UNCHANGED outcome

Confirm(o) ==
    /\ outcome[o] = "open"
    /\ o \in charged
    /\ outcome' = [outcome EXCEPT ![o] = "paid"]
    /\ UNCHANGED charged

Reject(o) ==
    /\ outcome[o] = "open"
    /\ o \notin charged
    /\ outcome' = [outcome EXCEPT ![o] = "failed"]
    /\ UNCHANGED charged

PurchaseNext ==
    \E o \in Orders : Begin(o) \/ Charge(o) \/ Confirm(o) \/ Reject(o)

PurchaseSpec == PurchaseInit /\ [][PurchaseNext]_purchaseVars

=============================================================================
