------------------------ MODULE MCSubscriptionBilling ------------------------
(* SubscriptionBilling for TLC: a year that is not a leap year, two        *)
(* invoices for two plans, and the session of a report order, which costs  *)
(* as much as the starter plan.                                            *)
EXTENDS SubscriptionBilling, TLC

MCMonthStart == <<0, 31, 59, 90, 120, 151, 181>>

CONSTANTS i1, i2, r1
MCPlanOf   == (i1 :> "starter" @@ i2 :> "pro")
MCAmountOf == (i1 :> 29 @@ i2 :> 99 @@ r1 :> 29)

MCSymmetry == Permutations(Callbacks)
=============================================================================
