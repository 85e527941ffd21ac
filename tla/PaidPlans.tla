------------------------------ MODULE PaidPlans ------------------------------
(***************************************************************************)
(* What an organization gets for its money, without invoices, callbacks    *)
(* and scripts: an amount that was taken buys months of the plans of that  *)
(* price (more than one, when callbacks come at once or name the same      *)
(* payment); a month has 28 to 31 days, is overdue when its last one is    *)
(* over, and is given up thirty days later.  Nothing begins again and      *)
(* nothing ends early.                                                     *)
(***************************************************************************)
EXTENDS Integers, Sequences

CONSTANTS Invoices,  \* what can be bought: a plan, at a price
          PlanOf,
          Sessions,  \* the payments
          AmountOf   \* of invoices and payments

VARIABLES day,     \* today
          taken,   \* the payments that were taken
          months   \* the months that were bought, in that order

planVars == <<day, taken, months>>

PlansInit == taken = {} /\ months = <<>>

Takes(n) == taken' = taken \cup {n} /\ UNCHANGED <<day, months>>

Buys(i) ==
    /\ \E n \in taken : AmountOf[n] = AmountOf[i]
    /\ \E until \in (day + 28) .. (day + 31) :
          months' = Append(months, [plan |-> PlanOf[i], until |-> until,
                                    status |-> "ACTIVE"])
    /\ UNCHANGED <<day, taken>>

OverSince(m, n, status) == months[m].status = status /\ months[m].until + n < day

Becomes(m, status) == [plan |-> months[m].plan, until |-> months[m].until, status |-> status]

(* All at once, those that are overdue.                                    *)
Ends(from, to, n) ==
    /\ months' = [m \in DOMAIN months |->
                     IF OverSince(m, n, from) THEN Becomes(m, to) ELSE months[m]]
    /\ UNCHANGED <<day, taken>>

Passes == day' > day /\ UNCHANGED <<taken, months>>

PlansNext ==
    \/ \E n \in Sessions : Takes(n)
    \/ \E i \in Invoices : Buys(i)
    \/ Ends("ACTIVE", "PAST_DUE", 0)
    \/ Ends("PAST_DUE", "CANCELED", 30)
    \/ Passes

PlansSpec == PlansInit /\ [][PlansNext]_planVars
=============================================================================
