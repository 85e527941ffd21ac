------------------------- MODULE SubscriptionBilling -------------------------
(***************************************************************************)
(* How one organization comes by a plan and loses it again:                *)
(* src/app/api/billing/checkout, src/app/api/billing/callback,             *)
(* src/lib/subscription.ts and src/scripts/expire-subscriptions.ts.        *)
(*                                                                         *)
(* Other than in the payment of reports there is no transaction here:      *)
(* every database call and every call to the provider is a step, any       *)
(* number of callbacks may be between two of them, and a handler may be    *)
(* cut off (a call throws, or the process ends) in any place.              *)
(*                                                                         *)
(* A payment session is the provider's; which session a callback asks it   *)
(* about is up to the request, which may name any (the row of the invoice  *)
(* has its own session, but the route does not compare the two).  The      *)
(* report orders of the same merchant have sessions, too: those that are   *)
(* no invoice's.                                                           *)
(*                                                                         *)
(* Time is a day of ScheduleTime; it moves on at any moment to a later     *)
(* one of Days.                                                            *)
(***************************************************************************)
EXTENDS ScheduleTime, FiniteSets

CONSTANTS
    Days,        \* the days that are looked at
    FirstDay,    \* the day it begins
    Invoices,    \* identities of the invoices that may be created
    PlanOf,      \* the plan each of them is for
    Sessions,    \* payment sessions: one of each invoice, named like it, and
                 \* those of report orders
    NoSession,   \* an authority the provider does not know
    AmountOf,    \* the amount a session is for
    Callbacks,   \* requests of the callback route that may be under way
    NoInvoice,
    CutBound     \* bound: handlers cut off after the payer's part

ASSUME DaysAssumption    == /\ Days \subseteq UNION {DaysOf(m) : m \in Months}
                            /\ FirstDay \in Days
ASSUME InvoiceAssumption == NoInvoice \notin Invoices
ASSUME SessionAssumption == Invoices \subseteq Sessions /\ NoSession \notin Sessions
ASSUME CutAssumption     == CutBound \in Nat

VARIABLES
    today,     \* the clock of the database and of the processes
    invoice,   \* table "Invoice"
    session,   \* the payment sessions, at the provider
    returned,  \* the payers' browsers that came back from the provider
    sub,       \* table "Subscription" in the order of createdAt
    callback,  \* where each callback request is
    cuts       \* handlers cut off

billingVars == <<invoice, session, returned, sub, callback, cuts>>
vars == <<today, billingVars>>

InvoiceStatuses == {"ABSENT", "PENDING", "PAID", "FAILED"}
SubStatuses     == {"ACTIVE", "PAST_DUE", "CANCELED"}
SessionStates   == {"none", "open", "paid", "canceled", "settled"}
CallbackPlaces  == {"idle", "verify", "activate", "look", "create", "link",
                    "fail"}
Plans == {PlanOf[i] : i \in Invoices}

(* "for" is history: the invoice a subscription was created for (the       *)
(* foreign key "invoice.sub" is written later and may stay empty).         *)
SubRows == [plan : Plans, status : SubStatuses, start : Nat, end : Nat,
            for : Invoices]

NoBill == [status |-> "ABSENT", paidOn |-> 0, sub |-> 0]
AtRest == [at |-> "idle", invoice |-> NoInvoice, asked |-> NoSession, sub |-> 0]

BillingInit ==
    /\ today = FirstDay
    /\ invoice = [i \in Invoices |-> NoBill]
    /\ session = [n \in Sessions |-> "none"]
    /\ returned = {}
    /\ sub = <<>>
    /\ callback = [c \in Callbacks |-> AtRest]
    /\ cuts = 0

-----------------------------------------------------------------------------
(* The active subscriptions of the organization.                           *)

InForce(s, day) == sub[s].status = "ACTIVE" /\ sub[s].end > day
Active(day)     == {s \in DOMAIN sub : InForce(s, day)}

-----------------------------------------------------------------------------
(* Checkout: refused if the active subscription it finds (any of them, the *)
(* query has no order) is for the same plan.  The invoice is a row before  *)
(* the provider is asked for a session.                                    *)
CreateInvoice(i) ==
    /\ invoice[i].status = "ABSENT"
    /\ \/ Active(today) = {}
       \/ \E s \in Active(today) : sub[s].plan # PlanOf[i]
    /\ invoice' = [invoice EXCEPT ![i] =
                      [status |-> "PENDING", paidOn |-> 0, sub |-> 0]]
    /\ UNCHANGED <<session, returned, sub, callback, cuts>>

CreateCheckout(i) ==
    /\ invoice[i].status = "PENDING"
    /\ session[i] = "none"
    /\ session' = [session EXCEPT ![i] = "open"]
    /\ UNCHANGED <<invoice, returned, sub, callback, cuts>>

(* The payer, at the provider.  Verifying a paid session settles it.       *)
PayerDecides(i) ==
    /\ session[i] = "open"
    /\ \E outcome \in {"paid", "canceled"} :
          session' = [session EXCEPT ![i] = outcome]
    /\ UNCHANGED <<invoice, returned, sub, callback, cuts>>

(* The session of a report order is paid, and settled by the callback      *)
(* route of orders, which compares its authority with the order's.  (Until *)
(* it is paid it is to the routes of this module what an unknown one is.)  *)
OrderSession(n) ==
    /\ n \notin Invoices
    /\ \/ session[n] = "none" /\ session' = [session EXCEPT ![n] = "paid"]
       \/ session[n] = "paid" /\ session' = [session EXCEPT ![n] = "settled"]
    /\ UNCHANGED <<invoice, returned, sub, callback, cuts>>

(* createCheckout sends every payer back to /api/payments/callback.  That  *)
(* route looks for an order with the callbackRef, finds none and changes   *)
(* nothing (ORDER_NOT_FOUND).                                              *)
PayerReturns(i) ==
    /\ session[i] \in {"paid", "canceled", "settled"}
    /\ returned' = returned \cup {i}
    /\ UNCHANGED <<invoice, session, sub, callback, cuts>>

-----------------------------------------------------------------------------
(* The billing callback route.  It takes the callbackRef of an invoice;    *)
(* nothing in the repository sends a payer to it.                          *)

(* (The authority is of no use after the provider's answer.)               *)
MoveTo(c, place) == callback' = [callback EXCEPT ![c] =
    IF place = "idle" THEN AtRest
    ELSE [at |-> place, invoice |-> callback[c].invoice,
          asked |-> NoSession, sub |-> callback[c].sub]]

(* What a request can make the route ask the provider about: any session   *)
(* there is, or one the provider does not know.  A request without an      *)
(* Authority asks about the session stored with the invoice or, if the     *)
(* checkout was cut off before it stored one, about NOREF-<id>: one of     *)
(* these as well.                                                          *)
Authorities == {n \in Sessions : session[n] # "none"} \cup {NoSession}

(* A request for an invoice that is not pending is answered and changes    *)
(* nothing.  It may come as soon as there is a session, paid or not: until *)
(* then nobody has been told the callbackRef.                              *)
CallbackArrives(c, i) ==
    /\ callback[c].at = "idle"
    /\ session[i] # "none"
    /\ invoice[i].status = "PENDING"
    /\ \E n \in Authorities :
          callback' = [callback EXCEPT ![c] =
                          [at |-> "verify", invoice |-> i, asked |-> n, sub |-> 0]]
    /\ UNCHANGED <<invoice, session, returned, sub, cuts>>

(* The provider's answer.  It is sent the amount of the invoice and says   *)
(* "paid" only of a session of that amount, of one that has been settled   *)
(* before as well (code 101).                                              *)
Paid(c) ==
    LET n == callback[c].asked IN
    /\ n \in Sessions
    /\ session[n] \in {"paid", "settled"}
    /\ AmountOf[n] = AmountOf[callback[c].invoice]

Settle(c) == session' = IF Paid(c) THEN [session EXCEPT ![callback[c].asked] = "settled"]
                                   ELSE session

(* Mutant of VerifyCheckout: any answer of the provider will do.           *)
VerifyCheckoutOnly(c) ==
    /\ callback[c].at = "verify"
    /\ Settle(c)
    /\ MoveTo(c, "activate")
    /\ UNCHANGED <<invoice, returned, sub, cuts>>

VerifyCheckout(c) ==
    /\ callback[c].at = "verify"
    /\ Settle(c)
    /\ MoveTo(c, IF Paid(c) THEN "activate" ELSE "fail")
    /\ UNCHANGED <<invoice, returned, sub, cuts>>

ActivateInvoice(c) ==
    LET i == callback[c].invoice IN
    /\ callback[c].at = "activate"
    /\ invoice' = [invoice EXCEPT ![i] =
                      [status |-> "PAID", paidOn |-> today, sub |-> @.sub]]
    /\ MoveTo(c, "look")
    /\ UNCHANGED <<session, returned, sub, cuts>>

(* Mutant of HasPlan: whatever plan it is.                                 *)
HasAnyPlan(plan) == Active(today) # {}

HasPlan(plan) == \E s \in Active(today) : sub[s].plan = plan

LookForSubscription(c) ==
    /\ callback[c].at = "look"
    /\ MoveTo(c, IF HasPlan(PlanOf[callback[c].invoice]) THEN "idle"
                                                         ELSE "create")
    /\ UNCHANGED <<invoice, session, returned, sub, cuts>>

NewSubscription(i) ==
    [plan |-> PlanOf[i], status |-> "ACTIVE", start |-> today,
     end |-> OneMonthAfter(today), for |-> i]

CreateSubscription(c) ==
    LET i == callback[c].invoice IN
    /\ callback[c].at = "create"
    /\ sub' = Append(sub, NewSubscription(i))
    /\ callback' = [callback EXCEPT ![c] =
                       [at |-> "link", invoice |-> i, asked |-> NoSession,
                        sub |-> Len(sub) + 1]]
    /\ UNCHANGED <<invoice, session, returned, cuts>>

LinkInvoice(c) ==
    LET i == callback[c].invoice IN
    /\ callback[c].at = "link"
    /\ invoice' = [invoice EXCEPT ![i] =
                      [status |-> @.status, paidOn |-> @.paidOn,
                       sub |-> callback[c].sub]]
    /\ MoveTo(c, "idle")
    /\ UNCHANGED <<session, returned, sub, cuts>>

FailInvoice(c) ==
    LET i == callback[c].invoice IN
    /\ callback[c].at = "fail"
    /\ invoice' = [invoice EXCEPT ![i] =
                      [status |-> "FAILED", paidOn |-> @.paidOn, sub |-> @.sub]]
    /\ MoveTo(c, "idle")
    /\ UNCHANGED <<session, returned, sub, cuts>>

CallbackStep(c) ==
    \/ VerifyCheckout(c)
    \/ ActivateInvoice(c)
    \/ LookForSubscription(c)
    \/ CreateSubscription(c)
    \/ LinkInvoice(c)
    \/ FailInvoice(c)

(* A call throws before it had an effect (after it had one: the same at    *)
(* the next place), or the process ends.  The verification may have        *)
(* settled the session without an answer.                                  *)
CutOff(c) ==
    /\ callback[c].at # "idle"
    /\ cuts < CutBound
    /\ cuts' = cuts + 1
    /\ \/ UNCHANGED session
       \/ callback[c].at = "verify" /\ Settle(c)
    /\ MoveTo(c, "idle")
    /\ UNCHANGED <<invoice, returned, sub>>

-----------------------------------------------------------------------------
(* expire-subscriptions.ts: two statements.                                *)

WithOtherStatus(s, status) ==
    [s EXCEPT !.status = IF status = "PAST_DUE" THEN "EXPIRED" ELSE status]

WithStatus(s, status) == [s EXCEPT !.status = status]

(* Mutants of Expired and WithStatus: four weeks for a month; a status     *)
(* the schema does not list.                                               *)
ExpiredAfterFourWeeks(row, day) ==
    row.status = "ACTIVE" /\ row.start + 28 < day

Expired(row, day)   == row.status = "ACTIVE" /\ row.end < day
Abandoned(row, day) == row.status = "PAST_DUE" /\ row.end < day - 30

ExpirePastDue ==
    /\ sub' = [s \in DOMAIN sub |->
                  IF Expired(sub[s], today) THEN WithStatus(sub[s], "PAST_DUE")
                                            ELSE sub[s]]
    /\ UNCHANGED <<invoice, session, returned, callback, cuts>>

CancelPastDue ==
    /\ sub' = [s \in DOMAIN sub |->
                  IF Abandoned(sub[s], today) THEN WithStatus(sub[s], "CANCELED")
                                              ELSE sub[s]]
    /\ UNCHANGED <<invoice, session, returned, callback, cuts>>

BillingStep ==
    \/ \E i \in Invoices : \/ CreateInvoice(i)
                           \/ CreateCheckout(i)
                           \/ PayerDecides(i)
                           \/ PayerReturns(i)
                           \/ \E c \in Callbacks : CallbackArrives(c, i)
    \/ \E n \in Sessions : OrderSession(n)
    \/ \E c \in Callbacks : CallbackStep(c) \/ CutOff(c)
    \/ ExpirePastDue
    \/ CancelPastDue

DayPasses ==
    /\ \E day \in Days : day > today /\ today' = day
    /\ UNCHANGED billingVars

BillingNext == (BillingStep /\ UNCHANGED today) \/ DayPasses

BillingSpec == BillingInit /\ [][BillingNext]_vars

-----------------------------------------------------------------------------
(* Properties.                                                             *)

(* Type invariant: every row, session and callback keeps its type, and a   *)
(* callback that works on a subscription names one that exists.            *)
BillingTypeOK ==
    /\ today \in Days
    /\ invoice \in [Invoices -> [status : InvoiceStatuses, paidOn : Days \cup {0},
                                 sub : 0 .. Len(sub)]]
    /\ session \in [Sessions -> SessionStates]
    /\ returned \subseteq Invoices
    /\ sub \in Seq(SubRows)
    /\ callback \in [Callbacks -> [at : CallbackPlaces,
                                   invoice : Invoices \cup {NoInvoice},
                                   asked : Sessions \cup {NoSession},
                                   sub : 0 .. Len(sub)]]
    /\ cuts \in 0 .. CutBound

TakenFor(i) == \E n \in Sessions : session[n] = "settled" /\ AmountOf[n] = AmountOf[i]

(* No plan before its price was taken: whatever callbacks come in which    *)
(* order and whatever they name, each subscription was created for an      *)
(* invoice whose amount the provider had taken in some session.  Which one *)
(* is not compared: it may be that of another invoice or of a report, and  *)
(* it may have been counted before.                                        *)
SubscriptionsPaidFor == \A s \in DOMAIN sub : TakenFor(sub[s].for)

(* A month that was paid for is served: nothing (no expiry, no other       *)
(* invoice, no failed callback) ends a subscription before its last day.   *)
PaidMonthServed ==
    \A s \in DOMAIN sub : today < sub[s].end => sub[s].status = "ACTIVE"

Working(i) == \E c \in Callbacks : callback[c].invoice = i

Bought(i) ==
    /\ invoice[i].paidOn # 0
    /\ \E s \in DOMAIN sub : sub[s].plan = PlanOf[i] /\ sub[s].end > invoice[i].paidOn

(* Money that was taken for a plan bought one of its price: for an invoice *)
(* of that amount a callback is at work, or there is a subscription of its *)
(* plan that was in force after the payment was recorded, unless a         *)
(* callback was cut off.  This is about the money, not about the status:   *)
(* a callback that was told "not paid" before the payment may write FAILED *)
(* over PAID after it.                                                     *)
MoneyBuysPlanUnlessCut ==
    \A n \in Invoices :
       (session[n] = "settled" /\ cuts = 0) =>
          \E i \in Invoices : AmountOf[i] = AmountOf[n] /\ (Working(i) \/ Bought(i))

(* docs/YC_READY_ROADMAP.md: "Payment activates a subscription."  Once the *)
(* payer is back from the provider and no request is under way, the plan   *)
(* that was paid for has been bought.                                      *)
PaymentActivates ==
    \A i \in returned :
       (session[i] \in {"paid", "settled"} /\ ~Working(i)) =>
          \E s \in DOMAIN sub : sub[s].plan = PlanOf[i]
-----------------------------------------------------------------------------
(* The refinement: the money that was taken and the months it bought.      *)

Taken == {n \in Sessions : session[n] = "settled"}

BoughtMonths == [s \in DOMAIN sub |->
    [plan |-> sub[s].plan, until |-> sub[s].end, status |-> sub[s].status]]

Plan == INSTANCE PaidPlans WITH day <- today, taken <- Taken, months <- BoughtMonths

(* Checkout, callbacks and the expiry script, call by call, implement the  *)
(* abstract purchase of plans: no month before its price was taken, none   *)
(* that is shorter than four weeks or longer than 31 days, ends early, is  *)
(* extended or comes back.                                                 *)
ImplementsPaidPlans == Plan!PlansSpec
=============================================================================
