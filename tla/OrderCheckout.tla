--------------------------- MODULE OrderCheckout ---------------------------
(***************************************************************************)
(* Starting the payment for a report: src/lib/order-checkout.ts, driven by *)
(* the request handler of src/lib/order-checkout-handler.ts, for one       *)
(* report run, one email and one payment provider.                         *)
(*                                                                         *)
(* Every function of order-checkout.ts is one serializable transaction,    *)
(* hence one step.  Between two of them the handler can be overtaken by    *)
(* other requests, its process can die, and the provider is called: that   *)
(* call is no transaction, and its outcome may never become known.         *)
(*                                                                         *)
(* Ages count the ticks since a row was written, up to the two minutes     *)
(* after which the code stops waiting for it.                              *)
(***************************************************************************)
EXTENDS Integers, FiniteSets

CONSTANTS
    Orders,       \* identities of the rows that may be inserted
    Requests,     \* checkout requests that may be under way
    NoOrder,
    LeaseTicks,   \* the two minutes of initialization and of verification
    FaultBound,   \* bound: transactions that throw
    CrashBound    \* bound: handlers cut off by the end of their process

ASSUME NoOrderAssumption == NoOrder \notin Orders
ASSUME LeaseTicksAssumption == LeaseTicks \in Nat \ {0}
ASSUME BoundsAssumption == FaultBound \in Nat /\ CrashBound \in Nat

VARIABLES
    order,    \* "AuditOrder" with its CHECKOUT_... events
    lead,     \* status of the "AuditLead" of this run and email
    session,  \* the payment session of each order, at the provider
    request,  \* where each checkout request is
    spent     \* how much of each bound is used up

checkoutVars == <<order, lead, session, request, spent>>

OrderStatuses == {"ABSENT", "PENDING", "PAID", "FAILED"}

(* marker: a CHECKOUT_PROVIDER_REQUEST_STARTED event exists.  ref:         *)
(* "providerRef" is set; CHECKOUT_CREATED, which carries the redirect URL, *)
(* is inserted by the same transaction.                                    *)
OrderRows == [status : OrderStatuses, marker : BOOLEAN, ref : BOOLEAN,
              age : 0 .. LeaseTicks]

NoRow  == [status |-> "ABSENT", marker |-> FALSE, ref |-> FALSE, age |-> 0]
NewRow == [status |-> "PENDING", marker |-> FALSE, ref |-> FALSE, age |-> 0]

Sessions == {"none", "open", "paid", "cancelled", "settled"}
LeadStatuses == {"NONE", "NEW", "REPORT_READY", "CONVERTED", "LOST"}

Idle == [at |-> "idle", order |-> NoOrder]
RequestPlaces == {"idle", "claimed", "marked", "opened", "refused", "undo"}

Pending(o)  == order[o].status = "PENDING"
Goto(q, place) == request' = [request EXCEPT ![q] =
                     [at |-> place, order |-> request[q].order]]
EndRequest(q) == request' = [request EXCEPT ![q] = Idle]

(* Errors and slowness occur in PaymentCallback only.                      *)
Budgets == {"faults", "crashes", "errors", "slow"}
Spend(budget, limit) ==
    /\ spent[budget] < limit
    /\ spent' = [spent EXCEPT ![budget] = spent[budget] + 1]
Fault == Spend("faults", FaultBound)

(* Rows after the updates of the module.                                   *)
Marked(row) == [status |-> row.status, marker |-> TRUE,
                ref |-> row.ref, age |-> row.age]
WithRef(row) == [status |-> row.status, marker |-> row.marker,
                 ref |-> TRUE, age |-> row.age]
WithStatus(row, status) == [status |-> status, marker |-> row.marker,
                            ref |-> row.ref, age |-> row.age]

-----------------------------------------------------------------------------
CheckoutInit ==
    /\ order = [o \in Orders |-> NoRow]
    /\ lead \in {"NONE", "NEW", "CONVERTED"}
    /\ session = [o \in Orders |-> "none"]
    /\ request = [q \in Requests |-> Idle]
    /\ spent = [b \in Budgets |-> 0]

(* Mutant of Abandoned: the provider may have been called.                 *)
AbandonedUnmarked(o) == Pending(o) /\ ~order[o].ref /\ order[o].age = LeaseTicks

(* prepareOrderCheckout, CLAIMED.  A pending order that nobody announced   *)
(* to the provider is given up after two minutes, in the same transaction. *)
(* The other answers (PAID, READY, INITIALIZING, reconciliation required)  *)
(* leave the tables alone; see PaymentCallback for the one exception.      *)
Abandoned(o) ==
    /\ Pending(o)
    /\ ~order[o].ref
    /\ ~order[o].marker
    /\ order[o].age = LeaseTicks

(* Mutant of Prepare: a paid order does not stop a new one.                *)
PrepareAgain(q, new) ==
    /\ request[q].at = "idle"
    /\ order[new].status = "ABSENT"
    /\ \A o \in Orders : Pending(o) => Abandoned(o)
    /\ order' = [o \in Orders |->
                   IF o = new THEN NewRow
                   ELSE IF Abandoned(o) THEN WithStatus(order[o], "FAILED")
                   ELSE order[o]]
    /\ lead' = IF lead \in {"CONVERTED", "LOST"} THEN lead ELSE "REPORT_READY"
    /\ request' = [request EXCEPT ![q] = [at |-> "claimed", order |-> new]]
    /\ UNCHANGED <<session, spent>>

Prepare(q, new) ==
    /\ request[q].at = "idle"
    /\ order[new].status = "ABSENT"
    /\ \A o \in Orders : order[o].status # "PAID"
    /\ \A o \in Orders : Pending(o) => Abandoned(o)
    /\ order' = [o \in Orders |->
                   IF o = new THEN NewRow
                   ELSE IF Abandoned(o) THEN WithStatus(order[o], "FAILED")
                   ELSE order[o]]
    /\ lead' = IF lead \in {"CONVERTED", "LOST"} THEN lead ELSE "REPORT_READY"
    /\ request' = [request EXCEPT ![q] = [at |-> "claimed", order |-> new]]
    /\ UNCHANGED <<session, spent>>

(* markOrderCheckoutProviderRequestStarted.                                *)
MarkWrites(o) == order' = [order EXCEPT ![o] = Marked(order[o])]

MarkRequestStarted(q) ==
    LET o == request[q].order IN
    /\ request[q].at = "claimed"
    /\ \/ Pending(o) /\ MarkWrites(o) /\ Goto(q, "marked") /\ UNCHANGED spent
       \/ ~Pending(o) /\ Goto(q, "undo") /\ UNCHANGED <<order, spent>>
       \/ /\ Pending(o)
          /\ MarkWrites(o) \/ UNCHANGED order
          /\ Goto(q, "undo")
          /\ Fault
    /\ UNCHANGED <<lead, session>>

(* Mutant of CallProvider: a timeout counts as a refusal.                  *)
CallProviderOnce(q) ==
    LET o == request[q].order IN
    /\ request[q].at = "marked"
    /\ \/ session' = [session EXCEPT ![o] = "open"] /\ Goto(q, "opened")
       \/ /\ session' = [session EXCEPT ![o] = "open"] \/ UNCHANGED session
          /\ Goto(q, "refused")
    /\ UNCHANGED <<order, lead, spent>>

(* createCheckout: a session is opened, or refused for certain, or nothing *)
(* is known.  In the last case the handler answers that reconciliation is  *)
(* required and leaves the order as it is.                                 *)
CallProvider(q) ==
    LET o == request[q].order IN
    /\ request[q].at = "marked"
    /\ \/ session' = [session EXCEPT ![o] = "open"] /\ Goto(q, "opened")
       \/ UNCHANGED session /\ Goto(q, "refused")
       \/ /\ session' = [session EXCEPT ![o] = "open"] \/ UNCHANGED session
          /\ EndRequest(q)
    /\ UNCHANGED <<order, lead, spent>>

(* completeOrderCheckout.  From here on the payer has the redirect URL.    *)
CompleteWrites(o) ==
    order' = IF Pending(o) /\ ~order[o].ref
             THEN [order EXCEPT ![o] = WithRef(order[o])] ELSE order

Complete(q) ==
    LET o == request[q].order IN
    /\ request[q].at = "opened"
    /\ \/ CompleteWrites(o) /\ UNCHANGED spent
       \/ (CompleteWrites(o) \/ UNCHANGED order) /\ Fault
    /\ EndRequest(q)
    /\ UNCHANGED <<lead, session>>

(* failOrderCheckout, after a definitive refusal or an error before the    *)
(* provider was called.  An error of its own is not followed up.           *)
FailWrites(o) ==
    order' = IF Pending(o) /\ ~order[o].ref
             THEN [order EXCEPT ![o] = WithStatus(order[o], "FAILED")] ELSE order

FailCheckout(q) ==
    LET o == request[q].order IN
    /\ request[q].at \in {"refused", "undo"}
    /\ \/ FailWrites(o) /\ UNCHANGED spent
       \/ UNCHANGED order /\ Fault
    /\ EndRequest(q)
    /\ UNCHANGED <<lead, session>>

(* The process running the handler ends, or its prepareOrderCheckout threw *)
(* although it committed: either way the order has lost its handler.       *)
RequestDies(q) ==
    /\ request[q].at # "idle"
    /\ Spend("crashes", CrashBound)
    /\ EndRequest(q)
    /\ UNCHANGED <<order, lead, session>>

(* The payer, once redirected, pays or gives up; both are final for the    *)
(* session.  "settled" follows when the payment is verified.               *)
PayerDecides(o) ==
    /\ session[o] = "open"
    /\ order[o].ref
    /\ \E outcome \in {"paid", "cancelled"} :
          session' = [session EXCEPT ![o] = outcome]
    /\ UNCHANGED <<order, lead, request, spent>>

Older(row) == [status |-> row.status, marker |-> row.marker, ref |-> row.ref,
               age |-> IF row.status = "PENDING" /\ row.age < LeaseTicks
                       THEN row.age + 1 ELSE row.age]
OrdersAge == order' = [o \in Orders |-> Older(order[o])]

CheckoutNext ==
    \/ \E q \in Requests, o \in Orders : Prepare(q, o)
    \/ \E q \in Requests : MarkRequestStarted(q) \/ CallProvider(q)
                           \/ Complete(q) \/ FailCheckout(q) \/ RequestDies(q)
    \/ \E o \in Orders : PayerDecides(o)

=============================================================================
