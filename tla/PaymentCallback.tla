-------------------------- MODULE PaymentCallback --------------------------
(***************************************************************************)
(* Deciding the payment of an order: src/lib/payment-callback-state.ts and *)
(* src/app/api/payments/callback/route.ts, on the orders OrderCheckout     *)
(* creates.                                                                *)
(*                                                                         *)
(* The provider sends the payer's browser back with a callback, possibly   *)
(* several times.  A callback claims the verification of its order for two *)
(* minutes by inserting an event, asks the provider, and then finalizes or *)
(* releases.  Who holds the claim is decided by the newest event.          *)
(*                                                                         *)
(* Newest means latest "createdAt".  A claim is dated with the `now' taken *)
(* before its transaction runs, a release with the time of its insertion;  *)
(* so a claim may be inserted behind a release that is already there.      *)
(* `late' marks a callback to which that will happen.                      *)
(***************************************************************************)
EXTENDS OrderCheckout

CONSTANTS
    Callbacks,    \* callback requests that may be under way
    Nobody,
    WaitBound,    \* bound: ticks between taking `now' and the claim
    ErrorBound,   \* bound: verifications the provider leaves unanswered
    SlowBound     \* bound: verifications that outlive their two minutes

ASSUME CallbackBoundsAssumption == {WaitBound, ErrorBound, SlowBound} \subseteq Nat
ASSUME NobodyAssumption == Nobody \notin Callbacks

VARIABLES
    newest,    \* the newest PAYMENT_VERIFICATION_... event of each order
    callback   \* where each callback request is

vars == <<order, lead, session, request, spent, newest, callback>>

NoCallback == [at |-> "idle", order |-> NoOrder, late |-> FALSE, age |-> 0,
               paid |-> FALSE]
CallbackPlaces == {"idle", "claiming", "verifying", "finalizing", "releasing"}

(* Ages beyond this are not told apart.                                    *)
MaxAge == LeaseTicks + WaitBound

(* A started event names the callback that inserted it, which stands for   *)
(* the event's id.                                                         *)
Events == [kind : {"none", "STARTED", "ERROR", "RELEASED"},
           by : Callbacks \cup {Nobody}, age : 0 .. MaxAge]
NoEvent == [kind |-> "none", by |-> Nobody, age |-> 0]
Ended(kind) == [kind |-> kind, by |-> Nobody, age |-> 0]

Leased(o)     == newest[o].kind = "STARTED"
HoldsLease(c) == Leased(callback[c].order) /\ newest[callback[c].order].by = c

Step(c, place) ==
    [at |-> place, order |-> callback[c].order, late |-> callback[c].late,
     age |-> callback[c].age, paid |-> callback[c].paid]
Answered(c, paid) ==
    [at |-> "finalizing", order |-> callback[c].order, late |-> callback[c].late,
     age |-> callback[c].age, paid |-> paid]
Overtaken(row) ==
    [at |-> row.at, order |-> row.order, late |-> TRUE, age |-> row.age,
     paid |-> row.paid]

MoveTo(c, row) == callback' = [callback EXCEPT ![c] = row]

(* After an event dated now on order o, callbacks that have already taken  *)
(* their `now' for o will be inserted behind it.                           *)
EventNow(o, kind) == newest' = [newest EXCEPT ![o] = Ended(kind)]
Overtake(o, c, row) ==
    callback' = [d \in Callbacks |->
                   IF d = c THEN row
                   ELSE IF callback[d].at = "claiming" /\ callback[d].order = o
                        THEN Overtaken(callback[d]) ELSE callback[d]]

-----------------------------------------------------------------------------
Init ==
    /\ CheckoutInit
    /\ newest = [o \in Orders |-> NoEvent]
    /\ callback = [c \in Callbacks |-> NoCallback]

(* prepareOrderCheckout, READY, when the verification lease has run out:   *)
(* the lease is released for good and the payer is sent to the provider    *)
(* again.                                                                  *)
ReleaseExpired(o) ==
    /\ Pending(o) /\ order[o].ref
    /\ Leased(o) /\ newest[o].age >= LeaseTicks
    /\ EventNow(o, "RELEASED")
    /\ callback' = [d \in Callbacks |->
                      IF callback[d].at = "claiming" /\ callback[d].order = o
                      THEN Overtaken(callback[d]) ELSE callback[d]]
    /\ UNCHANGED checkoutVars

(* The provider redirects after the payer has decided; the callback takes  *)
(* its `now'.                                                              *)
CallbackArrives(c, o) ==
    /\ callback[c].at = "idle"
    /\ session[o] \in {"paid", "cancelled", "settled"}
    /\ MoveTo(c, [at |-> "claiming", order |-> o, late |-> FALSE, age |-> 0,
                  paid |-> FALSE])
    /\ UNCHANGED <<checkoutVars, newest>>

(* Mutant of LeaseSeen: leases do not run out.                             *)
LeaseSeenForever(c) == Leased(callback[c].order)

(* claimPaymentVerification: TERMINAL or PROCESSING ...                    *)
LeaseSeen(c) ==
    /\ Leased(callback[c].order)
    /\ newest[callback[c].order].age - callback[c].age < LeaseTicks

ClaimRefused(c) ==
    /\ callback[c].at = "claiming"
    /\ ~Pending(callback[c].order) \/ LeaseSeen(c)
    /\ MoveTo(c, NoCallback)
    /\ UNCHANGED <<checkoutVars, newest>>

(* ... or CLAIMED.  The new event becomes the newest one unless another    *)
(* was dated in between.                                                   *)
StartedBy(c) == [kind |-> "STARTED", by |-> c, age |-> callback[c].age]

ClaimVerification(c) ==
    LET o == callback[c].order IN
    /\ callback[c].at = "claiming"
    /\ Pending(o)
    /\ ~LeaseSeen(c)
    /\ newest' = IF callback[c].late THEN newest
                 ELSE [newest EXCEPT ![o] = StartedBy(c)]
    /\ MoveTo(c, Step(c, "verifying"))
    /\ UNCHANGED checkoutVars

(* verifyCheckout.  Verifying a payment settles it, whether or not the     *)
(* answer arrives; verifying it again gives the same answer.               *)
SettleIfPaid(o) ==
    session' = IF session[o] = "paid" THEN [session EXCEPT ![o] = "settled"]
               ELSE session

VerificationAnswered(c) ==
    LET o == callback[c].order IN
    /\ callback[c].at = "verifying"
    /\ SettleIfPaid(o)
    /\ MoveTo(c, Answered(c, session[o] \in {"paid", "settled"}))
    /\ UNCHANGED <<order, lead, request, spent, newest>>

VerificationFails(c) ==
    LET o == callback[c].order IN
    /\ callback[c].at = "verifying"
    /\ Spend("errors", ErrorBound)
    /\ SettleIfPaid(o) \/ UNCHANGED session
    /\ MoveTo(c, Step(c, "releasing"))
    /\ UNCHANGED <<order, lead, request, newest>>

(* Mutant of Outcome: the callback's own status is believed.               *)
OutcomeClaimed(c) == "PAID"

(* finalizePaymentVerification.  A terminal order is reported as it is, a  *)
(* claim that is not the newest event is rejected as stale.                *)
Outcome(c) == IF callback[c].paid THEN "PAID" ELSE "FAILED"

FinalizeWrites(c) ==
    LET o == callback[c].order IN
    order' = IF Pending(o) /\ HoldsLease(c)
             THEN [order EXCEPT ![o] = WithStatus(order[o], Outcome(c))]
             ELSE order

Finalize(c) ==
    /\ callback[c].at = "finalizing"
    /\ \/ FinalizeWrites(c) /\ UNCHANGED spent
       \/ UNCHANGED order /\ Fault
    /\ MoveTo(c, NoCallback)
    /\ UNCHANGED <<lead, session, request, newest>>

(* releasePaymentVerification.                                             *)
ReleaseVerification(c) ==
    LET o == callback[c].order IN
    /\ callback[c].at = "releasing"
    /\ \/ /\ Pending(o) /\ HoldsLease(c)
          /\ EventNow(o, "ERROR")
          /\ Overtake(o, c, NoCallback)
          /\ UNCHANGED spent
       \/ /\ ~(Pending(o) /\ HoldsLease(c))
          /\ MoveTo(c, NoCallback)
          /\ UNCHANGED <<newest, spent>>
       \/ /\ MoveTo(c, NoCallback)
          /\ Fault
          /\ UNCHANGED newest
    /\ UNCHANGED <<order, lead, session, request>>

(* The process ends, or a claim threw although it committed.               *)
CallbackDies(c) ==
    /\ callback[c].at # "idle"
    /\ Spend("crashes", CrashBound)
    /\ MoveTo(c, NoCallback)
    /\ UNCHANGED <<order, lead, session, request, newest>>

(* Time passes for rows, events and waiting callbacks.                     *)
OlderEvent(e) == [kind |-> e.kind, by |-> e.by,
                  age |-> IF e.kind = "STARTED" /\ e.age < MaxAge
                          THEN e.age + 1 ELSE e.age]
OlderCallback(row) ==
    [at |-> row.at, order |-> row.order, late |-> row.late, paid |-> row.paid,
     age |-> IF row.at # "idle" /\ row.age < MaxAge THEN row.age + 1 ELSE row.age]

(* The provider call is cut off after ten seconds, so a verification that  *)
(* is still under way when its two minutes are over is charged.            *)
RunsOut(c) ==
    /\ callback[c].at \in {"verifying", "finalizing", "releasing"}
    /\ HoldsLease(c)
    /\ newest[callback[c].order].age = LeaseTicks - 1

Tick ==
    /\ \A c \in Callbacks : callback[c].at = "claiming" => callback[c].age < WaitBound
    /\ OrdersAge
    /\ newest' = [o \in Orders |-> OlderEvent(newest[o])]
    /\ callback' = [c \in Callbacks |-> OlderCallback(callback[c])]
    /\ IF \E c \in Callbacks : RunsOut(c) THEN Spend("slow", SlowBound)
                                          ELSE UNCHANGED spent
    /\ UNCHANGED <<lead, session, request>>

CallbackStep(c) ==
    \/ ClaimRefused(c) \/ ClaimVerification(c) \/ Finalize(c)
    \/ ReleaseVerification(c)

Next ==
    \/ CheckoutNext /\ UNCHANGED <<newest, callback>>
    \/ \E o \in Orders : ReleaseExpired(o)
    \/ \E c \in Callbacks, o \in Orders : CallbackArrives(c, o)
    \/ \E c \in Callbacks : \/ CallbackStep(c) \/ VerificationAnswered(c)
                            \/ VerificationFails(c) \/ CallbackDies(c)
    \/ Tick

Spec == Init /\ [][Next]_vars

(* The payer, or the provider, keeps coming back while an order is open,   *)
(* and handlers that were not cut off go on; the bounds let the provider   *)
(* stay silent, and verifications be slow, a limited number of times.      *)
(* Nothing is assumed about new checkout requests.                         *)
Fairness ==
    /\ \A o \in Orders :
          WF_vars(\E c \in Callbacks : Pending(o) /\ CallbackArrives(c, o))
    /\ \A c \in Callbacks : WF_vars(CallbackStep(c)) /\ WF_vars(VerificationAnswered(c))
    /\ WF_vars(Tick)

FairSpec == Spec /\ Fairness

-----------------------------------------------------------------------------
CallbackRows ==
    [at : CallbackPlaces, order : Orders \cup {NoOrder}, late : BOOLEAN,
     age : 0 .. MaxAge, paid : BOOLEAN]

(* Types.                                                                  *)
TypeOK ==
    /\ order \in [Orders -> OrderRows]
    /\ lead \in LeadStatuses
    /\ session \in [Orders -> Sessions]
    /\ request \in [Requests -> [at : RequestPlaces, order : Orders \cup {NoOrder}]]
    /\ spent \in [Budgets -> Nat]
    /\ newest \in [Orders -> Events]
    /\ callback \in [Callbacks -> CallbackRows]

Live(o) == session[o] \in {"open", "paid", "settled"}

(* An order is given up, refused or failed only when the payer can no      *)
(* longer be charged for it, however slow the handler that started it.     *)
FailedNeverCharged ==
    \A o \in Orders : order[o].status = "FAILED" => ~Live(o)

(* At no time can the payer pay for two orders of the same report.         *)
OneLiveSession ==
    \A o, p \in Orders : Live(o) /\ Live(p) => o = p

(* A report is only unlocked for money received, also by late verifiers.   *)
PaidMeansSettled ==
    \A o \in Orders : order[o].status = "PAID" => session[o] = "settled"

(* An order whose request to the provider has an unknown outcome is left   *)
(* PENDING for good: neither time nor further requests change it.          *)
Quarantined(o) ==
    /\ Pending(o) /\ order[o].marker /\ ~order[o].ref
    /\ \A q \in Requests : request[q].order # o

QuarantineKept ==
    [][\A o \in Orders : Quarantined(o) =>
          Quarantined(o)' /\ session'[o] = session[o]]_vars

(* A payment the payer made is recorded in the end.                        *)
PaymentsGetRecorded ==
    \A o \in Orders : session[o] = "paid" ~> order[o].status = "PAID"

(* Checkout and callbacks together implement SinglePurchase.               *)
OutcomeOf(status) ==
    CASE status = "ABSENT"  -> "none"
      [] status = "PENDING" -> "open"
      [] status = "PAID"    -> "paid"
      [] status = "FAILED"  -> "failed"

Purchase == INSTANCE SinglePurchase WITH
    outcome <- [o \in Orders |-> OutcomeOf(order[o].status)],
    charged <- {o \in Orders : session[o] = "settled"}

(* Every step begins, charges, confirms or rejects one purchase, or leaves *)
(* the purchases alone.                                                    *)
ImplementsSinglePurchase == Purchase!PurchaseSpec

=============================================================================
