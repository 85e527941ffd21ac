--------------------- MODULE SubscriptionBillingProofs ---------------------
(***************************************************************************)
(* What SubscriptionBilling keeps, for any invoices, plans, callbacks and  *)
(* days of any calendar.                                                   *)
(*                                                                         *)
(* The invariant is BillingInv.  None of the database calls of a callback  *)
(* looks at what the others do, so all of the argument is in what a        *)
(* callback has made sure of when it has come to a place.                  *)
(***************************************************************************)
EXTENDS SubscriptionBilling, SequenceTheorems, TLAPS

(* A month later is 28 to 31 days later, also when it overflows into the   *)
(* month after.                                                            *)
LEMMA MonthLater ==
    ASSUME NEW day \in Days
    PROVE  /\ day \in Nat \ {0} /\ OneMonthAfter(day) \in Nat /\ OneMonthAfter(day) > day
           /\ OneMonthAfter(day) \in (day + 28) .. (day + 31)
  <1>1. PICK m \in Months : day \in DaysOf(m)
    BY DaysAssumption
  <1>2. MonthOf(day) \in Months /\ day \in DaysOf(MonthOf(day))
    BY <1>1 DEF MonthOf
  <1>3. /\ MonthStart[MonthOf(day)] \in Nat /\ MonthStart[MonthOf(day) + 1] \in Nat
        /\ MonthStart[MonthOf(day) + 1] - MonthStart[MonthOf(day)] \in 28 .. 31
    <2>1. \A k \in Months : /\ k \in 1 .. Len(MonthStart) /\ k + 1 \in 1 .. Len(MonthStart)
                             /\ MonthStart[k + 1] - MonthStart[k] \in 28 .. 31
      BY CalendarAssumption DEF Months
    <2>2. \A k \in 1 .. Len(MonthStart) : MonthStart[k] \in Nat
      BY CalendarAssumption
    <2>3. QED
      BY <1>2, <2>1, <2>2
  <1>4. day \in Nat /\ day > MonthStart[MonthOf(day)] /\ day <= MonthStart[MonthOf(day) + 1]
    BY <1>2, <1>3 DEF DaysOf
  <1>5. PICK first, next :
           /\ first = MonthStart[MonthOf(day)] /\ next = MonthStart[MonthOf(day) + 1]
           /\ OneMonthAfter(day) = next + (day - first)
    BY DEF OneMonthAfter, DayOfMonth
  <1>6. first \in Nat /\ next \in Nat /\ next - first >= 28 /\ next - first <= 31
    BY <1>3, <1>5
  <1>7. QED
    BY <1>4, <1>5, <1>6

(* A callback that works knows its invoice; past the verification its      *)
(* amount has been taken, and past the activation the invoice says when.   *)
CallbacksKnow ==
    \A c \in Callbacks :
       LET i == callback[c].invoice IN
       /\ callback[c].at # "idle" => i \in Invoices
       /\ callback[c].at \in {"activate", "look", "create", "link"} => TakenFor(i)
       /\ callback[c].at \in {"look", "create"} => invoice[i].paidOn # 0

(* Nothing was recorded in the future, or before there was an invoice.     *)
RecordedBefore ==
    \A i \in Invoices : /\ invoice[i].paidOn <= today
                        /\ invoice[i].status = "ABSENT" => invoice[i].paidOn = 0

Buying(i) == \E c \in Callbacks : /\ callback[c].invoice = i
                                  /\ callback[c].at \in {"activate", "look", "create"}

(* Taken money has bought a plan of its price or somebody is at it.        *)
Works(i) == Bought(i) \/ Buying(i)

MoneyWorks ==
    \A n \in Invoices :
       (session[n] = "settled" /\ cuts = 0) =>
          \E i \in Invoices : AmountOf[i] = AmountOf[n] /\ Works(i)

BillingInv ==
    /\ BillingTypeOK
    /\ SubscriptionsPaidFor
    /\ PaidMonthServed
    /\ CallbacksKnow
    /\ RecordedBefore
    /\ MoneyWorks

-----------------------------------------------------------------------------
LEMMA InitInv == BillingInit => BillingInv
  <1> SUFFICES ASSUME BillingInit PROVE BillingInv
    OBVIOUS
  <1> USE DaysAssumption, CutAssumption, SessionAssumption DEF BillingInit, NoBill, AtRest
  <1>1. BillingTypeOK
    BY DEF BillingTypeOK, InvoiceStatuses, SessionStates, CallbackPlaces
  <1>2. SubscriptionsPaidFor /\ PaidMonthServed
    BY DEF SubscriptionsPaidFor, PaidMonthServed
  <1>3. CallbacksKnow
    BY DEF CallbacksKnow
  <1>4. RecordedBefore /\ MoneyWorks
    BY MonthLater DEF RecordedBefore, MoneyWorks
  <1>5. QED
    BY <1>1, <1>2, <1>3, <1>4 DEF BillingInv

(* The days and rows the other proofs calculate with.                      *)
LEMMA RowTypes ==
    ASSUME BillingInv
    PROVE  /\ today \in Nat \ {0} /\ Len(sub) \in Nat /\ cuts \in Nat
           /\ \A i \in Invoices : invoice[i].paidOn \in Nat /\ invoice[i].sub \in 0 .. Len(sub)
           /\ \A s \in DOMAIN sub : sub[s] \in SubRows /\ sub[s].end \in Nat
           /\ DOMAIN sub = 1 .. Len(sub)
  <1>1. /\ sub \in Seq(SubRows) /\ today \in Days /\ cuts \in 0 .. CutBound
        /\ invoice \in [Invoices -> [status : InvoiceStatuses, paidOn : Days \cup {0},
                                     sub : 0 .. Len(sub)]]
    BY DEF BillingInv, BillingTypeOK
  <1>2. Days \subseteq Nat \ {0}
    BY MonthLater
  <1>3. /\ Len(sub) \in Nat /\ DOMAIN sub = 1 .. Len(sub)
        /\ \A s \in DOMAIN sub : sub[s] \in SubRows
    BY <1>1
  <1>4. \A s \in DOMAIN sub : sub[s].end \in Nat
    BY <1>3 DEF SubRows
  <1>5. ASSUME NEW i \in Invoices
        PROVE  invoice[i].paidOn \in Nat /\ invoice[i].sub \in 0 .. Len(sub)
    <2>1. invoice[i].paidOn \in Days \cup {0} /\ invoice[i].sub \in 0 .. Len(sub)
      BY <1>1
    <2>2. \A day \in Days : day \in Nat
      BY <1>2
    <2>3. QED
      BY <2>1, <2>2
  <1>6. QED
    BY <1>1, <1>2, <1>3, <1>4, <1>5, CutAssumption

(* What a callback does to itself.                                         *)
LEMMA MoveToType ==
    ASSUME BillingInv, NEW c \in Callbacks, NEW place \in CallbackPlaces, MoveTo(c, place)
    PROVE  /\ callback' \in [Callbacks -> [at : CallbackPlaces,
                                           invoice : Invoices \cup {NoInvoice},
                                           asked : Sessions \cup {NoSession},
                                           sub : 0 .. Len(sub)]]
           /\ callback'[c].at = place
           /\ place # "idle" => callback'[c].invoice = callback[c].invoice
           /\ \A d \in Callbacks : d # c => callback'[d] = callback[d]
  <1>1. /\ AtRest \in [at : CallbackPlaces, invoice : Invoices \cup {NoInvoice},
                       asked : Sessions \cup {NoSession}, sub : 0 .. Len(sub)]
        /\ AtRest.at = "idle"
    BY RowTypes DEF AtRest, CallbackPlaces
  <1>2. callback \in [Callbacks -> [at : CallbackPlaces, invoice : Invoices \cup {NoInvoice},
                                    asked : Sessions \cup {NoSession}, sub : 0 .. Len(sub)]]
    BY DEF BillingInv, BillingTypeOK
  <1>3. CASE place = "idle"
    BY <1>1, <1>2, <1>3 DEF MoveTo
  <1>4. CASE place # "idle"
    BY <1>2, <1>4 DEF MoveTo
  <1>5. QED
    BY <1>3, <1>4

-----------------------------------------------------------------------------
(* An amount that was taken stays taken.                                   *)
TakenBy(i) == \E n \in Sessions : session'[n] = "settled" /\ AmountOf[n] = AmountOf[i]

LEMMA StaysTaken ==
    ASSUME \A n \in Sessions : session[n] = "settled" => session'[n] = "settled"
    PROVE  \A i : /\ TakenFor(i) => TakenBy(i)
                  /\ TakenBy(i) <=> TakenFor(i)'
  BY DEF TakenFor, TakenBy

(* If no invoice's session is settled anew, the money works on.            *)
LEMMA WorksOn ==
    ASSUME BillingInv, cuts' = 0 => cuts = 0,
           \A n \in Invoices : session'[n] = "settled" => session[n] = "settled",
           \A k \in Invoices : Works(k) => Works(k)'
    PROVE  MoneyWorks'
  <1>1. ASSUME NEW n \in Invoices, session'[n] = "settled", cuts' = 0
        PROVE  \E k \in Invoices : AmountOf[k] = AmountOf[n] /\ Works(k)'
    <2>1. PICK k \in Invoices : AmountOf[k] = AmountOf[n] /\ Works(k)
      BY <1>1 DEF BillingInv, MoneyWorks
    <2>2. QED
      BY <2>1
  <1>2. QED
    BY <1>1 DEF MoneyWorks

(* Steps of no callback and no script.                                     *)
LEMMA ElsewhereStep ==
    ASSUME BillingInv, UNCHANGED <<today, sub, callback, cuts>>,
           invoice' \in [Invoices -> [status : InvoiceStatuses, paidOn : Days \cup {0},
                                      sub : 0 .. Len(sub)]],
           session' \in [Sessions -> SessionStates], returned' \subseteq Invoices,
           \A n \in Sessions : session[n] = "settled" => session'[n] = "settled",
           \A n \in Invoices :
              /\ session'[n] = "settled" => session[n] = "settled"
              /\ invoice'[n].paidOn = invoice[n].paidOn
              /\ invoice'[n].status = "ABSENT" => invoice[n].status = "ABSENT"
    PROVE  BillingInv'
  <1>1. BillingTypeOK'
    BY DEF BillingInv, BillingTypeOK
  <1>2. SubscriptionsPaidFor' /\ PaidMonthServed'
    BY StaysTaken DEF BillingInv, SubscriptionsPaidFor, PaidMonthServed
  <1>3. CallbacksKnow'
    BY StaysTaken DEF BillingInv, CallbacksKnow
  <1>4. RecordedBefore'
    BY DEF BillingInv, RecordedBefore
  <1>5. MoneyWorks'
    <2>1. \A k \in Invoices : Works(k) => Works(k)'
      BY DEF Works, Bought, Buying
    <2>2. QED
      BY <2>1, WorksOn
  <1>6. QED
    BY <1>1, <1>2, <1>3, <1>4, <1>5 DEF BillingInv

(* Checkout, payers and report orders.                                     *)
LEMMA CheckoutStep ==
    ASSUME BillingInv, NEW i \in Invoices, UNCHANGED today,
           \/ CreateInvoice(i) \/ CreateCheckout(i)
           \/ PayerDecides(i)  \/ PayerReturns(i)
    PROVE  BillingInv'
  <1>1. UNCHANGED <<today, sub, callback, cuts>> /\ i \in Sessions
    BY SessionAssumption DEF CreateInvoice, CreateCheckout, PayerDecides, PayerReturns
  <1>2. /\ invoice' \in [Invoices -> [status : InvoiceStatuses, paidOn : Days \cup {0},
                                      sub : 0 .. Len(sub)]]
        /\ session' \in [Sessions -> SessionStates]
        /\ returned' \subseteq Invoices
    <2> USE DEF BillingInv, BillingTypeOK
    <2>1. CASE CreateInvoice(i)
      <3>1. [status |-> "PENDING", paidOn |-> 0, sub |-> 0]
              \in [status : InvoiceStatuses, paidOn : Days \cup {0}, sub : 0 .. Len(sub)]
        BY RowTypes DEF InvoiceStatuses
      <3>2. QED
        BY <2>1, <3>1 DEF CreateInvoice
    <2>2. CASE CreateCheckout(i) \/ PayerDecides(i)
      BY <2>2, <1>1 DEF CreateCheckout, PayerDecides, SessionStates
    <2>3. CASE PayerReturns(i)
      BY <2>3 DEF PayerReturns
    <2>4. QED
      BY <2>1, <2>2, <2>3
  <1>3. \A n \in Sessions : session[n] = "settled" <=> session'[n] = "settled"
    BY <1>1 DEF BillingInv, BillingTypeOK, CreateInvoice, CreateCheckout, PayerDecides,
                PayerReturns
  <1>4. \A n \in Invoices : /\ invoice'[n].paidOn = invoice[n].paidOn
                            /\ invoice'[n].status = "ABSENT" => invoice[n].status = "ABSENT"
    BY DEF BillingInv, BillingTypeOK, RecordedBefore, CreateInvoice, CreateCheckout,
           PayerDecides, PayerReturns
  <1>5. QED
    BY <1>1, <1>2, <1>3, <1>4, SessionAssumption, ElsewhereStep

LEMMA OrderStep ==
    ASSUME BillingInv, NEW n \in Sessions, UNCHANGED today, OrderSession(n)
    PROVE  BillingInv'
  <1>1. /\ UNCHANGED <<today, invoice, returned, sub, callback, cuts>> /\ n \notin Invoices
        /\ \/ session' = [session EXCEPT ![n] = "paid"] /\ session[n] = "none"
           \/ session' = [session EXCEPT ![n] = "settled"]
    BY DEF OrderSession
  <1>2. /\ session' \in [Sessions -> SessionStates]
        /\ \A k \in Sessions : session[k] = "settled" => session'[k] = "settled"
        /\ \A k \in Sessions : k # n => session'[k] = session[k]
    BY <1>1 DEF BillingInv, BillingTypeOK, SessionStates
  <1>3. /\ returned' \subseteq Invoices
        /\ invoice' \in [Invoices -> [status : InvoiceStatuses, paidOn : Days \cup {0},
                                      sub : 0 .. Len(sub)]]
    BY <1>1 DEF BillingInv, BillingTypeOK
  <1>4. QED
    BY <1>1, <1>2, <1>3, SessionAssumption, ElsewhereStep

-----------------------------------------------------------------------------
(* Callbacks that write no subscription.  What a step may do to the other  *)
(* rows is in Harmless: money stays taken, and a payment stays recorded.   *)
Harmless(c) ==
    /\ UNCHANGED <<today, sub>>
    /\ invoice' \in [Invoices -> [status : InvoiceStatuses, paidOn : Days \cup {0},
                                  sub : 0 .. Len(sub)]]
    /\ session' \in [Sessions -> SessionStates]
    /\ returned' \subseteq Invoices
    /\ cuts' \in 0 .. CutBound
    /\ callback' \in [Callbacks -> [at : CallbackPlaces, invoice : Invoices \cup {NoInvoice},
                                    asked : Sessions \cup {NoSession}, sub : 0 .. Len(sub)]]
    /\ \A d \in Callbacks : d # c => callback'[d] = callback[d]
    /\ \A n \in Sessions : session[n] = "settled" => session'[n] = "settled"
    /\ \A k \in Invoices :
          /\ invoice'[k].paidOn = invoice[k].paidOn \/ invoice'[k].paidOn = today
          /\ invoice'[k].status = "ABSENT" => invoice'[k].paidOn = 0

(* What the callback itself has made sure of.                              *)
Knows(c, i) ==
    /\ i \in Invoices
    /\ callback'[c].at # "idle" => callback'[c].invoice = i
    /\ callback'[c].at \in {"activate", "look", "create", "link"} => TakenBy(i)
    /\ callback'[c].at \in {"look", "create"} => invoice'[i].paidOn # 0

LEMMA HarmlessStep ==
    ASSUME BillingInv, NEW c \in Callbacks, NEW i, Harmless(c), Knows(c, i), MoneyWorks'
    PROVE  BillingInv'
  <1>1. /\ today' = today /\ sub' = sub /\ today \in Nat \ {0}
        /\ \A n \in Sessions : session[n] = "settled" => session'[n] = "settled"
        /\ \A k \in Invoices : invoice[k].paidOn # 0 => invoice'[k].paidOn # 0
    BY RowTypes DEF Harmless
  <1>2. BillingTypeOK'
    BY <1>1 DEF Harmless, BillingInv, BillingTypeOK
  <1>3. SubscriptionsPaidFor' /\ PaidMonthServed'
    BY <1>1, StaysTaken DEF BillingInv, SubscriptionsPaidFor, PaidMonthServed
  <1>4. ASSUME NEW d \in Callbacks
        PROVE  LET k == callback'[d].invoice IN
               /\ callback'[d].at # "idle" => k \in Invoices
               /\ callback'[d].at \in {"activate", "look", "create", "link"} => TakenBy(k)
               /\ callback'[d].at \in {"look", "create"} => invoice'[k].paidOn # 0
    <2>1. CASE d = c
      BY <2>1 DEF Knows
    <2>2. CASE d # c
      <3>1. callback'[d] = callback[d]
        BY <2>2 DEF Harmless
      <3>2. QED
        BY <3>1, <1>1, StaysTaken DEF BillingInv, CallbacksKnow
    <2>3. QED
      BY <2>1, <2>2
  <1>5. CallbacksKnow'
    BY <1>4 DEF CallbacksKnow, TakenFor, TakenBy
  <1>6. RecordedBefore'
    BY <1>1 DEF Harmless, BillingInv, RecordedBefore
  <1>7. QED
    BY <1>2, <1>3, <1>5, <1>6 DEF BillingInv

LEMMA ArriveStep ==
    ASSUME BillingInv, NEW c \in Callbacks, NEW i \in Invoices, CallbackArrives(c, i),
           UNCHANGED today
    PROVE  BillingInv'
  <1>1. PICK row : \E n \in Authorities : /\ callback' = [callback EXCEPT ![c] = row]
                                          /\ row = [at |-> "verify", invoice |-> i,
                                                    asked |-> n, sub |-> 0]
    BY DEF CallbackArrives
  <1>2. row.at = "verify" /\ row.invoice = i
    BY <1>1
  <1>3. row \in [at : CallbackPlaces, invoice : Invoices \cup {NoInvoice},
                asked : Sessions \cup {NoSession}, sub : 0 .. Len(sub)]
    BY <1>1, RowTypes DEF CallbackPlaces, Authorities
  <1>4. callback' = [callback EXCEPT ![c] = row] /\ callback[c].at = "idle"
    BY <1>1 DEF CallbackArrives
  <1>5. /\ callback' \in [Callbacks -> [at : CallbackPlaces, invoice : Invoices \cup {NoInvoice},
                                        asked : Sessions \cup {NoSession}, sub : 0 .. Len(sub)]]
        /\ callback'[c] = row
        /\ \A d \in Callbacks : d # c => callback'[d] = callback[d]
    BY <1>3, <1>4 DEF BillingInv, BillingTypeOK
  <1>6. UNCHANGED <<invoice, session, returned, sub, cuts>>
    BY DEF CallbackArrives
  <1>7. Harmless(c)
    BY <1>5, <1>6 DEF Harmless, BillingInv, BillingTypeOK, RecordedBefore
  <1>8. Knows(c, i)
    BY <1>2, <1>5 DEF Knows
  <1>9. MoneyWorks'
    <2>1. \A k \in Invoices : Works(k) => Works(k)'
      BY <1>4, <1>5, <1>6 DEF Works, Bought, Buying
    <2>2. QED
      BY <2>1, <1>6, WorksOn
  <1>10. QED
    BY <1>7, <1>8, <1>9, HarmlessStep

(* What a callback that is under way has to do with.                       *)
LEMMA Underway ==
    ASSUME BillingInv, NEW c \in Callbacks, callback[c].at # "idle"
    PROVE  /\ callback[c].invoice \in Invoices
           /\ callback[c].at \in {"activate", "look", "create", "link"}
                 => TakenFor(callback[c].invoice)
           /\ callback[c].at \in {"look", "create"}
                 => invoice[callback[c].invoice].paidOn # 0
  BY DEF BillingInv, CallbacksKnow

(* What the provider's answer does to the sessions: an answer "paid" says  *)
(* that the amount of the invoice has been taken.                          *)
LEMMA Settles ==
    ASSUME BillingInv, NEW c \in Callbacks, Settle(c)
    PROVE  /\ session' \in [Sessions -> SessionStates]
           /\ \A n \in Sessions : session[n] = "settled" => session'[n] = "settled"
           /\ \A n \in Sessions : n # callback[c].asked => session'[n] = session[n]
           /\ ~Paid(c) => session' = session
           /\ Paid(c) => /\ callback[c].asked \in Sessions
                         /\ AmountOf[callback[c].asked] = AmountOf[callback[c].invoice]
                         /\ session'[callback[c].asked] = "settled"
  <1>1. CASE Paid(c)
    BY <1>1 DEF Settle, Paid, SessionStates, BillingInv, BillingTypeOK
  <1>2. CASE ~Paid(c)
    BY <1>2 DEF Settle, BillingInv, BillingTypeOK
  <1>3. QED
    BY <1>1, <1>2

LEMMA VerifyStep ==
    ASSUME BillingInv, NEW c \in Callbacks, VerifyCheckout(c), UNCHANGED today
    PROVE  BillingInv'
  <1> DEFINE i == callback[c].invoice
             place == IF Paid(c) THEN "activate" ELSE "fail"
  <1>1. /\ callback[c].at = "verify" /\ Settle(c) /\ MoveTo(c, place)
        /\ UNCHANGED <<invoice, returned, sub, cuts>>
    BY DEF VerifyCheckout
  <1>2. i \in Invoices
    BY <1>1, Underway
  <1>3. /\ callback' \in [Callbacks -> [at : CallbackPlaces, invoice : Invoices \cup {NoInvoice},
                                        asked : Sessions \cup {NoSession}, sub : 0 .. Len(sub)]]
        /\ callback'[c].at = place /\ callback'[c].invoice = i
        /\ \A d \in Callbacks : d # c => callback'[d] = callback[d]
    <2>1. place \in CallbackPlaces /\ place # "idle"
      BY DEF CallbackPlaces
    <2>2. QED
      BY <1>1, <2>1, MoveToType
  <1>4. Harmless(c)
    BY <1>1, <1>3, Settles DEF Harmless, BillingInv, BillingTypeOK, RecordedBefore
  <1>5. Knows(c, i)
    <2>1. Paid(c) => TakenBy(i)
      BY <1>1, Settles DEF TakenBy
    <2>2. QED
      BY <1>2, <1>3, <2>1 DEF Knows
  <1>6. MoneyWorks'
    <2>1. \A k \in Invoices : Works(k) => Works(k)'
      BY <1>1, <1>3 DEF Works, Bought, Buying
    <2>2. CASE ~Paid(c)
      BY <2>1, <2>2, <1>1, Settles, WorksOn
    <2>3. CASE Paid(c)
      <3>1. \A k \in Invoices : k = i => Works(k)'
        BY <2>3, <1>3 DEF Works, Buying
      <3>2. ASSUME NEW n \in Invoices, session'[n] = "settled", cuts' = 0
            PROVE  \E k \in Invoices : AmountOf[k] = AmountOf[n] /\ Works(k)'
        <4>1. CASE n = callback[c].asked
          BY <4>1, <2>3, <3>1, <1>1, <1>2, Settles
        <4>2. CASE n # callback[c].asked
          <5>1. session[n] = "settled"
            BY <3>2, <4>2, <1>1, Settles, SessionAssumption
          <5>2. PICK k \in Invoices : AmountOf[k] = AmountOf[n] /\ Works(k)
            BY <5>1, <3>2, <1>1 DEF BillingInv, MoneyWorks
          <5>3. QED
            BY <5>2, <2>1
        <4>3. QED
          BY <4>1, <4>2
      <3>3. QED
        BY <3>2 DEF MoneyWorks
    <2>4. QED
      BY <2>2, <2>3
  <1>7. QED
    BY <1>4, <1>5, <1>6, HarmlessStep

(* The invoices that a callback does not work on keep their money's worth. *)
LEMMA OthersWork ==
    ASSUME BillingInv, NEW c \in Callbacks, NEW k \in Invoices,
           UNCHANGED sub, invoice'[k].paidOn = invoice[k].paidOn,
           \A d \in Callbacks : d # c => callback'[d] = callback[d],
           callback[c].invoice # k \/ callback[c].at \notin {"activate", "look", "create"},
           Works(k)
    PROVE  Works(k)'
  <1>1. Bought(k) => Bought(k)'
    BY DEF Bought
  <1>2. Buying(k) => Buying(k)'
    BY DEF Buying
  <1>3. QED
    BY <1>1, <1>2 DEF Works

LEMMA ActivateStep ==
    ASSUME BillingInv, NEW c \in Callbacks, ActivateInvoice(c), UNCHANGED today
    PROVE  BillingInv'
  <1> DEFINE i == callback[c].invoice
  <1>1. /\ callback[c].at = "activate" /\ MoveTo(c, "look")
        /\ UNCHANGED <<session, returned, sub, cuts>>
    BY DEF ActivateInvoice
  <1>2. i \in Invoices /\ TakenFor(i)
    BY <1>1, Underway
  <1>3. PICK row : row = [status |-> "PAID", paidOn |-> today, sub |-> invoice[i].sub]
    OBVIOUS
  <1>4. row.paidOn = today /\ row.status = "PAID"
    BY <1>3
  <1>5. row \in [status : InvoiceStatuses, paidOn : Days \cup {0}, sub : 0 .. Len(sub)]
    BY <1>2, <1>3, RowTypes DEF BillingInv, BillingTypeOK, InvoiceStatuses
  <1>6. invoice' = [invoice EXCEPT ![i] = row]
    BY <1>3 DEF ActivateInvoice
  <1>7. /\ invoice' \in [Invoices -> [status : InvoiceStatuses, paidOn : Days \cup {0},
                                      sub : 0 .. Len(sub)]]
        /\ invoice'[i] = row
        /\ \A k \in Invoices : k # i => invoice'[k] = invoice[k]
    BY <1>2, <1>5, <1>6 DEF BillingInv, BillingTypeOK
  <1>8. /\ callback' \in [Callbacks -> [at : CallbackPlaces, invoice : Invoices \cup {NoInvoice},
                                        asked : Sessions \cup {NoSession}, sub : 0 .. Len(sub)]]
        /\ callback'[c].at = "look" /\ callback'[c].invoice = i
        /\ \A d \in Callbacks : d # c => callback'[d] = callback[d]
    BY <1>1, MoveToType DEF CallbackPlaces
  <1>9. Harmless(c)
    BY <1>1, <1>4, <1>7, <1>8 DEF Harmless, BillingInv, BillingTypeOK, RecordedBefore
  <1>10. Knows(c, i)
    BY <1>1, <1>2, <1>4, <1>7, <1>8, RowTypes DEF Knows, TakenFor, TakenBy
  <1>11. MoneyWorks'
    <2>1. ASSUME NEW k \in Invoices, Works(k) PROVE Works(k)'
      <3>1. CASE k = i
        BY <3>1, <1>8 DEF Works, Buying
      <3>2. CASE k # i
        BY <2>1, <3>2, <1>1, <1>7, <1>8, OthersWork
      <3>3. QED
        BY <3>1, <3>2
    <2>2. QED
      BY <2>1, <1>1, WorksOn
  <1>12. QED
    BY <1>9, <1>10, <1>11, HarmlessStep

LEMMA LookStep ==
    ASSUME BillingInv, NEW c \in Callbacks, LookForSubscription(c), UNCHANGED today
    PROVE  BillingInv'
  <1> DEFINE i == callback[c].invoice
             place == IF HasPlan(PlanOf[i]) THEN "idle" ELSE "create"
  <1>1. /\ callback[c].at = "look" /\ MoveTo(c, place)
        /\ UNCHANGED <<invoice, session, returned, sub, cuts>>
    BY DEF LookForSubscription
  <1>2. i \in Invoices /\ TakenFor(i) /\ invoice[i].paidOn # 0
    BY <1>1, Underway
  <1>3. place \in CallbackPlaces
    BY DEF CallbackPlaces
  <1>4. /\ callback' \in [Callbacks -> [at : CallbackPlaces, invoice : Invoices \cup {NoInvoice},
                                        asked : Sessions \cup {NoSession}, sub : 0 .. Len(sub)]]
        /\ callback'[c].at = place /\ (place # "idle" => callback'[c].invoice = i)
        /\ \A d \in Callbacks : d # c => callback'[d] = callback[d]
    BY <1>1, <1>3, MoveToType
  <1>5. Harmless(c)
    BY <1>1, <1>4 DEF Harmless, BillingInv, BillingTypeOK, RecordedBefore
  <1>6. Knows(c, i)
    BY <1>1, <1>2, <1>4 DEF Knows, TakenFor, TakenBy
  <1>7. MoneyWorks'
    <2>1. ASSUME NEW k \in Invoices, Works(k) PROVE Works(k)'
      <3>1. CASE k = i /\ HasPlan(PlanOf[i])
        <4>1. PICK s \in DOMAIN sub : sub[s].end > today /\ sub[s].plan = PlanOf[i]
          BY <3>1 DEF HasPlan, Active, InForce
        <4>2. invoice[i].paidOn <= today /\ invoice[i].paidOn \in Nat /\ today \in Nat
              /\ sub[s].end \in Nat
          BY <1>2, RowTypes DEF BillingInv, RecordedBefore
        <4>3. QED
          BY <3>1, <4>1, <4>2, <1>1, <1>2 DEF Works, Bought
      <3>2. CASE k = i /\ ~HasPlan(PlanOf[i])
        BY <3>2, <1>4 DEF Works, Buying
      <3>3. CASE k # i
        BY <2>1, <3>3, <1>1, <1>4, OthersWork
      <3>4. QED
        BY <3>1, <3>2, <3>3
    <2>2. QED
      BY <2>1, <1>1, WorksOn
  <1>8. QED
    BY <1>5, <1>6, <1>7, HarmlessStep

(* The last places of a callback: the link to the subscription, or FAILED. *)
LEMMA EndStep ==
    ASSUME BillingInv, NEW c \in Callbacks, LinkInvoice(c) \/ FailInvoice(c), UNCHANGED today
    PROVE  BillingInv'
  <1> DEFINE i == callback[c].invoice
  <1>1. /\ callback[c].at \in {"link", "fail"} /\ MoveTo(c, "idle")
        /\ UNCHANGED <<session, returned, sub, cuts>>
    BY DEF LinkInvoice, FailInvoice
  <1>2. i \in Invoices
    BY <1>1, Underway
  <1>3. PICK row : /\ invoice' = [invoice EXCEPT ![i] = row]
                   /\ row.paidOn = invoice[i].paidOn
                   /\ row.status = invoice[i].status \/ row.status = "FAILED"
                   /\ row \in [status : InvoiceStatuses, paidOn : Days \cup {0},
                               sub : 0 .. Len(sub)]
    <2>1. invoice[i] \in [status : InvoiceStatuses, paidOn : Days \cup {0}, sub : 0 .. Len(sub)]
          /\ callback[c].sub \in 0 .. Len(sub)
      BY <1>2 DEF BillingInv, BillingTypeOK
    <2>2. CASE LinkInvoice(c)
      <3>1. PICK row : row = [status |-> invoice[i].status, paidOn |-> invoice[i].paidOn,
                              sub |-> callback[c].sub]
        OBVIOUS
      <3>2. row.paidOn = invoice[i].paidOn /\ row.status = invoice[i].status
        BY <3>1
      <3>3. row \in [status : InvoiceStatuses, paidOn : Days \cup {0}, sub : 0 .. Len(sub)]
        BY <2>1, <3>1
      <3>4. invoice' = [invoice EXCEPT ![i] = row]
        BY <2>2, <3>1 DEF LinkInvoice
      <3>5. QED
        BY <3>2, <3>3, <3>4
    <2>3. CASE FailInvoice(c)
      <3>1. PICK row : row = [status |-> "FAILED", paidOn |-> invoice[i].paidOn,
                              sub |-> invoice[i].sub]
        OBVIOUS
      <3>2. row.paidOn = invoice[i].paidOn /\ row.status = "FAILED"
        BY <3>1
      <3>3. row \in [status : InvoiceStatuses, paidOn : Days \cup {0}, sub : 0 .. Len(sub)]
        BY <2>1, <3>1 DEF InvoiceStatuses
      <3>4. invoice' = [invoice EXCEPT ![i] = row]
        BY <2>3, <3>1 DEF FailInvoice
      <3>5. QED
        BY <3>2, <3>3, <3>4
    <2>4. QED
      BY <2>2, <2>3
  <1>4. /\ invoice' \in [Invoices -> [status : InvoiceStatuses, paidOn : Days \cup {0},
                                      sub : 0 .. Len(sub)]]
        /\ invoice'[i] = row
        /\ \A k \in Invoices : k # i => invoice'[k] = invoice[k]
    BY <1>2, <1>3 DEF BillingInv, BillingTypeOK
  <1>5. /\ callback' \in [Callbacks -> [at : CallbackPlaces, invoice : Invoices \cup {NoInvoice},
                                        asked : Sessions \cup {NoSession}, sub : 0 .. Len(sub)]]
        /\ callback'[c].at = "idle"
        /\ \A d \in Callbacks : d # c => callback'[d] = callback[d]
    BY <1>1, MoveToType DEF CallbackPlaces
  <1>6. Harmless(c)
    BY <1>1, <1>2, <1>3, <1>4, <1>5 DEF Harmless, BillingInv, BillingTypeOK, RecordedBefore
  <1>7. Knows(c, i)
    BY <1>2, <1>5 DEF Knows
  <1>8. MoneyWorks'
    <2>1. \A k \in Invoices : invoice'[k].paidOn = invoice[k].paidOn
      BY <1>3, <1>4
    <2>2. QED
      BY <2>1, <1>1, <1>5, OthersWork, WorksOn
  <1>9. QED
    BY <1>6, <1>7, <1>8, HarmlessStep

LEMMA CutOffStep ==
    ASSUME BillingInv, NEW c \in Callbacks, CutOff(c), UNCHANGED today
    PROVE  BillingInv'
  <1> DEFINE i == callback[c].invoice
  <1>1. /\ callback[c].at # "idle" /\ MoveTo(c, "idle") /\ cuts < CutBound /\ cuts' = cuts + 1
        /\ UNCHANGED session \/ Settle(c)
        /\ UNCHANGED <<invoice, returned, sub>>
    BY DEF CutOff
  <1>2. i \in Invoices /\ cuts' \in 0 .. CutBound /\ cuts' # 0
    BY <1>1, Underway, CutAssumption, RowTypes
  <1>3. /\ session' \in [Sessions -> SessionStates]
        /\ \A n \in Sessions : session[n] = "settled" => session'[n] = "settled"
    BY <1>1, Settles DEF BillingInv, BillingTypeOK
  <1>4. /\ callback' \in [Callbacks -> [at : CallbackPlaces, invoice : Invoices \cup {NoInvoice},
                                        asked : Sessions \cup {NoSession}, sub : 0 .. Len(sub)]]
        /\ callback'[c].at = "idle"
        /\ \A d \in Callbacks : d # c => callback'[d] = callback[d]
    BY <1>1, MoveToType DEF CallbackPlaces
  <1>5. Harmless(c)
    BY <1>1, <1>2, <1>3, <1>4 DEF Harmless, BillingInv, BillingTypeOK, RecordedBefore
  <1>6. Knows(c, i) /\ MoneyWorks'
    BY <1>2, <1>4 DEF Knows, MoneyWorks
  <1>7. QED
    BY <1>5, <1>6, HarmlessStep

-----------------------------------------------------------------------------
(* Steps that change the subscriptions or the day.                         *)
LEMMA CreateStep ==
    ASSUME BillingInv, NEW c \in Callbacks, CreateSubscription(c), UNCHANGED today
    PROVE  BillingInv'
  <1> DEFINE i == callback[c].invoice
  <1>1. /\ callback[c].at = "create" /\ UNCHANGED <<invoice, session, returned, cuts>>
        /\ sub' = Append(sub, NewSubscription(i))
    BY DEF CreateSubscription
  <1>2. i \in Invoices /\ TakenFor(i) /\ invoice[i].paidOn # 0
    BY <1>1, Underway
  <1>3. PICK new : new = NewSubscription(i)
    OBVIOUS
  <1>4. /\ new.plan = PlanOf[i] /\ new.status = "ACTIVE" /\ new.end = OneMonthAfter(today)
        /\ new.for = i
    BY <1>3 DEF NewSubscription
  <1>5. today \in Days /\ OneMonthAfter(today) \in Nat /\ OneMonthAfter(today) > today
    BY MonthLater DEF BillingInv, BillingTypeOK
  <1>6. new \in SubRows
    BY <1>2, <1>3, <1>5, MonthLater DEF NewSubscription, SubRows, Plans, SubStatuses
  <1>7. /\ sub \in Seq(SubRows) /\ sub' \in Seq(SubRows) /\ Len(sub') = Len(sub) + 1
        /\ Len(sub) \in Nat /\ sub'[Len(sub) + 1] = new
        /\ \A s \in DOMAIN sub : sub'[s] = sub[s]
        /\ DOMAIN sub = 1 .. Len(sub) /\ DOMAIN sub' = 1 .. (Len(sub) + 1)
    BY <1>1, <1>3, <1>6 DEF BillingInv, BillingTypeOK
  <1>8. PICK row : row = [at |-> "link", invoice |-> i, asked |-> NoSession,
                       sub |-> Len(sub) + 1]
    OBVIOUS
  <1>9. row.at = "link" /\ row.invoice = i
    BY <1>8
  <1>10. row \in [at : CallbackPlaces, invoice : Invoices \cup {NoInvoice},
                asked : Sessions \cup {NoSession}, sub : 0 .. Len(sub')]
    BY <1>2, <1>7, <1>8 DEF CallbackPlaces
  <1>11. callback' = [callback EXCEPT ![c] = row]
    BY <1>8 DEF CreateSubscription
  <1>12. callback \in [Callbacks -> [at : CallbackPlaces, invoice : Invoices \cup {NoInvoice},
                                     asked : Sessions \cup {NoSession}, sub : 0 .. Len(sub')]]
    <2>1. 0 .. Len(sub) \subseteq 0 .. Len(sub')
      BY <1>7
    <2>2. callback \in [Callbacks -> [at : CallbackPlaces, invoice : Invoices \cup {NoInvoice},
                                      asked : Sessions \cup {NoSession}, sub : 0 .. Len(sub)]]
      BY DEF BillingInv, BillingTypeOK
    <2>3. QED
      BY <2>1, <2>2
  <1>13. /\ callback' \in [Callbacks -> [at : CallbackPlaces, invoice : Invoices \cup {NoInvoice},
                                         asked : Sessions \cup {NoSession}, sub : 0 .. Len(sub')]]
         /\ callback'[c] = row
         /\ \A d \in Callbacks : d # c => callback'[d] = callback[d]
    BY <1>10, <1>11, <1>12
  <1>14. invoice' \in [Invoices -> [status : InvoiceStatuses, paidOn : Days \cup {0},
                                    sub : 0 .. Len(sub')]]
    <2>1. 0 .. Len(sub) \subseteq 0 .. Len(sub')
      BY <1>7
    <2>2. invoice \in [Invoices -> [status : InvoiceStatuses, paidOn : Days \cup {0},
                                    sub : 0 .. Len(sub)]]
      BY DEF BillingInv, BillingTypeOK
    <2>3. QED
      BY <2>1, <2>2, <1>1
  <1>15. BillingTypeOK'
    BY <1>1, <1>7, <1>13, <1>14 DEF BillingInv, BillingTypeOK
  <1>16. SubscriptionsPaidFor'
    BY <1>1, <1>2, <1>4, <1>7, StaysTaken DEF BillingInv, SubscriptionsPaidFor
  <1>17. PaidMonthServed'
    BY <1>1, <1>4, <1>7 DEF BillingInv, PaidMonthServed
  <1>18. CallbacksKnow'
    BY <1>1, <1>2, <1>9, <1>13, StaysTaken DEF BillingInv, CallbacksKnow
  <1>19. RecordedBefore'
    BY <1>1 DEF BillingInv, RecordedBefore
  <1>20. ASSUME NEW k \in Invoices, Works(k) PROVE Works(k)'
    <2>1. CASE k = i
      <3>1. invoice[i].paidOn <= today /\ invoice[i].paidOn \in Nat /\ today \in Nat
        BY <1>2, RowTypes DEF BillingInv, RecordedBefore
      <3>2. new.end > invoice[i].paidOn
        BY <3>1, <1>4, <1>5
      <3>3. Len(sub) + 1 \in DOMAIN sub'
        BY <1>7
      <3>4. QED
        BY <2>1, <3>2, <3>3, <1>1, <1>2, <1>4, <1>7 DEF Works, Bought
    <2>2. CASE k # i
      <3>1. Bought(k) => Bought(k)'
        BY <1>1, <1>7 DEF Bought
      <3>2. Buying(k) => Buying(k)'
        BY <2>2, <1>13 DEF Buying
      <3>3. QED
        BY <1>20, <3>1, <3>2 DEF Works
    <2>3. QED
      BY <2>1, <2>2
  <1>21. MoneyWorks'
    BY <1>20, <1>1, WorksOn
  <1>22. QED
    BY <1>15, <1>16, <1>17, <1>18, <1>19, <1>21 DEF BillingInv

(* The expiry script: only what is over changes its status.                *)
LEMMA ExpiryStep ==
    ASSUME BillingInv, ExpirePastDue \/ CancelPastDue, UNCHANGED today
    PROVE  BillingInv'
  <1>1. UNCHANGED <<invoice, session, returned, callback, cuts>>
    BY DEF ExpirePastDue, CancelPastDue
  <1>2. /\ sub \in Seq(SubRows) /\ DOMAIN sub = 1 .. Len(sub) /\ Len(sub) \in Nat
        /\ \A s \in DOMAIN sub : sub[s] \in SubRows /\ sub[s].end \in Nat
        /\ today \in Nat
    BY RowTypes DEF BillingInv, BillingTypeOK
  <1>3. \A row \in SubRows : \A status \in SubStatuses :
           /\ WithStatus(row, status) \in SubRows
           /\ WithStatus(row, status).plan = row.plan /\ WithStatus(row, status).end = row.end
           /\ WithStatus(row, status).for = row.for
    BY DEF WithStatus, SubRows
  <1>4. /\ DOMAIN sub' = 1 .. Len(sub)
        /\ \A s \in DOMAIN sub :
              /\ sub'[s] \in SubRows
              /\ sub'[s].plan = sub[s].plan /\ sub'[s].end = sub[s].end
              /\ sub'[s].for = sub[s].for
              /\ sub'[s] = sub[s] \/ Expired(sub[s], today) \/ Abandoned(sub[s], today)
    <2>1. "PAST_DUE" \in SubStatuses /\ "CANCELED" \in SubStatuses
      BY DEF SubStatuses
    <2>2. CASE ExpirePastDue
      BY <2>1, <2>2, <1>2, <1>3 DEF ExpirePastDue
    <2>3. CASE CancelPastDue
      BY <2>1, <2>3, <1>2, <1>3 DEF CancelPastDue
    <2>4. QED
      BY <2>2, <2>3
  <1>5. sub' \in Seq(SubRows) /\ Len(sub') = Len(sub)
    <2>1. PICK f : f = sub'
      OBVIOUS
    <2>2. f \in [1 .. Len(sub) -> SubRows]
      <3>1. \E g \in [1 .. Len(sub) -> SubRows] : g = f
        <4>1. CASE ExpirePastDue
          BY <4>1, <2>1, <1>2, <1>4 DEF ExpirePastDue
        <4>2. CASE CancelPastDue
          BY <4>2, <2>1, <1>2, <1>4 DEF CancelPastDue
        <4>3. QED
          BY <4>1, <4>2
      <3>2. QED
        BY <3>1
    <2>3. f \in Seq(SubRows) /\ Len(f) = Len(sub)
      BY <2>2, <1>2
    <2>4. QED
      BY <2>1, <2>3
  <1>6. BillingTypeOK'
    BY <1>1, <1>5 DEF BillingInv, BillingTypeOK
  <1>7. SubscriptionsPaidFor'
    BY <1>1, <1>2, <1>4 DEF BillingInv, SubscriptionsPaidFor, TakenFor
  <1>8. PaidMonthServed'
    <2>1. ASSUME NEW s \in DOMAIN sub, today < sub[s].end PROVE sub'[s].status = "ACTIVE"
      <3>1. sub[s].status = "ACTIVE"
        BY <2>1 DEF BillingInv, PaidMonthServed
      <3>2. ~Expired(sub[s], today) /\ ~Abandoned(sub[s], today)
        BY <3>1, <2>1, <1>2 DEF Expired, Abandoned
      <3>3. QED
        BY <3>1, <3>2, <1>4
    <2>2. QED
      BY <2>1, <1>2, <1>4 DEF PaidMonthServed
  <1>9. CallbacksKnow' /\ RecordedBefore'
    BY <1>1 DEF BillingInv, CallbacksKnow, RecordedBefore, TakenFor
  <1>10. MoneyWorks'
    <2>1. \A k \in Invoices : Works(k) => Works(k)'
      BY <1>1, <1>2, <1>4 DEF Works, Bought, Buying
    <2>2. QED
      BY <2>1, <1>1, WorksOn
  <1>11. QED
    BY <1>6, <1>7, <1>8, <1>9, <1>10 DEF BillingInv

LEMMA DayStep == ASSUME BillingInv, DayPasses PROVE BillingInv'
  <1>1. /\ today' \in Days /\ today' > today
        /\ UNCHANGED <<invoice, session, returned, sub, callback, cuts>>
    BY DEF DayPasses, billingVars
  <1>2. today \in Nat /\ today' \in Nat
    BY <1>1, RowTypes, MonthLater
  <1>3. BillingTypeOK'
    BY <1>1 DEF BillingInv, BillingTypeOK
  <1>4. SubscriptionsPaidFor' /\ CallbacksKnow'
    BY <1>1 DEF BillingInv, SubscriptionsPaidFor, CallbacksKnow, TakenFor
  <1>5. PaidMonthServed'
    BY <1>1, <1>2, RowTypes DEF BillingInv, PaidMonthServed
  <1>6. RecordedBefore'
    BY <1>1, <1>2, RowTypes DEF BillingInv, RecordedBefore
  <1>7. MoneyWorks'
    BY <1>1 DEF BillingInv, MoneyWorks, Works, Bought, Buying
  <1>8. QED
    BY <1>3, <1>4, <1>5, <1>6, <1>7 DEF BillingInv

-----------------------------------------------------------------------------
LEMMA NextInv == BillingInv /\ [BillingNext]_vars => BillingInv'
  <1> SUFFICES ASSUME BillingInv, [BillingNext]_vars PROVE BillingInv'
    OBVIOUS
  <1>1. CASE UNCHANGED vars
    <2>1. UNCHANGED <<today, invoice, session, returned, sub, callback, cuts>>
      BY <1>1 DEF vars, billingVars
    <2>2. BillingTypeOK'
      BY <2>1 DEF BillingInv, BillingTypeOK
    <2>3. SubscriptionsPaidFor' /\ PaidMonthServed' /\ CallbacksKnow' /\ RecordedBefore'
      BY <2>1 DEF BillingInv, SubscriptionsPaidFor, PaidMonthServed, CallbacksKnow,
                  RecordedBefore, TakenFor
    <2>4. MoneyWorks'
      BY <2>1 DEF BillingInv, MoneyWorks, Works, Bought, Buying
    <2>5. QED
      BY <2>2, <2>3, <2>4 DEF BillingInv
  <1>2. CASE DayPasses
    BY <1>2, DayStep
  <1>3. CASE BillingStep /\ UNCHANGED today
    <2>1. ASSUME NEW i \in Invoices,
                 \/ CreateInvoice(i) \/ CreateCheckout(i)
                 \/ PayerDecides(i) \/ PayerReturns(i)
          PROVE  BillingInv'
      BY <2>1, <1>3, CheckoutStep
    <2>2. ASSUME NEW i \in Invoices, NEW c \in Callbacks, CallbackArrives(c, i)
          PROVE  BillingInv'
      BY <2>2, <1>3, ArriveStep
    <2>3. ASSUME NEW c \in Callbacks, CallbackStep(c) \/ CutOff(c) PROVE BillingInv'
      BY <2>3, <1>3, VerifyStep, ActivateStep, LookStep, CreateStep, EndStep, CutOffStep
         DEF CallbackStep
    <2>4. ASSUME NEW n \in Sessions, OrderSession(n) PROVE BillingInv'
      BY <2>4, <1>3, OrderStep
    <2>5. CASE ExpirePastDue \/ CancelPastDue
      BY <2>5, <1>3, ExpiryStep
    <2>6. QED
      BY <1>3, <2>1, <2>2, <2>3, <2>4, <2>5 DEF BillingStep
  <1>4. QED
    BY <1>1, <1>2, <1>3 DEF BillingNext

LEMMA BillingInvariant == BillingSpec => []BillingInv
  BY InitInv, NextInv, PTL DEF BillingSpec

(* Invoices, sessions, subscriptions and callbacks keep their types, for   *)
(* any number of them.                                                     *)
THEOREM BillingTypesKept == BillingSpec => []BillingTypeOK
  <1>1. BillingInv => BillingTypeOK
    BY DEF BillingInv
  <1>2. QED
    BY <1>1, BillingInvariant, PTL

(* The callback route never creates a subscription for an invoice before   *)
(* its amount was taken in some session, whoever calls it, how often, when *)
(* and naming whichever session.                                           *)
THEOREM NothingForNothing == BillingSpec => []SubscriptionsPaidFor
  <1>1. BillingInv => SubscriptionsPaidFor
    BY DEF BillingInv
  <1>2. QED
    BY <1>1, BillingInvariant, PTL

(* The expiry script never ends a subscription before its last day.        *)
THEOREM MonthsServed == BillingSpec => []PaidMonthServed
  <1>1. BillingInv => PaidMonthServed
    BY DEF BillingInv
  <1>2. QED
    BY <1>1, BillingInvariant, PTL

(* Money that was taken for an invoice has bought a plan of its price, or  *)
(* a callback is at it, unless one was cut off.                            *)
THEOREM MoneyBuys == BillingSpec => []MoneyBuysPlanUnlessCut
  <1>1. BillingInv => MoneyBuysPlanUnlessCut
    BY DEF BillingInv, MoneyWorks, Works, Buying, MoneyBuysPlanUnlessCut, Working
  <1>2. QED
    BY <1>1, BillingInvariant, PTL
-----------------------------------------------------------------------------
(* The refinement of PaidPlans.                                            *)
Refines == [Plan!PlansNext]_Plan!planVars

(* Steps that write no subscription take the money of one session, or do   *)
(* nothing that an organization could see.                                 *)
LEMMA MoneyRefines ==
    ASSUME BillingInv, NEW i \in Sessions, UNCHANGED <<today, sub>>,
           \A k \in Sessions : k # i => (session'[k] = "settled" <=> session[k] = "settled"),
           session[i] = "settled" => session'[i] = "settled"
    PROVE  Refines
  <1>1. BoughtMonths' = BoughtMonths
    BY DEF BoughtMonths
  <1>2. CASE session'[i] = "settled"
    <2>1. Taken' = Taken \cup {i}
      BY <1>2 DEF Taken
    <2>2. Plan!Takes(i)
      BY <1>1, <2>1 DEF Plan!Takes
    <2>3. QED
      BY <2>2 DEF Refines, Plan!PlansNext
  <1>3. CASE session'[i] # "settled"
    <2>1. Taken' = Taken
      BY <1>3 DEF Taken
    <2>2. QED
      BY <1>1, <2>1 DEF Refines, Plan!planVars
  <1>4. QED
    BY <1>2, <1>3

LEMMA QuietRefines == UNCHANGED <<today, sub, session>> => Refines
  BY DEF BoughtMonths, Taken, Refines, Plan!planVars

LEMMA CheckoutRefines ==
    ASSUME BillingInv, NEW i \in Sessions, UNCHANGED today,
           \/ CreateInvoice(i) \/ CreateCheckout(i) \/ PayerDecides(i)
           \/ PayerReturns(i)  \/ OrderSession(i)
    PROVE  Refines
  <1>1. CASE CreateInvoice(i) \/ PayerReturns(i)
    BY <1>1, QuietRefines DEF CreateInvoice, PayerReturns
  <1>2. CASE CreateCheckout(i) \/ PayerDecides(i) \/ OrderSession(i)
    <2>1. /\ UNCHANGED <<today, sub>> /\ session[i] # "settled"
          /\ \A k \in Sessions : k # i => session'[k] = session[k]
      BY <1>2 DEF CreateCheckout, PayerDecides, OrderSession, BillingInv, BillingTypeOK
    <2>2. QED
      BY <2>1, MoneyRefines
  <1>3. QED
    BY <1>1, <1>2

LEMMA SettlingRefines ==
    ASSUME BillingInv, NEW c \in Callbacks, UNCHANGED <<today, sub>>, Settle(c)
    PROVE  Refines
  <1>1. CASE Paid(c)
    BY <1>1, Settles, MoneyRefines
  <1>2. CASE ~Paid(c)
    BY <1>2, Settles, QuietRefines
  <1>3. QED
    BY <1>1, <1>2

LEMMA BuysRefines ==
    ASSUME BillingInv, NEW c \in Callbacks, CreateSubscription(c), UNCHANGED today
    PROVE  Refines
  <1> DEFINE i == callback[c].invoice
  <1>1. i \in Invoices /\ TakenFor(i)
    BY DEF CreateSubscription, BillingInv, CallbacksKnow
  <1>2. PICK new : new = NewSubscription(i)
    OBVIOUS
  <1>3. new.plan = PlanOf[i] /\ new.status = "ACTIVE" /\ new.end = OneMonthAfter(today)
    BY <1>2 DEF NewSubscription
  <1>4. new \in SubRows
    <2>1. today \in Days /\ OneMonthAfter(today) \in Nat /\ today \in Nat
      BY MonthLater DEF BillingInv, BillingTypeOK
    <2>2. QED
      BY <1>1, <1>2, <2>1 DEF NewSubscription, SubRows, Plans, SubStatuses
  <1>5. /\ sub \in Seq(SubRows) /\ sub' = Append(sub, new)
        /\ UNCHANGED <<today, session>>
    BY <1>2 DEF CreateSubscription, BillingInv, BillingTypeOK
  <1>6. PICK month : month = [plan |-> PlanOf[i], until |-> OneMonthAfter(today),
                              status |-> "ACTIVE"]
    OBVIOUS
  <1>7. BoughtMonths' = Append(BoughtMonths, month)
    <2>1. /\ DOMAIN sub = 1 .. Len(sub) /\ Len(sub) \in Nat
          /\ DOMAIN sub' = 1 .. (Len(sub) + 1)
          /\ \A s \in 1 .. Len(sub) : sub'[s] = sub[s]
          /\ sub'[Len(sub) + 1] = new
      BY <1>4, <1>5
    <2>2. BoughtMonths \in Seq([plan : Plans, until : Nat, status : SubStatuses])
      <3>1. \A s \in 1 .. Len(sub) : sub[s] \in SubRows
        BY <1>5
      <3>2. \A s \in 1 .. Len(sub) : [plan |-> sub[s].plan, until |-> sub[s].end,
               status |-> sub[s].status] \in [plan : Plans, until : Nat, status : SubStatuses]
        BY <3>1 DEF SubRows
      <3>3. QED
        BY <2>1, <3>2 DEF BoughtMonths
    <2>3. Len(BoughtMonths) = Len(sub) /\ DOMAIN BoughtMonths = 1 .. Len(sub)
      BY <2>1, <2>2 DEF BoughtMonths
    <2>4. \A s \in 1 .. (Len(sub) + 1) : BoughtMonths'[s] = Append(BoughtMonths, month)[s]
      <3>1. BoughtMonths'[Len(sub) + 1] = month
        BY <1>3, <1>6, <2>1 DEF BoughtMonths
      <3>2. \A s \in 1 .. Len(sub) : BoughtMonths'[s] = BoughtMonths[s]
        BY <2>1 DEF BoughtMonths
      <3>3. QED
        BY <2>1, <2>2, <2>3, <3>1, <3>2
    <2>5. PICK Rows : Rows = [plan : Plans, until : Nat, status : SubStatuses]
      OBVIOUS
    <2>6. BoughtMonths \in Seq(Rows) /\ month \in Rows
      BY <1>3, <1>4, <1>6, <2>2, <2>5 DEF SubRows
    <2>7. PICK longer : longer = Append(BoughtMonths, month)
      OBVIOUS
    <2>8. /\ longer \in Seq(Rows) /\ Len(longer) = Len(sub) + 1
          /\ \A s \in 1 .. Len(longer) : longer[s] \in Rows
      BY <2>1, <2>3, <2>6, <2>7, AppendProperties, LenProperties
    <2>9. BoughtMonths' = [s \in 1 .. Len(longer) |-> longer[s]]
      BY <2>1, <2>4, <2>7, <2>8 DEF BoughtMonths
    <2>10. longer = [s \in 1 .. Len(longer) |-> longer[s]]
      <3>1. longer \in [1 .. Len(longer) -> Rows]
        BY <2>8, LenProperties
      <3>2. QED
        BY <3>1
    <2>11. QED
      BY <2>7, <2>9, <2>10
  <1>8. Taken' = Taken /\ \E n \in Taken : AmountOf[n] = AmountOf[i]
    BY <1>1, <1>5 DEF Taken, TakenFor
  <1>9. Plan!Buys(i)
    <2>1. OneMonthAfter(today) \in (today + 28) .. (today + 31)
      BY MonthLater DEF BillingInv, BillingTypeOK
    <2>2. QED
      BY <1>5, <1>6, <1>7, <1>8, <2>1 DEF Plan!Buys
  <1>10. QED
    BY <1>1, <1>9 DEF Refines, Plan!PlansNext

LEMMA CallbackRefines ==
    ASSUME BillingInv, NEW c \in Callbacks, UNCHANGED today, CallbackStep(c) \/ CutOff(c)
    PROVE  Refines
  <1>1. CASE VerifyCheckout(c)
    BY <1>1, SettlingRefines DEF VerifyCheckout
  <1>2. CASE CutOff(c)
    BY <1>2, SettlingRefines, QuietRefines DEF CutOff
  <1>3. CASE ActivateInvoice(c) \/ LookForSubscription(c) \/ LinkInvoice(c) \/ FailInvoice(c)
    BY <1>3, QuietRefines DEF ActivateInvoice, LookForSubscription, LinkInvoice, FailInvoice
  <1>4. QED
    BY <1>1, <1>2, <1>3, BuysRefines DEF CallbackStep

(* A statement of the expiry script.                                       *)
LEMMA ExpiryRefines ==
    ASSUME BillingInv, UNCHANGED today, ExpirePastDue \/ CancelPastDue
    PROVE  Refines
  <1>1. /\ today \in Nat
        /\ \A s \in DOMAIN sub : sub[s] \in SubRows /\ sub[s].end \in Nat
    BY RowTypes
  <1>2. Taken' = Taken
    BY DEF ExpirePastDue, CancelPastDue, Taken
  <1>3. ASSUME NEW s \in DOMAIN sub, NEW status
        PROVE  /\ WithStatus(sub[s], status).plan = sub[s].plan
               /\ WithStatus(sub[s], status).end = sub[s].end
               /\ WithStatus(sub[s], status).status = status
    BY <1>1 DEF WithStatus, SubRows
  <1>4. /\ DOMAIN BoughtMonths = DOMAIN sub
        /\ \A s \in DOMAIN sub : /\ BoughtMonths[s].plan = sub[s].plan
                                 /\ BoughtMonths[s].until = sub[s].end
                                 /\ BoughtMonths[s].status = sub[s].status
    BY DEF BoughtMonths
  <1>5. CASE ExpirePastDue
    <2>1. sub' = [s \in DOMAIN sub |-> IF Expired(sub[s], today)
                                       THEN WithStatus(sub[s], "PAST_DUE") ELSE sub[s]]
      BY <1>5 DEF ExpirePastDue
    <2>2. \A s \in DOMAIN sub : Expired(sub[s], today) <=> Plan!OverSince(s, 0, "ACTIVE")
      BY <1>1, <1>4 DEF Expired, Plan!OverSince
    <2>3. Plan!Ends("ACTIVE", "PAST_DUE", 0)
      BY <1>2, <1>3, <1>4, <2>1, <2>2 DEF Plan!Ends, Plan!Becomes, BoughtMonths
    <2>4. QED
      BY <2>3 DEF Refines, Plan!PlansNext
  <1>6. CASE CancelPastDue
    <2>1. sub' = [s \in DOMAIN sub |-> IF Abandoned(sub[s], today)
                                       THEN WithStatus(sub[s], "CANCELED") ELSE sub[s]]
      BY <1>6 DEF CancelPastDue
    <2>2. \A s \in DOMAIN sub : Abandoned(sub[s], today) <=> Plan!OverSince(s, 30, "PAST_DUE")
      BY <1>1, <1>4 DEF Abandoned, Plan!OverSince
    <2>3. Plan!Ends("PAST_DUE", "CANCELED", 30)
      BY <1>2, <1>3, <1>4, <2>1, <2>2 DEF Plan!Ends, Plan!Becomes, BoughtMonths
    <2>4. QED
      BY <2>3 DEF Refines, Plan!PlansNext
  <1>7. QED
    BY <1>5, <1>6

LEMMA StepRefines == BillingInv /\ [BillingNext]_vars => Refines
  <1> SUFFICES ASSUME BillingInv, [BillingNext]_vars PROVE Refines
    OBVIOUS
  <1>1. CASE UNCHANGED vars
    BY <1>1, QuietRefines DEF vars, billingVars
  <1>2. CASE DayPasses
    <2>1. today' > today /\ UNCHANGED <<sub, session>>
      BY <1>2 DEF DayPasses, billingVars
    <2>2. Plan!Passes
      BY <2>1 DEF Plan!Passes, Taken, BoughtMonths
    <2>3. QED
      BY <2>2 DEF Refines, Plan!PlansNext
  <1>3. CASE BillingStep /\ UNCHANGED today
    <2>1. ASSUME NEW c \in Callbacks, NEW i \in Invoices, CallbackArrives(c, i) PROVE Refines
      BY <1>3, <2>1, QuietRefines DEF CallbackArrives
    <2>2. QED
      BY <1>3, <2>1, SessionAssumption, CheckoutRefines, CallbackRefines, ExpiryRefines
         DEF BillingStep
  <1>4. QED
    BY <1>1, <1>2, <1>3 DEF BillingNext

(* Any number of callbacks at once, whatever session they name, handlers   *)
(* that are cut off and the expiry script, call by call, implement the     *)
(* abstract purchase of plans: no month before its price was taken, none   *)
(* shorter than four weeks, and none ends early, is extended or comes      *)
(* back.                                                                   *)
THEOREM PlansImplemented == BillingSpec => ImplementsPaidPlans
  <1>1. BillingInit => Plan!PlansInit
    BY DEF BillingInit, Plan!PlansInit, Taken, BoughtMonths
  <1>2. QED
    BY <1>1, StepRefines, BillingInvariant, PTL
       DEF BillingSpec, ImplementsPaidPlans, Plan!PlansSpec, Refines
=============================================================================
