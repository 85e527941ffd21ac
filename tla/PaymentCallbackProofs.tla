----------------------- MODULE PaymentCallbackProofs -----------------------
(***************************************************************************)
(* Proofs about PaymentCallback, for any number of orders, requests and    *)
(* callbacks, any length of the leases and any bounds.                     *)
(***************************************************************************)
EXTENDS PaymentCallback, TLAPS

-----------------------------------------------------------------------------
(* The inductive invariant.                                                *)
Acting(q)  == request[q].at # "idle"
Taken(o)   == order[o].status \in {"PENDING", "PAID"}
Decided(o) == session[o] \in {"paid", "cancelled", "settled"}

(* An order is in the hands of one request at most, the one that inserted  *)
(* it.                                                                     *)
RequestsOwn ==
    /\ \A q \in Requests : Acting(q) =>
          request[q].order \in Orders /\ order[request[q].order].status # "ABSENT"
    /\ \A p, q \in Requests :
          Acting(p) /\ Acting(q) /\ request[p].order = request[q].order => p = q

(* What the tables tell about sessions: none without a marker, and no      *)
(* decision without a redirect URL; and what a request can rely on.        *)
SessionsKnown ==
    /\ \A o \in Orders : session[o] # "none" => order[o].marker
    /\ \A o \in Orders : Decided(o) => order[o].ref
    /\ \A o \in Orders : order[o].status = "ABSENT" => ~order[o].marker
    /\ \A q \in Requests :
          request[q].at \in {"claimed", "marked", "refused", "undo"} =>
             session[request[q].order] = "none"
    /\ \A q \in Requests :
          request[q].at = "marked" =>
             Pending(request[q].order) /\ order[request[q].order].marker

(* Recorded outcomes are true, and one order at most stands.               *)
Outcomes ==
    /\ \A o \in Orders : order[o].status = "FAILED" => session[o] \in {"none", "cancelled"}
    /\ \A o \in Orders : order[o].status = "PAID" => session[o] = "settled"
    /\ \A o, p \in Orders : Taken(o) /\ Taken(p) => o = p

(* A callback is about a decided session, and an answer stays true.        *)
CallbacksKnow ==
    /\ \A c \in Callbacks : callback[c].at # "idle" =>
          callback[c].order \in Orders /\ Decided(callback[c].order)
    /\ \A c \in Callbacks : callback[c].at = "finalizing" =>
          session[callback[c].order] =
             IF callback[c].paid THEN "settled" ELSE "cancelled"

PaymentInv ==
    /\ TypeOK
    /\ RequestsOwn
    /\ SessionsKnown
    /\ Outcomes
    /\ CallbacksKnow

-----------------------------------------------------------------------------
(* Types of rows and of the steps of callbacks.                            *)
LEMMA RowTypes ==
    ASSUME NEW row \in OrderRows
    PROVE  /\ Marked(row) \in OrderRows /\ WithRef(row) \in OrderRows
           /\ Older(row) \in OrderRows
           /\ \A status \in OrderStatuses : WithStatus(row, status) \in OrderRows
  BY LeaseTicksAssumption
  DEF OrderRows, OrderStatuses, Marked, WithRef, Older, WithStatus

LEMMA FirstRows == NewRow \in OrderRows /\ NoRow \in OrderRows
  BY LeaseTicksAssumption DEF OrderRows, OrderStatuses, NewRow, NoRow

LEMMA Ages == MaxAge \in Nat /\ 0 \in 0 .. MaxAge
  BY LeaseTicksAssumption, CallbackBoundsAssumption DEF MaxAge

LEMMA NoCallbackType == NoCallback \in CallbackRows
  BY Ages DEF CallbackRows, CallbackPlaces, NoCallback

LEMMA EventTypes ==
    /\ NoEvent \in Events /\ Ended("ERROR") \in Events /\ Ended("RELEASED") \in Events
    /\ \A e \in Events : OlderEvent(e) \in Events
    /\ \A c \in Callbacks : callback[c] \in CallbackRows => StartedBy(c) \in Events
  BY Ages DEF Events, NoEvent, Ended, OlderEvent, StartedBy, CallbackRows

LEMMA CallbackTypes ==
    ASSUME NEW c \in Callbacks, callback[c] \in CallbackRows
    PROVE  /\ \A place \in CallbackPlaces : Step(c, place) \in CallbackRows
           /\ \A paid \in BOOLEAN : Answered(c, paid) \in CallbackRows
           /\ Overtaken(callback[c]) \in CallbackRows
           /\ OlderCallback(callback[c]) \in CallbackRows
  BY Ages DEF CallbackRows, CallbackPlaces, Step, Answered, Overtaken,
              OlderCallback

LEMMA SpendType ==
    ASSUME NEW b \in Budgets, NEW limit, spent \in [Budgets -> Nat], Spend(b, limit)
    PROVE  spent' \in [Budgets -> Nat]
  BY DEF Spend

-----------------------------------------------------------------------------
LEMMA InitPayment == Init => PaymentInv
  <1> SUFFICES ASSUME Init PROVE PaymentInv
    OBVIOUS
  <1>1. TypeOK
    BY FirstRows, EventTypes, NoCallbackType
    DEF Init, CheckoutInit, TypeOK, LeadStatuses, Sessions, Idle, RequestPlaces
  <1>2. RequestsOwn
    BY DEF Init, CheckoutInit, RequestsOwn, Acting, Idle
  <1>3. SessionsKnown
    BY DEF Init, CheckoutInit, SessionsKnown, Decided, NoRow, Idle
  <1>4. Outcomes
    BY DEF Init, CheckoutInit, Outcomes, Taken, NoRow
  <1>5. CallbacksKnow
    BY DEF Init, CallbacksKnow, NoCallback
  <1> QED
    BY <1>1, <1>2, <1>3, <1>4, <1>5 DEF PaymentInv

-----------------------------------------------------------------------------
(* The steps of a checkout request.  None touches callbacks or events.     *)
LEMMA PrepareInv ==
    ASSUME PaymentInv, NEW q \in Requests, NEW new \in Orders, Prepare(q, new),
           UNCHANGED <<newest, callback>>
    PROVE  PaymentInv'
  <1>1. TypeOK'
    BY FirstRows, RowTypes
    DEF PaymentInv, TypeOK, Prepare, OrderStatuses, LeadStatuses, RequestPlaces
  <1>2. /\ \A o \in Orders : session'[o] = session[o]
        /\ session[new] = "none"
        /\ order'[new] = NewRow
        /\ \A p \in Requests : Acting(p) => request[p].order # new
        /\ \A c \in Callbacks : callback[c].at # "idle" => callback[c].order # new
    BY DEF PaymentInv, TypeOK, RequestsOwn, SessionsKnown, CallbacksKnow, Decided,
           Prepare, Acting
  <1>3. \A o \in Orders \ {new} :
           \/ order'[o] = order[o]
           \/ /\ Abandoned(o) /\ session[o] = "none"
              /\ order'[o] = WithStatus(order[o], "FAILED")
    BY DEF PaymentInv, TypeOK, SessionsKnown, Prepare, Abandoned, Sessions
  <1>4. \A o \in Orders \ {new} :
           /\ order'[o].marker = order[o].marker
           /\ order'[o].ref = order[o].ref
           /\ order'[o].status = "FAILED" \/ order'[o].status = order[o].status
           /\ order'[o].status = order[o].status \/ session[o] = "none"
           /\ order[o].marker => order'[o] = order[o]
           /\ order[o].status # "ABSENT" => order'[o].status # "ABSENT"
    <2> SUFFICES ASSUME NEW o \in Orders \ {new}
                 PROVE  /\ order'[o].marker = order[o].marker
                        /\ order'[o].ref = order[o].ref
                        /\ order'[o].status = "FAILED" \/ order'[o].status = order[o].status
                        /\ order'[o].status = order[o].status \/ session[o] = "none"
                        /\ order[o].marker => order'[o] = order[o]
                        /\ order[o].status # "ABSENT" => order'[o].status # "ABSENT"
      OBVIOUS
    <2>1. CASE order'[o] = order[o]
      BY <2>1
    <2>2. CASE /\ Abandoned(o) /\ session[o] = "none"
               /\ order'[o] = WithStatus(order[o], "FAILED")
      BY <2>2 DEF Abandoned, WithStatus
    <2> QED
      BY <1>3, <2>1, <2>2
  <1>5. /\ order'[new].status = "PENDING" /\ ~order'[new].marker /\ ~order'[new].ref
        /\ \A o \in Orders \ {new} : ~Taken(o)'
    <2>1. order'[new].status = "PENDING" /\ ~order'[new].marker /\ ~order'[new].ref
      BY <1>2 DEF NewRow
    <2>2. ASSUME NEW o \in Orders \ {new} PROVE ~Taken(o)'
      <3>1. order[o].status # "PAID" /\ (Pending(o) => Abandoned(o))
        BY DEF Prepare
      <3>2. Abandoned(o) => order'[o].status = "FAILED"
        BY DEF PaymentInv, TypeOK, Prepare, WithStatus
      <3>3. ~Abandoned(o) => order'[o] = order[o]
        BY DEF PaymentInv, TypeOK, Prepare
      <3> QED
        BY <3>1, <3>2, <3>3 DEF Taken, Pending
    <2> QED
      BY <2>1, <2>2
  <1>6. /\ request'[q].at = "claimed" /\ request'[q].order = new
        /\ \A p \in Requests \ {q} : request'[p] = request[p]
    BY DEF PaymentInv, TypeOK, Prepare
  <1>7. RequestsOwn'
    <2>1. \A p \in Requests : Acting(p)' =>
             /\ request'[p].order \in Orders
             /\ order'[request'[p].order].status # "ABSENT"
      BY <1>2, <1>4, <1>5, <1>6 DEF PaymentInv, RequestsOwn, Acting
    <2>2. \A p, r \in Requests :
             Acting(p)' /\ Acting(r)' /\ request'[p].order = request'[r].order => p = r
      BY <1>2, <1>6 DEF PaymentInv, RequestsOwn, Acting
    <2> QED
      BY <2>1, <2>2 DEF RequestsOwn
  <1>8. SessionsKnown'
    <2>1. \A o \in Orders : session'[o] # "none" => order'[o].marker
      BY <1>2, <1>4 DEF PaymentInv, SessionsKnown
    <2>2. \A o \in Orders : Decided(o)' => order'[o].ref
      BY <1>2, <1>4 DEF PaymentInv, SessionsKnown, Decided
    <2>3. \A o \in Orders : order'[o].status = "ABSENT" => ~order'[o].marker
      BY <1>4, <1>5 DEF PaymentInv, SessionsKnown
    <2>4. \A p \in Requests :
             request'[p].at \in {"claimed", "marked", "refused", "undo"} =>
                session'[request'[p].order] = "none"
      BY <1>2, <1>6 DEF PaymentInv, SessionsKnown, RequestsOwn, Acting
    <2>5. \A p \in Requests : request'[p].at = "marked" =>
             /\ order'[request'[p].order].status = "PENDING"
             /\ order'[request'[p].order].marker
      BY <1>2, <1>4, <1>6 DEF PaymentInv, SessionsKnown, RequestsOwn, Acting, Pending
    <2> QED
      BY <2>1, <2>2, <2>3, <2>4, <2>5 DEF SessionsKnown, Pending
  <1>9. Outcomes'
    <2>1. \A o \in Orders : order'[o].status = "FAILED" => session'[o] \in {"none", "cancelled"}
      BY <1>2, <1>4, <1>5 DEF PaymentInv, Outcomes
    <2>2. \A o \in Orders : order'[o].status = "PAID" => session'[o] = "settled"
      BY <1>2, <1>4, <1>5 DEF PaymentInv, Outcomes
    <2>3. \A o, p \in Orders : Taken(o)' /\ Taken(p)' => o = p
      BY <1>5
    <2> QED
      BY <2>1, <2>2, <2>3 DEF Outcomes
  <1>10. CallbacksKnow'
    BY <1>2 DEF PaymentInv, CallbacksKnow, Decided, Prepare
  <1> QED
    BY <1>1, <1>7, <1>8, <1>9, <1>10 DEF PaymentInv

(* A step of request q that gives its order the row, its session the state *)
(* s, and leaves the other orders and their sessions alone.                *)
RequestMoves(q, row, s, place) ==
    LET o == request[q].order IN
    /\ Acting(q) /\ o \in Orders
    /\ row \in OrderRows /\ s \in Sessions /\ place \in RequestPlaces
    /\ order' = [order EXCEPT ![o] = row]
    /\ session' = [session EXCEPT ![o] = s]
    /\ \/ request' = [request EXCEPT ![q] = [at |-> place, order |-> o]]
       \/ place = "idle" /\ request' = [request EXCEPT ![q] = Idle]
    /\ row.status = order[o].status \/ (row.status = "FAILED" /\ Pending(o))
    /\ row.status = "FAILED" => s \in {"none", "cancelled"}
    /\ order[o].marker => row.marker
    /\ order[o].ref => row.ref
    /\ s # "none" => row.marker
    /\ s = session[o] \/ (session[o] = "none" /\ s = "open")
    /\ place \in {"claimed", "marked", "refused", "undo"} => s = "none"
    /\ place = "marked" => row.status = "PENDING" /\ row.marker

LEMMA RequestStep ==
    ASSUME PaymentInv, NEW q \in Requests, NEW row, NEW s, NEW place,
           RequestMoves(q, row, s, place),
           UNCHANGED <<newest, callback, lead>>, spent' \in [Budgets -> Nat]
    PROVE  PaymentInv'
  <1> DEFINE o == request[q].order
  <1> USE DEF RequestMoves
  <1>1. TypeOK'
    BY DEF PaymentInv, TypeOK, Idle
  <1>2. /\ order'[o] = row /\ session'[o] = s
        /\ \A p \in Orders \ {o} : order'[p] = order[p] /\ session'[p] = session[p]
        /\ \A p \in Requests \ {q} : request'[p] = request[p]
        /\ request'[q].at = place
        /\ place # "idle" => request'[q].order = o
        /\ \A p \in Requests \ {q} : Acting(p) => request[p].order # o
        /\ order[o].status # "ABSENT"
    BY DEF PaymentInv, TypeOK, RequestsOwn, Acting, Idle
  <1>3. RequestsOwn'
    BY <1>2 DEF PaymentInv, RequestsOwn, Acting
  <1>4. SessionsKnown'
    <2>1. \A p \in Orders : session'[p] # "none" => order'[p].marker
      BY <1>2 DEF PaymentInv, SessionsKnown
    <2>2. \A p \in Orders : Decided(p)' => order'[p].ref
      BY <1>2 DEF PaymentInv, SessionsKnown, Decided
    <2>3. \A p \in Orders : order'[p].status = "ABSENT" => ~order'[p].marker
      BY <1>2 DEF PaymentInv, SessionsKnown
    <2>4. \A p \in Requests :
             request'[p].at \in {"claimed", "marked", "refused", "undo"} =>
                session'[request'[p].order] = "none"
      BY <1>2 DEF PaymentInv, SessionsKnown, RequestsOwn, Acting
    <2>5. \A p \in Requests : request'[p].at = "marked" =>
             /\ order'[request'[p].order].status = "PENDING"
             /\ order'[request'[p].order].marker
      BY <1>2 DEF PaymentInv, SessionsKnown, RequestsOwn, Acting, Pending
    <2> QED
      BY <2>1, <2>2, <2>3, <2>4, <2>5 DEF SessionsKnown, Pending
  <1>5. Outcomes'
    BY <1>2 DEF PaymentInv, Outcomes, Taken, Pending
  <1>6. CallbacksKnow'
    BY <1>2 DEF PaymentInv, CallbacksKnow, Decided
  <1> QED
    BY <1>1, <1>3, <1>4, <1>5, <1>6 DEF PaymentInv

(* What holds of the order of an acting request before its step.           *)
LEMMA RequestReady ==
    ASSUME PaymentInv, NEW q \in Requests, Acting(q)
    PROVE  LET o == request[q].order IN
           /\ o \in Orders /\ order[o] \in OrderRows /\ session[o] \in Sessions
           /\ order = [order EXCEPT ![o] = order[o]]
           /\ session = [session EXCEPT ![o] = session[o]]
           /\ session[o] # "none" => order[o].marker
           /\ order[o].status = "FAILED" => session[o] \in {"none", "cancelled"}
           /\ request[q].at \in {"claimed", "marked", "refused", "undo"} =>
                 session[o] = "none"
           /\ request[q].at = "marked" => order[o].status = "PENDING" /\ order[o].marker
  BY DEF PaymentInv, TypeOK, RequestsOwn, SessionsKnown, Outcomes, Acting, Pending

LEMMA MarkInv ==
    ASSUME PaymentInv, NEW q \in Requests, MarkRequestStarted(q),
           UNCHANGED <<newest, callback>>
    PROVE  PaymentInv'
  <1> DEFINE o == request[q].order
  <1>1. Acting(q) /\ session[o] = "none" /\ o \in Orders /\ order[o] \in OrderRows
    BY RequestReady DEF MarkRequestStarted, Acting
  <1>2. spent' \in [Budgets -> Nat]
    BY SpendType DEF MarkRequestStarted, Fault, PaymentInv, TypeOK, Budgets
  <1>3. /\ Marked(order[o]) \in OrderRows /\ Marked(order[o]).marker
        /\ Marked(order[o]).status = order[o].status
        /\ Marked(order[o]).ref = order[o].ref
    BY <1>1, RowTypes DEF Marked
  <1>4. session' = [session EXCEPT ![o] = "none"] /\ UNCHANGED lead
    BY <1>1, RequestReady DEF MarkRequestStarted
  <1>5. CASE Pending(o) /\ MarkWrites(o) /\ Goto(q, "marked")
    <2>1. RequestMoves(q, Marked(order[o]), "none", "marked")
      BY <1>1, <1>3, <1>4, <1>5
      DEF RequestMoves, MarkWrites, Goto, Pending, Sessions, RequestPlaces
    <2> QED
      BY <1>2, <1>4, <2>1, RequestStep
  <1>6. CASE Pending(o) /\ MarkWrites(o) /\ Goto(q, "undo")
    <2>1. RequestMoves(q, Marked(order[o]), "none", "undo")
      BY <1>1, <1>3, <1>4, <1>6
      DEF RequestMoves, MarkWrites, Goto, Pending, Sessions, RequestPlaces
    <2> QED
      BY <1>2, <1>4, <2>1, RequestStep
  <1>7. CASE UNCHANGED order /\ Goto(q, "undo")
    <2>1. order' = [order EXCEPT ![o] = order[o]]
      BY <1>1, <1>7, RequestReady
    <2>2. RequestMoves(q, order[o], "none", "undo")
      BY <1>1, <1>4, <1>7, <2>1 DEF RequestMoves, Goto, Sessions, RequestPlaces
    <2> QED
      BY <1>2, <1>4, <2>2, RequestStep
  <1> QED
    BY <1>5, <1>6, <1>7 DEF MarkRequestStarted

LEMMA CallProviderInv ==
    ASSUME PaymentInv, NEW q \in Requests, CallProvider(q),
           UNCHANGED <<newest, callback>>
    PROVE  PaymentInv'
  <1> DEFINE o == request[q].order
  <1>1. /\ Acting(q) /\ session[o] = "none" /\ o \in Orders /\ order[o] \in OrderRows
        /\ order[o].status = "PENDING" /\ order[o].marker
    BY RequestReady DEF CallProvider, Acting
  <1>2. /\ order' = [order EXCEPT ![o] = order[o]]
        /\ spent' \in [Budgets -> Nat] /\ UNCHANGED lead
    BY <1>1, RequestReady DEF CallProvider, PaymentInv, TypeOK
  <1>3. session = [session EXCEPT ![o] = "none"]
    BY <1>1, RequestReady
  <1>4. CASE session' = [session EXCEPT ![o] = "open"] /\ Goto(q, "opened")
    <2>1. RequestMoves(q, order[o], "open", "opened")
      BY <1>1, <1>2, <1>4 DEF RequestMoves, Goto, Sessions, RequestPlaces
    <2> QED
      BY <1>2, <2>1, RequestStep
  <1>5. CASE UNCHANGED session /\ Goto(q, "refused")
    <2>1. RequestMoves(q, order[o], "none", "refused")
      BY <1>1, <1>2, <1>3, <1>5 DEF RequestMoves, Goto, Sessions, RequestPlaces
    <2> QED
      BY <1>2, <2>1, RequestStep
  <1>6. CASE session' = [session EXCEPT ![o] = "open"] /\ EndRequest(q)
    <2>1. RequestMoves(q, order[o], "open", "idle")
      BY <1>1, <1>2, <1>6 DEF RequestMoves, EndRequest, Sessions, RequestPlaces
    <2> QED
      BY <1>2, <2>1, RequestStep
  <1>7. CASE UNCHANGED session /\ EndRequest(q)
    <2>1. RequestMoves(q, order[o], "none", "idle")
      BY <1>1, <1>2, <1>3, <1>7 DEF RequestMoves, EndRequest, Sessions, RequestPlaces
    <2> QED
      BY <1>2, <2>1, RequestStep
  <1> QED
    BY <1>4, <1>5, <1>6, <1>7 DEF CallProvider

(* The last step of a request: it may set the reference, give up an order  *)
(* without a session, or do nothing.                                       *)
LEMMA LastStep ==
    ASSUME PaymentInv, NEW q \in Requests, Acting(q), EndRequest(q),
           UNCHANGED <<newest, callback, lead, session>>,
           spent' \in [Budgets -> Nat],
           LET o == request[q].order IN
              \/ UNCHANGED order
              \/ order' = [order EXCEPT ![o] = WithRef(order[o])]
              \/ /\ order' = [order EXCEPT ![o] = WithStatus(order[o], "FAILED")]
                 /\ Pending(o) /\ session[o] = "none"
    PROVE  PaymentInv'
  <1> DEFINE o == request[q].order
  <1>1. /\ o \in Orders /\ order[o] \in OrderRows /\ session[o] \in Sessions
        /\ session[o] # "none" => order[o].marker
        /\ order[o].status = "FAILED" => session[o] \in {"none", "cancelled"}
        /\ session' = [session EXCEPT ![o] = session[o]]
    BY RequestReady
  <1>2. "idle" \in RequestPlaces /\ request' = [request EXCEPT ![q] = Idle]
    BY DEF RequestPlaces, EndRequest
  <1>3. CASE UNCHANGED order
    <2>1. order' = [order EXCEPT ![o] = order[o]]
      BY <1>3, RequestReady
    <2>2. RequestMoves(q, order[o], session[o], "idle")
      BY <1>1, <1>2, <2>1 DEF RequestMoves
    <2> QED
      BY <2>2, RequestStep
  <1>4. CASE order' = [order EXCEPT ![o] = WithRef(order[o])]
    <2>1. /\ WithRef(order[o]) \in OrderRows /\ WithRef(order[o]).ref
          /\ WithRef(order[o]).status = order[o].status
          /\ WithRef(order[o]).marker = order[o].marker
      BY <1>1, RowTypes DEF WithRef
    <2>2. RequestMoves(q, WithRef(order[o]), session[o], "idle")
      BY <1>1, <1>2, <1>4, <2>1 DEF RequestMoves
    <2> QED
      BY <2>2, RequestStep
  <1>5. CASE /\ order' = [order EXCEPT ![o] = WithStatus(order[o], "FAILED")]
             /\ Pending(o) /\ session[o] = "none"
    <2>1. /\ WithStatus(order[o], "FAILED") \in OrderRows
          /\ WithStatus(order[o], "FAILED").status = "FAILED"
          /\ WithStatus(order[o], "FAILED").ref = order[o].ref
          /\ WithStatus(order[o], "FAILED").marker = order[o].marker
      BY <1>1, RowTypes DEF WithStatus, OrderStatuses
    <2>2. RequestMoves(q, WithStatus(order[o], "FAILED"), session[o], "idle")
      BY <1>1, <1>2, <1>5, <2>1 DEF RequestMoves
    <2> QED
      BY <2>2, RequestStep
  <1> QED
    BY <1>3, <1>4, <1>5

LEMMA LastStepsInv ==
    ASSUME PaymentInv, NEW q \in Requests,
           Complete(q) \/ FailCheckout(q) \/ RequestDies(q),
           UNCHANGED <<newest, callback>>
    PROVE  PaymentInv'
  <1>1. spent' \in [Budgets -> Nat]
    BY SpendType
    DEF Complete, FailCheckout, RequestDies, Fault, PaymentInv, TypeOK, Budgets
  <1>2. CASE Complete(q)
    BY <1>1, <1>2, LastStep DEF Complete, CompleteWrites, Acting
  <1>3. CASE FailCheckout(q)
    <2>1. session[request[q].order] = "none"
      BY <1>3, RequestReady DEF FailCheckout, Acting
    <2> QED
      BY <1>1, <1>3, <2>1, LastStep DEF FailCheckout, FailWrites, Acting
  <1>4. CASE RequestDies(q)
    BY <1>1, <1>4, LastStep DEF RequestDies, Acting
  <1> QED
    BY <1>2, <1>3, <1>4

-----------------------------------------------------------------------------
(* The steps of payers and callbacks, and of time, order by order.  They   *)
(* leave markers, references and requests alone.                           *)
SessionMoves(o) ==
    \/ session'[o] = session[o]
    \/ session[o] = "open" /\ order[o].ref /\ session'[o] \in {"paid", "cancelled"}
    \/ session[o] = "paid" /\ session'[o] = "settled"

StatusMoves(o) ==
    \/ order'[o].status = order[o].status
    \/ /\ order[o].status = "PENDING" /\ session'[o] = session[o]
       /\ \/ session[o] = "settled" /\ order'[o].status = "PAID"
          \/ session[o] = "cancelled" /\ order'[o].status = "FAILED"

MarksKept(o) == order'[o].marker = order[o].marker /\ order'[o].ref = order[o].ref

ClaimMoves(c) ==
    \/ callback'[c].at = "idle"
    \/ /\ callback'[c].at = callback[c].at /\ callback'[c].order = callback[c].order
       /\ callback'[c].paid = callback[c].paid
    \/ /\ callback'[c].order \in Orders
       /\ session'[callback'[c].order] \in {"paid", "cancelled", "settled"}
       /\ callback'[c].at = "finalizing" =>
             session'[callback'[c].order] =
                IF callback'[c].paid THEN "settled" ELSE "cancelled"

LEMMA OutsideStep ==
    ASSUME PaymentInv, TypeOK', UNCHANGED request,
           \A o \in Orders : SessionMoves(o) /\ StatusMoves(o) /\ MarksKept(o),
           \A c \in Callbacks : ClaimMoves(c)
    PROVE  PaymentInv'
  <1>1. RequestsOwn'
    <2>1. \A o \in Orders : order[o].status # "ABSENT" => order'[o].status # "ABSENT"
      BY DEF StatusMoves
    <2> QED
      BY <2>1 DEF PaymentInv, RequestsOwn, Acting
  <1>2. SessionsKnown'
    <2>1. \A o \in Orders : session'[o] # "none" => order'[o].marker
      BY DEF PaymentInv, SessionsKnown, SessionMoves, MarksKept
    <2>2. \A o \in Orders : Decided(o)' => order'[o].ref
      BY DEF PaymentInv, SessionsKnown, SessionMoves, MarksKept, Decided
    <2>3. \A o \in Orders : order'[o].status = "ABSENT" => ~order'[o].marker
      BY DEF PaymentInv, SessionsKnown, StatusMoves, MarksKept
    <2>4. \A q \in Requests :
             request'[q].at \in {"claimed", "marked", "refused", "undo"} =>
                session'[request'[q].order] = "none"
      BY DEF PaymentInv, RequestsOwn, Acting, SessionsKnown, SessionMoves
    <2>5. \A q \in Requests : request'[q].at = "marked" =>
             /\ order'[request'[q].order].status = "PENDING"
             /\ order'[request'[q].order].marker
      BY DEF PaymentInv, RequestsOwn, Acting, SessionsKnown, StatusMoves,
             MarksKept, Pending
    <2> QED
      BY <2>1, <2>2, <2>3, <2>4, <2>5 DEF SessionsKnown, Pending
  <1>3. Outcomes'
    <2>1. \A o \in Orders : order'[o].status = "FAILED" => session'[o] \in {"none", "cancelled"}
      BY DEF PaymentInv, Outcomes, SessionMoves, StatusMoves
    <2>2. \A o \in Orders : order'[o].status = "PAID" => session'[o] = "settled"
      BY DEF PaymentInv, Outcomes, SessionMoves, StatusMoves
    <2>3. \A o \in Orders : order'[o].status \in {"PENDING", "PAID"} =>
             order[o].status \in {"PENDING", "PAID"}
      BY DEF StatusMoves
    <2>4. \A o, p \in Orders : Taken(o)' /\ Taken(p)' => o = p
      BY <2>3 DEF PaymentInv, Outcomes, Taken
    <2> QED
      BY <2>1, <2>2, <2>4 DEF Outcomes
  <1>4. CallbacksKnow'
    <2>1. ASSUME NEW c \in Callbacks, callback'[c].at # "idle"
          PROVE  /\ callback'[c].order \in Orders
                 /\ session'[callback'[c].order] \in {"paid", "cancelled", "settled"}
      BY <2>1 DEF PaymentInv, CallbacksKnow, Decided, ClaimMoves, SessionMoves
    <2>2. ASSUME NEW c \in Callbacks, callback'[c].at = "finalizing"
          PROVE  session'[callback'[c].order] =
                    IF callback'[c].paid THEN "settled" ELSE "cancelled"
      <3>1. CASE /\ callback[c].at = "finalizing"
                 /\ callback'[c].order = callback[c].order
                 /\ callback'[c].paid = callback[c].paid
        <4>1. /\ callback[c].order \in Orders
              /\ session[callback[c].order] =
                    IF callback[c].paid THEN "settled" ELSE "cancelled"
          BY <3>1 DEF PaymentInv, CallbacksKnow
        <4>2. session'[callback[c].order] = session[callback[c].order]
          BY <4>1 DEF SessionMoves
        <4> QED
          BY <3>1, <4>1, <4>2
      <3> QED
        BY <2>2, <3>1 DEF ClaimMoves
    <2> QED
      BY <2>1, <2>2 DEF CallbacksKnow, Decided
  <1> QED
    BY <1>1, <1>2, <1>3, <1>4 DEF PaymentInv

(* Nothing about orders, sessions and requests changes in the steps that   *)
(* only concern claims.                                                    *)
LEMMA ClaimStep ==
    ASSUME PaymentInv, UNCHANGED <<order, lead, session, request>>,
           newest' \in [Orders -> Events], spent' \in [Budgets -> Nat],
           callback' \in [Callbacks -> CallbackRows],
           \A c \in Callbacks : ClaimMoves(c)
    PROVE  PaymentInv'
  <1>1. TypeOK'
    BY DEF PaymentInv, TypeOK
  <1>2. \A o \in Orders : SessionMoves(o) /\ StatusMoves(o) /\ MarksKept(o)
    BY DEF SessionMoves, StatusMoves, MarksKept
  <1> QED
    BY <1>1, <1>2, OutsideStep

LEMMA PayerInv ==
    ASSUME PaymentInv, NEW o \in Orders, PayerDecides(o), UNCHANGED <<newest, callback>>
    PROVE  PaymentInv'
  <1>1. TypeOK'
    BY DEF PaymentInv, TypeOK, PayerDecides, Sessions
  <1>2. \A p \in Orders : SessionMoves(p) /\ StatusMoves(p) /\ MarksKept(p)
    BY DEF PaymentInv, TypeOK, PayerDecides, SessionMoves, StatusMoves, MarksKept
  <1>3. \A c \in Callbacks : ClaimMoves(c)
    BY DEF ClaimMoves
  <1>4. UNCHANGED request
    BY DEF PayerDecides
  <1> QED
    BY <1>1, <1>2, <1>3, <1>4, OutsideStep

(* Callbacks overtaken by an event keep their claim.                       *)
LEMMA OvertakeMoves ==
    ASSUME PaymentInv, NEW o \in Orders, NEW c, NEW row \in CallbackRows,
           row.at = "idle", Overtake(o, c, row)
    PROVE  /\ callback' \in [Callbacks -> CallbackRows]
           /\ \A d \in Callbacks : ClaimMoves(d)
  <1>1. callback' \in [Callbacks -> CallbackRows]
    BY CallbackTypes DEF PaymentInv, TypeOK, Overtake
  <1>2. ASSUME NEW d \in Callbacks PROVE ClaimMoves(d)
    <2>1. CASE callback'[d] = row
      BY <2>1 DEF ClaimMoves
    <2>2. CASE callback'[d] = callback[d]
      BY <2>2 DEF ClaimMoves
    <2>3. CASE callback'[d] = Overtaken(callback[d])
      BY <2>3 DEF ClaimMoves, Overtaken
    <2> QED
      BY <2>1, <2>2, <2>3 DEF Overtake
  <1> QED
    BY <1>1, <1>2

(* A callback that moves on without touching the claims of others.         *)
LEMMA MoveMoves ==
    ASSUME PaymentInv, NEW c \in Callbacks, NEW row \in CallbackRows, MoveTo(c, row)
    PROVE  /\ callback' \in [Callbacks -> CallbackRows]
           /\ callback'[c] = row
           /\ \A d \in Callbacks \ {c} : ClaimMoves(d)
  BY DEF PaymentInv, TypeOK, MoveTo, ClaimMoves

LEMMA MoveToIdle ==
    ASSUME PaymentInv, NEW c \in Callbacks, MoveTo(c, NoCallback)
    PROVE  /\ callback' \in [Callbacks -> CallbackRows]
           /\ \A d \in Callbacks : ClaimMoves(d)
  <1>1. callback'[c] = NoCallback
    BY MoveMoves, NoCallbackType
  <1>2. ClaimMoves(c)
    BY <1>1 DEF ClaimMoves, NoCallback
  <1> QED
    BY <1>2, MoveMoves, NoCallbackType

LEMMA ReleaseExpiredInv ==
    ASSUME PaymentInv, NEW o \in Orders, ReleaseExpired(o)
    PROVE  PaymentInv'
  <1>1. newest' \in [Orders -> Events]
    BY EventTypes DEF PaymentInv, TypeOK, ReleaseExpired, EventNow
  <1>2. callback' \in [Callbacks -> CallbackRows]
    BY CallbackTypes DEF PaymentInv, TypeOK, ReleaseExpired
  <1>3. \A d \in Callbacks : ClaimMoves(d)
    BY DEF ReleaseExpired, ClaimMoves, Overtaken
  <1>4. UNCHANGED checkoutVars /\ spent' \in [Budgets -> Nat]
    BY DEF PaymentInv, TypeOK, ReleaseExpired, checkoutVars
  <1> QED
    BY <1>1, <1>2, <1>3, <1>4, ClaimStep DEF checkoutVars

LEMMA CallbackArrivesInv ==
    ASSUME PaymentInv, NEW c \in Callbacks, NEW o \in Orders, CallbackArrives(c, o)
    PROVE  PaymentInv'
  <1> DEFINE row == [at |-> "claiming", order |-> o, late |-> FALSE, age |-> 0,
                     paid |-> FALSE]
  <1>1. row \in CallbackRows
    BY Ages DEF CallbackRows, CallbackPlaces
  <1>2. MoveTo(c, row) /\ UNCHANGED <<checkoutVars, newest>>
    BY DEF CallbackArrives
  <1>3. callback'[c] = row
    BY <1>1, <1>2, MoveMoves
  <1>4. ClaimMoves(c)
    BY <1>3 DEF CallbackArrives, ClaimMoves, checkoutVars
  <1>5. \A d \in Callbacks : ClaimMoves(d)
    BY <1>1, <1>2, <1>4, MoveMoves
  <1> QED
    BY <1>1, <1>2, <1>5, MoveMoves, ClaimStep DEF PaymentInv, TypeOK, checkoutVars

LEMMA ClaimRefusedInv ==
    ASSUME PaymentInv, NEW c \in Callbacks, ClaimRefused(c)
    PROVE  PaymentInv'
  BY MoveToIdle, ClaimStep DEF PaymentInv, TypeOK, ClaimRefused, checkoutVars

LEMMA ClaimVerificationInv ==
    ASSUME PaymentInv, NEW c \in Callbacks, ClaimVerification(c)
    PROVE  PaymentInv'
  <1>1. newest' \in [Orders -> Events]
    BY EventTypes DEF PaymentInv, TypeOK, ClaimVerification
  <1>2. Step(c, "verifying") \in CallbackRows
    BY CallbackTypes DEF PaymentInv, TypeOK, CallbackPlaces
  <1>3. MoveTo(c, Step(c, "verifying")) /\ callback[c].at = "claiming"
        /\ UNCHANGED checkoutVars
    BY DEF ClaimVerification
  <1>4. callback'[c] = Step(c, "verifying")
    BY <1>2, <1>3, MoveMoves
  <1>5. ClaimMoves(c)
    BY <1>3, <1>4 DEF ClaimMoves, Step, PaymentInv, CallbacksKnow, Decided, checkoutVars
  <1>6. \A d \in Callbacks : ClaimMoves(d)
    BY <1>2, <1>3, <1>5, MoveMoves
  <1> QED
    BY <1>1, <1>2, <1>3, <1>6, MoveMoves, ClaimStep DEF PaymentInv, TypeOK, checkoutVars

LEMMA CallbackDiesInv ==
    ASSUME PaymentInv, NEW c \in Callbacks, CallbackDies(c)
    PROVE  PaymentInv'
  <1>1. spent' \in [Budgets -> Nat]
    BY SpendType DEF PaymentInv, TypeOK, CallbackDies, Budgets
  <1> QED
    BY <1>1, MoveToIdle, ClaimStep DEF PaymentInv, TypeOK, CallbackDies

LEMMA ReleaseVerificationInv ==
    ASSUME PaymentInv, NEW c \in Callbacks, ReleaseVerification(c)
    PROVE  PaymentInv'
  <1> DEFINE o == callback[c].order
  <1>1. o \in Orders /\ UNCHANGED <<order, lead, session, request>>
    BY DEF PaymentInv, CallbacksKnow, ReleaseVerification
  <1>2. spent' \in [Budgets -> Nat]
    BY SpendType DEF PaymentInv, TypeOK, ReleaseVerification, Fault, Budgets
  <1>3. CASE EventNow(o, "ERROR") /\ Overtake(o, c, NoCallback)
    <2>1. newest' \in [Orders -> Events]
      BY <1>1, <1>3, EventTypes DEF PaymentInv, TypeOK, EventNow
    <2>2. NoCallback.at = "idle"
      BY DEF NoCallback
    <2> QED
      BY <1>1, <1>2, <1>3, <2>1, <2>2, OvertakeMoves, NoCallbackType, ClaimStep
  <1>4. CASE MoveTo(c, NoCallback) /\ UNCHANGED newest
    BY <1>1, <1>2, <1>4, MoveToIdle, ClaimStep DEF PaymentInv, TypeOK
  <1> QED
    BY <1>3, <1>4 DEF ReleaseVerification

(* Asking the provider may settle the payment of the order.                *)
LEMMA SettleMoves ==
    ASSUME PaymentInv, NEW o \in Orders, SettleIfPaid(o) \/ UNCHANGED session,
           UNCHANGED order
    PROVE  /\ session' \in [Orders -> Sessions]
           /\ \A p \in Orders : SessionMoves(p) /\ StatusMoves(p) /\ MarksKept(p)
  BY DEF PaymentInv, TypeOK, Sessions, SettleIfPaid, SessionMoves, StatusMoves,
         MarksKept

LEMMA VerificationAnsweredInv ==
    ASSUME PaymentInv, NEW c \in Callbacks, VerificationAnswered(c)
    PROVE  PaymentInv'
  <1> DEFINE o == callback[c].order
             paid == session[o] \in {"paid", "settled"}
  <1>1. /\ callback[c].at = "verifying" /\ SettleIfPaid(o)
        /\ MoveTo(c, Answered(c, paid))
        /\ UNCHANGED <<order, lead, request, spent, newest>>
    BY DEF VerificationAnswered
  <1>2. o \in Orders /\ session[o] \in {"paid", "cancelled", "settled"}
    BY <1>1 DEF PaymentInv, CallbacksKnow, Decided
  <1>3. /\ session' \in [Orders -> Sessions]
        /\ \A p \in Orders : SessionMoves(p) /\ StatusMoves(p) /\ MarksKept(p)
    BY <1>1, <1>2, SettleMoves
  <1>4. Answered(c, paid) \in CallbackRows
    <2>1. paid \in BOOLEAN
      OBVIOUS
    <2> QED
      BY <2>1, CallbackTypes DEF PaymentInv, TypeOK
  <1>5. /\ callback' \in [Callbacks -> CallbackRows]
        /\ callback'[c] = Answered(c, paid)
        /\ \A d \in Callbacks \ {c} : ClaimMoves(d)
    BY <1>1, <1>4, MoveMoves
  <1>6. ClaimMoves(c)
    <2>1. callback'[c].order = o /\ callback'[c].at = "finalizing"
      BY <1>5 DEF Answered
    <2>2. callback'[c].paid = paid
      BY <1>5 DEF Answered
    <2>3. session'[o] = IF paid THEN "settled" ELSE "cancelled"
      BY <1>1, <1>2 DEF SettleIfPaid, PaymentInv, TypeOK
    <2>4. session'[callback'[c].order] =
             IF callback'[c].paid THEN "settled" ELSE "cancelled"
      BY <2>1, <2>2, <2>3
    <2>5. session'[callback'[c].order] \in {"paid", "cancelled", "settled"}
      BY <2>1, <2>3
    <2> QED
      BY <1>2, <2>1, <2>4, <2>5 DEF ClaimMoves
  <1>7. TypeOK'
    BY <1>1, <1>3, <1>5 DEF PaymentInv, TypeOK
  <1> QED
    BY <1>1, <1>3, <1>5, <1>6, <1>7, OutsideStep

LEMMA VerificationFailsInv ==
    ASSUME PaymentInv, NEW c \in Callbacks, VerificationFails(c)
    PROVE  PaymentInv'
  <1> DEFINE o == callback[c].order
  <1>1. /\ callback[c].at = "verifying" /\ (SettleIfPaid(o) \/ UNCHANGED session)
        /\ MoveTo(c, Step(c, "releasing"))
        /\ UNCHANGED <<order, lead, request, newest>>
    BY DEF VerificationFails
  <1>2. o \in Orders /\ session[o] \in {"paid", "cancelled", "settled"}
    BY <1>1 DEF PaymentInv, CallbacksKnow, Decided
  <1>3. /\ session' \in [Orders -> Sessions]
        /\ \A p \in Orders : SessionMoves(p) /\ StatusMoves(p) /\ MarksKept(p)
    BY <1>1, <1>2, SettleMoves
  <1>4. Step(c, "releasing") \in CallbackRows
    BY CallbackTypes DEF PaymentInv, TypeOK, CallbackPlaces
  <1>5. /\ callback' \in [Callbacks -> CallbackRows]
        /\ callback'[c] = Step(c, "releasing")
        /\ \A d \in Callbacks \ {c} : ClaimMoves(d)
    BY <1>1, <1>4, MoveMoves
  <1>6. ClaimMoves(c)
    BY <1>2, <1>3, <1>5 DEF ClaimMoves, Step, SessionMoves
  <1>7. TypeOK'
    <2>1. spent' \in [Budgets -> Nat]
      BY SpendType DEF PaymentInv, TypeOK, VerificationFails, Budgets
    <2> QED
      BY <1>1, <1>3, <1>5, <2>1 DEF PaymentInv, TypeOK
  <1> QED
    BY <1>1, <1>3, <1>5, <1>6, <1>7, OutsideStep

(* What Finalize records: the answer, which is the state of the session.   *)
LEMMA FinalizeMoves ==
    ASSUME PaymentInv, NEW c \in Callbacks, Finalize(c)
    PROVE  LET o == callback[c].order IN
           /\ o \in Orders
           /\ \/ UNCHANGED order
              \/ /\ order' = [order EXCEPT ![o] = WithStatus(order[o], "PAID")]
                 /\ Pending(o) /\ session[o] = "settled"
              \/ /\ order' = [order EXCEPT ![o] = WithStatus(order[o], "FAILED")]
                 /\ Pending(o) /\ session[o] = "cancelled"
  <1> DEFINE o == callback[c].order
  <1>1. /\ o \in Orders
        /\ session[o] = IF callback[c].paid THEN "settled" ELSE "cancelled"
    BY DEF PaymentInv, CallbacksKnow, Finalize
  <1>2. CASE UNCHANGED order
    BY <1>1, <1>2
  <1>3. CASE Pending(o) /\ order' = [order EXCEPT ![o] = WithStatus(order[o], Outcome(c))]
    <2>1. CASE callback[c].paid
      BY <1>1, <1>3, <2>1 DEF Outcome
    <2>2. CASE ~callback[c].paid
      BY <1>1, <1>3, <2>2 DEF Outcome
    <2> QED
      BY <2>1, <2>2
  <1> QED
    BY <1>2, <1>3 DEF Finalize, FinalizeWrites

LEMMA FinalizeInv ==
    ASSUME PaymentInv, NEW c \in Callbacks, Finalize(c)
    PROVE  PaymentInv'
  <1> DEFINE o == callback[c].order
  <1>1. /\ callback' \in [Callbacks -> CallbackRows]
        /\ \A d \in Callbacks : ClaimMoves(d)
        /\ UNCHANGED <<lead, session, request, newest>>
    BY MoveToIdle DEF Finalize
  <1>2. spent' \in [Budgets -> Nat]
    BY SpendType DEF PaymentInv, TypeOK, Finalize, Fault, Budgets
  <1>3. order' \in [Orders -> OrderRows]
    BY FinalizeMoves, RowTypes DEF PaymentInv, TypeOK, OrderStatuses
  <1>4. \A p \in Orders : SessionMoves(p) /\ StatusMoves(p) /\ MarksKept(p)
    <2> SUFFICES ASSUME NEW p \in Orders
                 PROVE  SessionMoves(p) /\ StatusMoves(p) /\ MarksKept(p)
      OBVIOUS
    <2>1. SessionMoves(p)
      BY <1>1 DEF SessionMoves
    <2>2. CASE order'[p] = order[p]
      BY <2>1, <2>2 DEF StatusMoves, MarksKept
    <2>3. CASE /\ order'[p] = WithStatus(order[p], "PAID")
               /\ Pending(p) /\ session[p] = "settled"
      BY <1>1, <2>1, <2>3 DEF StatusMoves, MarksKept, WithStatus, Pending
    <2>4. CASE /\ order'[p] = WithStatus(order[p], "FAILED")
               /\ Pending(p) /\ session[p] = "cancelled"
      BY <1>1, <2>1, <2>4 DEF StatusMoves, MarksKept, WithStatus, Pending
    <2> QED
      BY <2>2, <2>3, <2>4, FinalizeMoves DEF PaymentInv, TypeOK
  <1>5. TypeOK'
    BY <1>1, <1>2, <1>3 DEF PaymentInv, TypeOK
  <1> QED
    BY <1>1, <1>4, <1>5, OutsideStep

(* Time leaves everything but ages alone.                                  *)
LEMMA OlderKeeps ==
    /\ \A row \in OrderRows :
          /\ Older(row).status = row.status
          /\ Older(row).marker = row.marker
          /\ Older(row).ref = row.ref
    /\ \A row \in CallbackRows :
          /\ OlderCallback(row).at = row.at
          /\ OlderCallback(row).order = row.order
          /\ OlderCallback(row).paid = row.paid
  BY DEF Older, OlderCallback

LEMMA TickInv ==
    ASSUME PaymentInv, Tick
    PROVE  PaymentInv'
  <1>1. /\ \A o \in Orders : order'[o] = Older(order[o])
        /\ \A c \in Callbacks : callback'[c] = OlderCallback(callback[c])
        /\ UNCHANGED <<lead, session, request>>
    BY DEF Tick, OrdersAge
  <1>2. TypeOK'
    <2>1. order' \in [Orders -> OrderRows]
      BY RowTypes DEF PaymentInv, TypeOK, Tick, OrdersAge
    <2>2. newest' \in [Orders -> Events]
      BY EventTypes DEF PaymentInv, TypeOK, Tick
    <2>3. callback' \in [Callbacks -> CallbackRows]
      BY CallbackTypes DEF PaymentInv, TypeOK, Tick
    <2>4. spent' \in [Budgets -> Nat]
      BY SpendType DEF PaymentInv, TypeOK, Tick, Budgets
    <2> QED
      BY <1>1, <2>1, <2>2, <2>3, <2>4 DEF PaymentInv, TypeOK
  <1>3. \A o \in Orders : SessionMoves(o) /\ StatusMoves(o) /\ MarksKept(o)
    <2> SUFFICES ASSUME NEW o \in Orders
                 PROVE  SessionMoves(o) /\ StatusMoves(o) /\ MarksKept(o)
      OBVIOUS
    <2>1. SessionMoves(o)
      BY <1>1 DEF SessionMoves
    <2>2. order'[o] = Older(order[o]) /\ order[o] \in OrderRows
      BY <1>1 DEF PaymentInv, TypeOK
    <2> QED
      BY <2>1, <2>2, OlderKeeps DEF StatusMoves, MarksKept
  <1>4. \A c \in Callbacks : ClaimMoves(c)
    <2> SUFFICES ASSUME NEW c \in Callbacks PROVE ClaimMoves(c)
      OBVIOUS
    <2>1. callback'[c] = OlderCallback(callback[c]) /\ callback[c] \in CallbackRows
      BY <1>1 DEF PaymentInv, TypeOK
    <2> QED
      BY <2>1, OlderKeeps DEF ClaimMoves
  <1> QED
    BY <1>1, <1>2, <1>3, <1>4, OutsideStep

LEMMA StepPayment == PaymentInv /\ [Next]_vars => PaymentInv'
  <1> SUFFICES ASSUME PaymentInv, [Next]_vars PROVE PaymentInv'
    OBVIOUS
  <1>1. CASE CheckoutNext /\ UNCHANGED <<newest, callback>>
    <2>1. ASSUME NEW q \in Requests, NEW o \in Orders, Prepare(q, o) PROVE PaymentInv'
      BY <1>1, <2>1, PrepareInv
    <2>2. ASSUME NEW q \in Requests, MarkRequestStarted(q) PROVE PaymentInv'
      BY <1>1, <2>2, MarkInv
    <2>3. ASSUME NEW q \in Requests, CallProvider(q) PROVE PaymentInv'
      BY <1>1, <2>3, CallProviderInv
    <2>4. ASSUME NEW q \in Requests, Complete(q) \/ FailCheckout(q) \/ RequestDies(q)
          PROVE  PaymentInv'
      BY <1>1, <2>4, LastStepsInv
    <2>5. ASSUME NEW o \in Orders, PayerDecides(o) PROVE PaymentInv'
      BY <1>1, <2>5, PayerInv
    <2> QED
      BY <1>1, <2>1, <2>2, <2>3, <2>4, <2>5 DEF CheckoutNext
  <1>2. ASSUME NEW o \in Orders, ReleaseExpired(o) PROVE PaymentInv'
    BY <1>2, ReleaseExpiredInv
  <1>3. ASSUME NEW c \in Callbacks, NEW o \in Orders, CallbackArrives(c, o)
        PROVE  PaymentInv'
    BY <1>3, CallbackArrivesInv
  <1>4. ASSUME NEW c \in Callbacks, CallbackStep(c) PROVE PaymentInv'
    BY <1>4, ClaimRefusedInv, ClaimVerificationInv, FinalizeInv,
       ReleaseVerificationInv DEF CallbackStep
  <1>5. ASSUME NEW c \in Callbacks,
               VerificationAnswered(c) \/ VerificationFails(c) \/ CallbackDies(c)
        PROVE  PaymentInv'
    BY <1>5, VerificationAnsweredInv, VerificationFailsInv, CallbackDiesInv
  <1>6. CASE Tick
    BY <1>6, TickInv
  <1>7. CASE UNCHANGED vars
    <2>1. TypeOK'
      BY <1>7 DEF PaymentInv, TypeOK, vars
    <2>2. /\ \A o \in Orders : SessionMoves(o) /\ StatusMoves(o) /\ MarksKept(o)
          /\ \A c \in Callbacks : ClaimMoves(c)
          /\ UNCHANGED request
      BY <1>7 DEF vars, SessionMoves, StatusMoves, MarksKept, ClaimMoves
    <2> QED
      BY <2>1, <2>2, OutsideStep
  <1> QED
    BY <1>1, <1>2, <1>3, <1>4, <1>5, <1>6, <1>7 DEF Next

(* The inductive invariant holds in every reachable state.                 *)
LEMMA PaymentHolds == Spec => []PaymentInv
  <1> QED
    BY InitPayment, StepPayment, PTL DEF Spec

-----------------------------------------------------------------------------
(* Orders, sessions, requests, events and callbacks keep their types.      *)
THEOREM PaymentTypes == Spec => []TypeOK
  <1>1. PaymentInv => TypeOK
    BY DEF PaymentInv
  <1> QED
    BY <1>1, PaymentHolds, PTL

(* A session of an order that is gone or failed cannot take money.         *)
LEMMA LiveTaken ==
    ASSUME PaymentInv, NEW o \in Orders, Live(o)
    PROVE  Taken(o)
  BY DEF PaymentInv, TypeOK, OrderRows, OrderStatuses, SessionsKnown, Outcomes,
         Live, Taken

(* failOrderCheckout, the two-minute clean-up of prepareOrderCheckout and  *)
(* finalizePaymentVerification only write FAILED on orders whose payer     *)
(* cannot be charged, for any number of requests and however late they     *)
(* are.                                                                    *)
THEOREM FailedSafe == Spec => []FailedNeverCharged
  <1>1. PaymentInv => FailedNeverCharged
    BY DEF PaymentInv, Outcomes, FailedNeverCharged, Live
  <1> QED
    BY <1>1, PaymentHolds, PTL

(* However many requests and retries, two orders of one report never both  *)
(* have a session the payer can pay or has paid.                           *)
THEOREM SessionsSafe == Spec => []OneLiveSession
  <1>1. PaymentInv => OneLiveSession
    BY LiveTaken DEF PaymentInv, Outcomes, OneLiveSession
  <1> QED
    BY <1>1, PaymentHolds, PTL

(* finalizePaymentVerification only writes PAID for settled money, however *)
(* many callbacks verify, and however late.                                *)
THEOREM PaidSafe == Spec => []PaidMeansSettled
  <1>1. PaymentInv => PaidMeansSettled
    BY DEF PaymentInv, Outcomes, PaidMeansSettled
  <1> QED
    BY <1>1, PaymentHolds, PTL

-----------------------------------------------------------------------------
(* Which steps can touch a quarantined order: none.  Time and the steps of *)
(* callbacks preserve its fields, and no request holds it.                 *)
LEMMA QuarantineLasts ==
    ASSUME PaymentInv, NEW o \in Orders, Quarantined(o),
           order'[o].status = order[o].status,
           order'[o].marker = order[o].marker, order'[o].ref = order[o].ref,
           \A q \in Requests : request'[q].order # o
    PROVE  Quarantined(o)'
  BY DEF Quarantined, Pending

LEMMA QuarantineCheckout ==
    ASSUME PaymentInv, NEW o \in Orders, Quarantined(o), CheckoutNext
    PROVE  Quarantined(o)' /\ session'[o] = session[o]
  <1>1. Pending(o) /\ order[o].marker /\ ~order[o].ref
    BY DEF Quarantined
  <1>2. \A q \in Requests : Acting(q) =>
           request[q].order \in Orders /\ request[q].order # o
    BY DEF PaymentInv, RequestsOwn, Quarantined
  <1>3. ASSUME NEW q \in Requests, NEW new \in Orders, Prepare(q, new) PROVE FALSE
    BY <1>1, <1>3 DEF Prepare, Abandoned
  <1>4. ASSUME NEW q \in Requests,
               \/ MarkRequestStarted(q) \/ CallProvider(q) \/ Complete(q)
               \/ FailCheckout(q) \/ RequestDies(q)
        PROVE  Quarantined(o)' /\ session'[o] = session[o]
    <2>1. request[q].order # o
      BY <1>2, <1>4
      DEF Acting, MarkRequestStarted, CallProvider, Complete, FailCheckout, RequestDies
    <2>2. order'[o] = order[o]
      BY <1>4, <2>1
      DEF PaymentInv, TypeOK, MarkRequestStarted, MarkWrites, CallProvider, Complete,
          CompleteWrites, FailCheckout, FailWrites, RequestDies
    <2>3. session'[o] = session[o]
      BY <1>4, <2>1
      DEF PaymentInv, TypeOK, MarkRequestStarted, CallProvider, Complete,
          FailCheckout, RequestDies
    <2>4. \A p \in Requests : request'[p].order # o
      <3>1. \A p \in Requests : request[p].order # o
        BY DEF Quarantined
      <3>2. o # NoOrder
        BY NoOrderAssumption
      <3>3. \/ EndRequest(q)
            \/ \E place \in RequestPlaces : Goto(q, place)
        BY <1>4 DEF MarkRequestStarted, CallProvider, Complete, FailCheckout,
                    RequestDies, RequestPlaces
      <3>4. CASE EndRequest(q)
        BY <3>1, <3>2, <3>4 DEF PaymentInv, TypeOK, EndRequest, Idle
      <3>5. CASE \E place \in RequestPlaces : Goto(q, place)
        BY <3>1, <3>5 DEF PaymentInv, TypeOK, Goto
      <3> QED
        BY <3>3, <3>4, <3>5
    <2> QED
      BY <2>2, <2>3, <2>4, QuarantineLasts
  <1>5. ASSUME NEW p \in Orders, PayerDecides(p)
        PROVE  Quarantined(o)' /\ session'[o] = session[o]
    <2>1. p # o
      BY <1>1, <1>5 DEF PayerDecides
    <2>2. UNCHANGED <<order, request>> /\ session'[o] = session[o]
      BY <1>5, <2>1 DEF PaymentInv, TypeOK, PayerDecides
    <2> QED
      BY <2>2, QuarantineLasts DEF Quarantined
  <1> QED
    BY <1>3, <1>4, <1>5 DEF CheckoutNext

LEMMA QuarantineStep ==
    ASSUME PaymentInv, [Next]_vars, NEW o \in Orders, Quarantined(o)
    PROVE  Quarantined(o)' /\ session'[o] = session[o]
  <1>1. Pending(o) /\ order[o].marker /\ ~order[o].ref /\ ~Decided(o)
    BY DEF PaymentInv, SessionsKnown, Quarantined
  <1>2. \A q \in Requests : request[q].order # o
    BY DEF Quarantined
  <1>3. \A c \in Callbacks : callback[c].at # "idle" => callback[c].order # o
    BY <1>1 DEF PaymentInv, CallbacksKnow
  <1>4. CASE CheckoutNext
    BY <1>4, QuarantineCheckout
  <1>5. CASE UNCHANGED <<order, session, request>>
    BY <1>2, <1>5, QuarantineLasts
  <1>6. ASSUME NEW c \in Callbacks, VerificationAnswered(c) \/ VerificationFails(c)
        PROVE  Quarantined(o)' /\ session'[o] = session[o]
    <2>1. session'[o] = session[o] /\ UNCHANGED <<order, request>>
      BY <1>1, <1>6 DEF PaymentInv, TypeOK, VerificationAnswered, VerificationFails,
                        SettleIfPaid, Decided
    <2> QED
      BY <1>2, <2>1, QuarantineLasts
  <1>7. ASSUME NEW c \in Callbacks, Finalize(c)
        PROVE  Quarantined(o)' /\ session'[o] = session[o]
    <2>1. callback[c].order # o
      BY <1>3, <1>7 DEF Finalize
    <2>2. order'[o] = order[o] /\ UNCHANGED <<session, request>>
      BY <1>7, <2>1 DEF PaymentInv, TypeOK, Finalize, FinalizeWrites
    <2> QED
      BY <1>2, <2>2, QuarantineLasts
  <1>8. CASE Tick
    <2>1. order'[o] = Older(order[o]) /\ order[o] \in OrderRows
      BY <1>8 DEF PaymentInv, TypeOK, Tick, OrdersAge
    <2>2. UNCHANGED <<session, request>>
      BY <1>8 DEF Tick
    <2> QED
      BY <1>2, <2>1, <2>2, OlderKeeps, QuarantineLasts
  <1>9. CASE \E p \in Orders, c \in Callbacks :
                \/ ReleaseExpired(p) \/ CallbackArrives(c, p) \/ ClaimRefused(c)
                \/ ClaimVerification(c) \/ ReleaseVerification(c) \/ CallbackDies(c)
    BY <1>5, <1>9 DEF ReleaseExpired, CallbackArrives, ClaimRefused,
       ClaimVerification, ReleaseVerification, CallbackDies, checkoutVars
  <1>10. CASE \E p \in Orders : ReleaseExpired(p)
    BY <1>5, <1>10 DEF ReleaseExpired, checkoutVars
  <1>11. CASE UNCHANGED vars
    BY <1>5, <1>11 DEF vars
  <1> QED
    BY <1>4, <1>6, <1>7, <1>8, <1>9, <1>10, <1>11 DEF Next, CallbackStep

(* The code never touches an order again once it is PENDING with a marker  *)
(* but no reference and its handler is gone: it needs reconciliation.      *)
THEOREM QuarantineSafe == Spec => QuarantineKept
  <1>1. PaymentInv /\ [Next]_vars =>
           [\A o \in Orders : Quarantined(o) =>
               Quarantined(o)' /\ session'[o] = session[o]]_vars
    BY QuarantineStep
  <1> QED
    BY <1>1, PaymentHolds, PTL DEF Spec, QuarantineKept

-----------------------------------------------------------------------------
(* Refinement.  The mapping, and how its values follow from the tables.    *)
OutcomeMap == [o \in Orders |-> OutcomeOf(order[o].status)]
ChargedMap == {o \in Orders : session[o] = "settled"}

LEMMA OutcomeValues ==
    /\ OutcomeOf("ABSENT") = "none" /\ OutcomeOf("PENDING") = "open"
    /\ OutcomeOf("PAID") = "paid" /\ OutcomeOf("FAILED") = "failed"
  BY DEF OutcomeOf

LEMMA OutcomeBack ==
    ASSUME PaymentInv, NEW o \in Orders
    PROVE  /\ OutcomeMap[o] = "none" <=> order[o].status = "ABSENT"
           /\ OutcomeMap[o] = "open" <=> order[o].status = "PENDING"
           /\ OutcomeMap[o] = "paid" <=> order[o].status = "PAID"
           /\ OutcomeMap[o] = "failed" <=> order[o].status = "FAILED"
  <1>1. order[o].status \in {"ABSENT", "PENDING", "PAID", "FAILED"}
    BY DEF PaymentInv, TypeOK, OrderRows, OrderStatuses
  <1>2. OutcomeMap[o] = OutcomeOf(order[o].status)
    BY DEF OutcomeMap
  <1> QED
    BY <1>1, <1>2, OutcomeValues

(* Steps that keep statuses and settle nothing are invisible.              *)
LEMMA Invisible ==
    ASSUME \A o \in Orders : order'[o].status = order[o].status,
           \A o \in Orders : session'[o] = "settled" <=> session[o] = "settled"
    PROVE  UNCHANGED <<OutcomeMap, ChargedMap>>
  <1>1. OutcomeMap' = OutcomeMap
    BY DEF OutcomeMap
  <1>2. ChargedMap' = ChargedMap
    BY DEF ChargedMap
  <1> QED
    BY <1>1, <1>2

LEMMA PrepareBegins ==
    ASSUME PaymentInv, NEW q \in Requests, NEW new \in Orders, Prepare(q, new)
    PROVE  /\ OutcomeMap[new] = "none"
           /\ \A o \in Orders : /\ OutcomeMap[o] # "paid"
                                /\ OutcomeMap[o] = "open" => o \notin ChargedMap
           /\ OutcomeMap' = [o \in Orders |-> IF o = new THEN "open"
                                ELSE IF OutcomeMap[o] = "open" THEN "failed"
                                ELSE OutcomeMap[o]]
           /\ UNCHANGED ChargedMap
  <1>1. OutcomeMap[new] = "none"
    BY OutcomeBack DEF Prepare
  <1>2. \A o \in Orders : OutcomeMap[o] # "paid"
    BY OutcomeBack DEF Prepare
  <1>3. \A o \in Orders : OutcomeMap[o] = "open" => Abandoned(o) /\ session[o] = "none"
    BY OutcomeBack DEF PaymentInv, SessionsKnown, Prepare, Pending, Abandoned
  <1>4. \A o \in Orders : OutcomeMap[o] = "open" => o \notin ChargedMap
    BY <1>3 DEF ChargedMap
  <1>5. \A o \in Orders : OutcomeMap'[o] =
           IF o = new THEN "open"
           ELSE IF OutcomeMap[o] = "open" THEN "failed" ELSE OutcomeMap[o]
    <2> SUFFICES ASSUME NEW o \in Orders
                 PROVE  OutcomeMap'[o] =
                          IF o = new THEN "open"
                          ELSE IF OutcomeMap[o] = "open" THEN "failed"
                          ELSE OutcomeMap[o]
      OBVIOUS
    <2>1. OutcomeMap'[o] = OutcomeOf(order'[o].status)
      BY DEF OutcomeMap
    <2>2. CASE o = new
      <3>1. order'[o].status = "PENDING"
        BY <2>2 DEF Prepare, NewRow
      <3> QED
        BY <2>1, <2>2, <3>1, OutcomeValues
    <2>3. CASE o # new /\ OutcomeMap[o] = "open"
      <3>1. order'[o].status = "FAILED"
        BY <1>3, <2>3 DEF Prepare, WithStatus
      <3> QED
        BY <2>1, <2>3, <3>1, OutcomeValues
    <2>4. CASE o # new /\ OutcomeMap[o] # "open"
      <3>1. order'[o] = order[o]
        BY <2>4, OutcomeBack DEF Prepare, Abandoned, Pending
      <3>2. OutcomeMap[o] = OutcomeOf(order[o].status)
        BY DEF OutcomeMap
      <3> QED
        BY <2>1, <2>4, <3>1, <3>2
    <2> QED
      BY <2>2, <2>3, <2>4
  <1>6. OutcomeMap' = [o \in Orders |-> IF o = new THEN "open"
                         ELSE IF OutcomeMap[o] = "open" THEN "failed"
                         ELSE OutcomeMap[o]]
    <2>1. OutcomeMap' = [o \in Orders |-> OutcomeMap'[o]]
      BY DEF OutcomeMap
    <2> QED
      BY <1>5, <2>1
  <1>7. UNCHANGED ChargedMap
    BY DEF Prepare, ChargedMap
  <1> QED
    BY <1>1, <1>2, <1>4, <1>6, <1>7

(* The order of a step that records an outcome.                            *)
LEMMA StatusSteps ==
    ASSUME PaymentInv, NEW o \in Orders, NEW status \in {"PAID", "FAILED"},
           Pending(o), UNCHANGED session,
           order' = [order EXCEPT ![o] = WithStatus(order[o], status)]
    PROVE  /\ OutcomeMap[o] = "open"
           /\ OutcomeMap' = [OutcomeMap EXCEPT ![o] = OutcomeOf(status)]
           /\ UNCHANGED ChargedMap
  <1>1. OutcomeMap[o] = "open"
    BY OutcomeBack DEF Pending
  <1>2. \A p \in Orders : OutcomeMap'[p] = [OutcomeMap EXCEPT ![o] = OutcomeOf(status)][p]
    <2> SUFFICES ASSUME NEW p \in Orders
                 PROVE  OutcomeMap'[p] = [OutcomeMap EXCEPT ![o] = OutcomeOf(status)][p]
      OBVIOUS
    <2>1. OutcomeMap'[p] = OutcomeOf(order'[p].status)
          /\ OutcomeMap[p] = OutcomeOf(order[p].status)
      BY DEF OutcomeMap
    <2>2. order'[p].status = IF p = o THEN status ELSE order[p].status
      BY DEF PaymentInv, TypeOK, WithStatus
    <2> QED
      BY <2>1, <2>2 DEF OutcomeMap
  <1>3. OutcomeMap' = [OutcomeMap EXCEPT ![o] = OutcomeOf(status)]
    BY <1>2 DEF OutcomeMap
  <1>4. UNCHANGED ChargedMap
    BY DEF ChargedMap
  <1> QED
    BY <1>1, <1>3, <1>4

(* One lemma for each action of the abstract specification.                *)
LEMMA Begins ==
    ASSUME PaymentInv, NEW q \in Requests, NEW new \in Orders, Prepare(q, new)
    PROVE  Purchase!Begin(new)
  BY PrepareBegins DEF Purchase!Begin, OutcomeMap, ChargedMap

LEMMA Confirms ==
    ASSUME PaymentInv, NEW o \in Orders, Pending(o), UNCHANGED session,
           session[o] = "settled",
           order' = [order EXCEPT ![o] = WithStatus(order[o], "PAID")]
    PROVE  Purchase!Confirm(o)
  <1>1. o \in ChargedMap
    BY DEF ChargedMap
  <1>2. /\ OutcomeMap[o] = "open"
        /\ OutcomeMap' = [OutcomeMap EXCEPT ![o] = "paid"]
        /\ UNCHANGED ChargedMap
    BY StatusSteps, OutcomeValues
  <1> QED
    BY <1>1, <1>2 DEF Purchase!Confirm, OutcomeMap, ChargedMap

LEMMA Rejects ==
    ASSUME PaymentInv, NEW o \in Orders, Pending(o), UNCHANGED session,
           session[o] # "settled",
           order' = [order EXCEPT ![o] = WithStatus(order[o], "FAILED")]
    PROVE  Purchase!Reject(o)
  <1>1. o \notin ChargedMap
    BY DEF ChargedMap
  <1>2. /\ OutcomeMap[o] = "open"
        /\ OutcomeMap' = [OutcomeMap EXCEPT ![o] = "failed"]
        /\ UNCHANGED ChargedMap
    BY StatusSteps, OutcomeValues
  <1> QED
    BY <1>1, <1>2 DEF Purchase!Reject, OutcomeMap, ChargedMap

LEMMA Charges ==
    ASSUME PaymentInv, NEW o \in Orders, session[o] = "paid", UNCHANGED order,
           session' = [session EXCEPT ![o] = "settled"]
    PROVE  Purchase!Charge(o)
  <1>1. OutcomeMap[o] = "open"
    <2>1. order[o].status = "PENDING"
      BY LiveTaken DEF Live, Taken, PaymentInv, Outcomes
    <2> QED
      BY <2>1, OutcomeBack
  <1>2. ChargedMap' = ChargedMap \cup {o}
    BY DEF PaymentInv, TypeOK, ChargedMap
  <1>3. OutcomeMap' = OutcomeMap
    BY DEF OutcomeMap
  <1> QED
    BY <1>1, <1>2, <1>3 DEF Purchase!Charge, OutcomeMap, ChargedMap

(* What a step of the system looks like to the purchases.                  *)
Simulated == [Purchase!PurchaseNext]_(Purchase!purchaseVars)

LEMMA StutterSimulated ==
    ASSUME \A o \in Orders : order'[o].status = order[o].status,
           \A o \in Orders : session'[o] = "settled" <=> session[o] = "settled"
    PROVE  Simulated
  BY Invisible DEF Simulated, Purchase!purchaseVars, OutcomeMap, ChargedMap

LEMMA ActionSimulated ==
    ASSUME NEW o \in Orders,
           \/ Purchase!Begin(o) \/ Purchase!Charge(o)
           \/ Purchase!Confirm(o) \/ Purchase!Reject(o)
    PROVE  Simulated
  BY DEF Simulated, Purchase!PurchaseNext

LEMMA CheckoutSimulated ==
    ASSUME PaymentInv, CheckoutNext
    PROVE  Simulated
  <1>1. ASSUME NEW q \in Requests, NEW o \in Orders, Prepare(q, o) PROVE Simulated
    BY <1>1, Begins, ActionSimulated
  <1>2. ASSUME NEW q \in Requests,
               \/ MarkRequestStarted(q) \/ CallProvider(q) \/ Complete(q)
               \/ RequestDies(q)
        PROVE  Simulated
    <2> DEFINE o == request[q].order
    <2>1. /\ Acting(q)
          /\ CallProvider(q) => session[o] = "none"
      BY <1>2, RequestReady DEF Acting, MarkRequestStarted, CallProvider, Complete,
                                RequestDies
    <2>2. o \in Orders
      BY <2>1, RequestReady
    <2>3. \A p \in Orders : order'[p].status = order[p].status
      <3>1. \/ UNCHANGED order
            \/ order' = [order EXCEPT ![o] = Marked(order[o])]
            \/ order' = [order EXCEPT ![o] = WithRef(order[o])]
        BY <1>2 DEF MarkRequestStarted, MarkWrites, CallProvider, Complete,
                    CompleteWrites, RequestDies
      <3>2. Marked(order[o]).status = order[o].status
            /\ WithRef(order[o]).status = order[o].status
        BY DEF Marked, WithRef
      <3> QED
        BY <2>2, <3>1, <3>2 DEF PaymentInv, TypeOK
    <2>4. \A p \in Orders : session'[p] = "settled" <=> session[p] = "settled"
      <3>1. \/ UNCHANGED session
            \/ session' = [session EXCEPT ![o] = "open"] /\ session[o] = "none"
        BY <1>2, <2>1 DEF MarkRequestStarted, CallProvider, Complete, RequestDies
      <3> QED
        BY <2>2, <3>1 DEF PaymentInv, TypeOK
    <2> QED
      BY <2>3, <2>4, StutterSimulated
  <1>3. ASSUME NEW q \in Requests, FailCheckout(q) PROVE Simulated
    <2> DEFINE o == request[q].order
    <2>1. o \in Orders /\ session[o] = "none" /\ UNCHANGED session
      BY <1>3, RequestReady DEF FailCheckout, Acting
    <2>2. CASE UNCHANGED order
      BY <2>1, <2>2, StutterSimulated
    <2>3. CASE Pending(o) /\ order' = [order EXCEPT ![o] = WithStatus(order[o], "FAILED")]
      BY <2>1, <2>3, Rejects, ActionSimulated
    <2> QED
      BY <1>3, <2>2, <2>3 DEF FailCheckout, FailWrites
  <1>4. ASSUME NEW o \in Orders, PayerDecides(o) PROVE Simulated
    <2>1. UNCHANGED order
      BY <1>4 DEF PayerDecides
    <2>2. \A p \in Orders : session'[p] = "settled" <=> session[p] = "settled"
      BY <1>4 DEF PaymentInv, TypeOK, PayerDecides
    <2> QED
      BY <2>1, <2>2, StutterSimulated
  <1> QED
    BY <1>1, <1>2, <1>3, <1>4 DEF CheckoutNext

LEMMA StepSimulated == PaymentInv /\ [Next]_vars => Simulated
  <1> SUFFICES ASSUME PaymentInv, [Next]_vars PROVE Simulated
    OBVIOUS
  <1>1. CASE CheckoutNext
    BY <1>1, CheckoutSimulated
  <1>2. CASE UNCHANGED <<order, session>>
    BY <1>2, StutterSimulated
  <1>3. ASSUME NEW c \in Callbacks, VerificationAnswered(c) \/ VerificationFails(c)
        PROVE  Simulated
    <2> DEFINE o == callback[c].order
    <2>1. o \in Orders /\ UNCHANGED order
      BY <1>3 DEF PaymentInv, CallbacksKnow, VerificationAnswered, VerificationFails
    <2>2. CASE UNCHANGED session
      BY <2>1, <2>2, StutterSimulated
    <2>3. CASE session[o] = "paid" /\ session' = [session EXCEPT ![o] = "settled"]
      BY <2>1, <2>3, Charges, ActionSimulated
    <2> QED
      BY <1>3, <2>2, <2>3 DEF VerificationAnswered, VerificationFails, SettleIfPaid
  <1>4. ASSUME NEW c \in Callbacks, Finalize(c) PROVE Simulated
    <2> DEFINE o == callback[c].order
    <2>1. UNCHANGED session /\ o \in Orders
      BY <1>4, FinalizeMoves DEF Finalize
    <2>2. CASE UNCHANGED order
      BY <2>1, <2>2, StutterSimulated
    <2>3. CASE /\ order' = [order EXCEPT ![o] = WithStatus(order[o], "PAID")]
               /\ Pending(o) /\ session[o] = "settled"
      BY <2>1, <2>3, Confirms, ActionSimulated
    <2>4. CASE /\ order' = [order EXCEPT ![o] = WithStatus(order[o], "FAILED")]
               /\ Pending(o) /\ session[o] = "cancelled"
      BY <2>1, <2>4, Rejects, ActionSimulated
    <2> QED
      BY <1>4, <2>2, <2>3, <2>4, FinalizeMoves
  <1>5. CASE Tick
    <2>1. \A o \in Orders : order'[o] = Older(order[o]) /\ order[o] \in OrderRows
      BY <1>5 DEF PaymentInv, TypeOK, Tick, OrdersAge
    <2>2. UNCHANGED session
      BY <1>5 DEF Tick
    <2> QED
      BY <2>1, <2>2, OlderKeeps, StutterSimulated
  <1>6. ASSUME NEW o \in Orders, ReleaseExpired(o) PROVE Simulated
    BY <1>2, <1>6 DEF ReleaseExpired, checkoutVars
  <1>7. ASSUME NEW c \in Callbacks, NEW o \in Orders, CallbackArrives(c, o)
        PROVE  Simulated
    BY <1>2, <1>7 DEF CallbackArrives, checkoutVars
  <1>8. ASSUME NEW c \in Callbacks,
               \/ ClaimRefused(c) \/ ClaimVerification(c) \/ ReleaseVerification(c)
               \/ CallbackDies(c)
        PROVE  Simulated
    BY <1>2, <1>8 DEF ClaimRefused, ClaimVerification, ReleaseVerification,
                      CallbackDies, checkoutVars
  <1>9. CASE UNCHANGED vars
    BY <1>2, <1>9 DEF vars
  <1> QED
    BY <1>1, <1>3, <1>4, <1>5, <1>6, <1>7, <1>8, <1>9 DEF Next, CallbackStep

LEMMA InitSimulated == Init => Purchase!PurchaseInit
  <1> SUFFICES ASSUME Init PROVE Purchase!PurchaseInit
    OBVIOUS
  <1>1. OutcomeMap = [o \in Orders |-> "none"]
    BY OutcomeValues DEF Init, CheckoutInit, NoRow, OutcomeMap
  <1>2. ChargedMap = {}
    BY DEF Init, CheckoutInit, ChargedMap
  <1> QED
    BY <1>1, <1>2 DEF Purchase!PurchaseInit, OutcomeMap, ChargedMap

(* order-checkout.ts and payment-callback-state.ts together implement the  *)
(* purchase of SinglePurchase: one attempt at a time, replaced only when   *)
(* its payer cannot have paid, charged once, confirmed only when charged   *)
(* and rejected only when not.                                             *)
THEOREM PurchaseImplemented == Spec => ImplementsSinglePurchase
  <1>1. PaymentInv /\ [Next]_vars => [Purchase!PurchaseNext]_(Purchase!purchaseVars)
    BY StepSimulated DEF Simulated
  <1> QED
    BY <1>1, InitSimulated, PaymentHolds, PTL
    DEF Spec, ImplementsSinglePurchase, Purchase!PurchaseSpec

=============================================================================
