------------------------ MODULE LeadLifecycleProofs ------------------------
(***************************************************************************)
(* What the writers of leads keep, for any addresses, any number of        *)
(* requests, leads and runs.                                               *)
(*                                                                         *)
(* The invariant has three parts: the rows (RowsInv), what requests under  *)
(* way have seen (VisitsInv) and the orders so far (BoughtInv).  A step    *)
(* changes the rows in one of three ways -- a row is made, a row is        *)
(* written, or a run is made and linked -- and whichever it is, they have  *)
(* only Grown, from which the other two parts follow.                      *)
(***************************************************************************)
EXTENDS LeadLifecycle, TLAPS

VisitType == [op : VisitOps, lead : 0..LeadBound, run : 0..RunBound,
              to : LeadStatuses, seen : LeadRows]

RowsTyped ==
    /\ leads \in 0..LeadBound
    /\ runs \in 1..RunBound
    /\ lead \in [LeadIds -> LeadRows]
    /\ \A l \in LeadIds : lead[l].run <= runs /\ keyed[l] <= runs
    /\ outcome \in [RunIds -> Outcomes]
    /\ runFor \in [RunIds -> 0..LeadBound]
    /\ \A r \in RunIds : runFor[r] <= leads /\ (r > runs => outcome[r] = "none")
    /\ keyed \in [LeadIds -> 0..RunBound]
    /\ fresh \subseteq 1..leads
    /\ reopened \subseteq [lead : LeadIds, by : {"order", "start", "route"},
                           stale : BOOLEAN]

(* A row that is not made yet has no run.                                  *)
Unmade == \A l \in LeadIds : l > leads => lead[l].run = 0

RowsInv == RowsTyped /\ NoRunForNobody /\ StampsExplainStatus
              /\ ReopenedByStartOrStale /\ Unmade

(* A request that writes a row goes by one that is there and, when it      *)
(* moves a lead on, by a status that it may come from.                     *)
VisitsInv ==
    /\ visit \in [Visits -> VisitType]
    /\ \A v \in Visits :
          /\ visit[v].op \in {"patch", "status", "start"} => visit[v].lead \in 1..leads
          /\ visit[v].op \in {"patch", "status"} =>
                CanTransition(visit[v].seen.status, visit[v].to)
          /\ visit[v].run <= runs

BoughtInv ==
    /\ bought \subseteq [run : RunIds, email : Emails, lead : LeadIds]
    /\ \A o \in bought : o.lead <= leads
    /\ OrdersKeepTheirLead

LeadInv == RowsInv /\ VisitsInv /\ BoughtInv

(* No row or run goes away, and a row keeps its address and, once it has   *)
(* one, its run.                                                           *)
Grown ==
    /\ leads' \in 0..LeadBound /\ leads <= leads'
    /\ runs' \in 1..RunBound /\ runs <= runs'
    /\ \A l \in LeadIds : lead[l].run # 0 => lead'[l].run = lead[l].run
    /\ \A l \in 1..leads : lead'[l].email = lead[l].email

-----------------------------------------------------------------------------
(* Data.                                                                   *)

LEMMA RowTyped ==
    ASSUME NEW e \in Emails, NEW r \in 0..RunBound, NEW s \in LeadStatuses,
           NEW q \in BOOLEAN, NEW c \in BOOLEAN, NEW x \in BOOLEAN
    PROVE  LeadRow(e, r, s, q, c, x) \in LeadRows
  BY DEF LeadRow, LeadRows

LEMMA NoLeadTyped ==
    ASSUME LeadBounds PROVE NoLead \in LeadRows /\ NoVisit \in VisitType
<1>1. AnyEmail \in Emails
  BY DEF LeadBounds, AnyEmail
<1>2. 0 \in 0..RunBound /\ "NEW" \in LeadStatuses
  BY DEF LeadBounds, LeadStatuses
<1>3. NoLead \in LeadRows
  BY <1>1, <1>2 DEF NoLead, LeadRow, LeadRows
<1> QED BY <1>3 DEF NoVisit, VisitType, VisitOps, LeadStatuses, LeadBounds

(* An end is left for itself only.                                         *)
LEMMA EndsStay ==
    ASSUME NEW from \in LeadStatuses, NEW to \in LeadStatuses,
           IsTerminalStatus(from), CanTransition(from, to)
    PROVE  from = to
  BY DEF IsTerminalStatus, CanTransition

LEMMA OpenStatuses ==
    ASSUME NEW s \in LeadStatuses, ~LeftAlone(s) PROVE ~IsTerminalStatus(s)
  BY DEF LeadStatuses, LeftAlone, IsTerminalStatus, NextStatus

LEMMA InvTypes == LeadInv => LeadTypeOK
  BY DEF LeadInv, RowsInv, RowsTyped, VisitsInv, VisitType, BoughtInv, LeadTypeOK

LEMMA LeadsInitially == ASSUME LeadBounds, LeadInit PROVE LeadInv
<1>1. NoLead \in LeadRows /\ NoVisit \in VisitType
  BY NoLeadTyped
<1>2. RowsTyped
  <2>1. NoLead.run = 0
    BY DEF NoLead, LeadRow
  <2>2. \A l \in LeadIds : lead[l].run <= runs /\ keyed[l] <= runs
    BY <2>1 DEF LeadInit
  <2> QED BY <1>1, <2>2 DEF RowsTyped, LeadInit, LeadBounds, RunIds, Outcomes
<1>3. NoRunForNobody /\ StampsExplainStatus /\ ReopenedByStartOrStale /\ Unmade
  BY DEF LeadInit, NoRunForNobody, StampsExplainStatus, ReopenedByStartOrStale, Unmade,
         NoLead, LeadRow
<1>4. VisitsInv
  BY <1>1 DEF VisitsInv, LeadInit, NoVisit
<1>5. BoughtInv
  BY DEF BoughtInv, LeadInit, OrdersKeepTheirLead
<1> QED BY <1>2, <1>3, <1>4, <1>5 DEF LeadInv, RowsInv

-----------------------------------------------------------------------------
(* What a step does to the rows.                                           *)

LEMMA SameRows ==
    ASSUME RowsInv, UNCHANGED <<lead, leads, runs>> PROVE Grown
  BY DEF RowsInv, RowsTyped, Grown

LEMMA RowsMade ==
    ASSUME LeadBounds, RowsInv, NEW e \in Emails, NEW r \in 0..runs,
           NEW s \in {"NEW", "REPORT_READY"}, MakesLead(e, r, s),
           UNCHANGED <<runVars, reopened>>
    PROVE  /\ RowsInv' /\ Grown
           /\ leads' \in LeadIds /\ lead'[leads'].run = r /\ lead'[leads'].email = e
<1> DEFINE row == LeadRow(e, r, s, FALSE, FALSE, FALSE)
<1>1. /\ leads \in 0..LeadBound /\ runs \in 1..RunBound /\ LeadBound \in Nat
      /\ RunBound \in Nat /\ lead \in [LeadIds -> LeadRows] /\ leads < LeadBound
  BY DEF RowsInv, RowsTyped, MakesLead, LeadBounds
<1>2. row \in LeadRows
  <2>1. r \in 0..RunBound /\ s \in LeadStatuses
    BY <1>1 DEF LeadStatuses
  <2> QED BY <2>1, RowTyped
<1>3. /\ row.run = r /\ row.email = e /\ row.status = s
  BY DEF LeadRow
<1>4. /\ leads' = leads + 1 /\ leads' \in LeadIds /\ leads' \in 0..LeadBound
      /\ lead' = [lead EXCEPT ![leads'] = row]
      /\ fresh' = fresh \cup {leads'}
  BY <1>1 DEF MakesLead, LeadIds
<1> HIDE DEF row
<1>5. /\ lead' \in [LeadIds -> LeadRows] /\ lead'[leads'] = row
      /\ \A l \in LeadIds : l # leads' => lead'[l] = lead[l]
  BY <1>1, <1>2, <1>4
<1>6. /\ runs' = runs /\ outcome' = outcome /\ runFor' = runFor /\ keyed' = keyed
      /\ reopened' = reopened
  BY DEF runVars
<1>7. RowsTyped'
  <2>1. \A l \in LeadIds : lead'[l].run <= runs' /\ keyed'[l] <= runs'
    BY <1>1, <1>3, <1>5, <1>6 DEF RowsInv, RowsTyped
  <2>2. \A x \in RunIds : runFor'[x] <= leads' /\ (x > runs' => outcome'[x] = "none")
    BY <1>1, <1>4, <1>6 DEF RowsInv, RowsTyped
  <2>3. fresh' \subseteq 1..leads'
    BY <1>1, <1>4 DEF RowsInv, RowsTyped
  <2> QED BY <1>4, <1>5, <1>6, <2>1, <2>2, <2>3 DEF RowsInv, RowsTyped
<1>8. NoRunForNobody'
  BY <1>1, <1>4, <1>5, <1>6 DEF RowsInv, RowsTyped, NoRunForNobody, LeadIds
<1>9. StampsExplainStatus'
  BY <1>3, <1>5 DEF RowsInv, StampsExplainStatus
<1>10. ReopenedByStartOrStale' /\ Unmade'
  BY <1>1, <1>4, <1>5, <1>6 DEF RowsInv, ReopenedByStartOrStale, Unmade, LeadIds
<1>11. Grown
  BY <1>1, <1>4, <1>5, <1>6 DEF RowsInv, Unmade, Grown, LeadIds
<1> QED BY <1>3, <1>4, <1>5, <1>7, <1>8, <1>9, <1>10, <1>11 DEF RowsInv

(* A row is written that keeps its run and its address, has the stamp of   *)
(* its status, and leaves an end only when its writer had seen another     *)
(* status.                                                                 *)
LEMMA RowsWritten ==
    ASSUME LeadBounds, RowsInv, NEW l \in 1..leads, NEW row \in LeadRows,
           NEW by \in {"order", "route"}, NEW seen,
           row.run = lead[l].run, row.email = lead[l].email,
           row.status = "QUALIFIED" => row.qualified,
           row.status = "CONVERTED" => row.converted,
           row.status = "LOST" => row.lost,
           IsTerminalStatus(lead[l].status) /\ row.status # lead[l].status
              => by = "route" /\ seen # lead[l].status,
           Writes(l, row, by, seen), UNCHANGED runVars
    PROVE  RowsInv' /\ Grown
<1>1. /\ leads \in 0..LeadBound /\ runs \in 1..RunBound /\ LeadBound \in Nat
      /\ lead \in [LeadIds -> LeadRows] /\ l \in LeadIds
  BY DEF RowsInv, RowsTyped, LeadBounds, LeadIds
<1>2. /\ leads' = leads /\ fresh' = fresh /\ runs' = runs /\ outcome' = outcome
      /\ runFor' = runFor /\ keyed' = keyed
  BY DEF runVars, Writes
<1>3. /\ lead' \in [LeadIds -> LeadRows] /\ lead'[l] = row
      /\ \A m \in LeadIds : m # l => lead'[m] = lead[m]
  BY <1>1 DEF Writes
<1>4. \A m \in LeadIds : lead'[m].run = lead[m].run /\ lead'[m].email = lead[m].email
  BY <1>1, <1>3
<1>5. \A x \in reopened' \ reopened :
         /\ x \in [lead : LeadIds, by : {"order", "start", "route"}, stale : BOOLEAN]
         /\ x.stale /\ x.by # "order"
  <2> DEFINE note == [lead |-> l, by |-> by, stale |-> seen # lead[l].status]
  <2>1. note \in [lead : LeadIds, by : {"order", "start", "route"}, stale : BOOLEAN]
    BY <1>1
  <2>2. CASE IsTerminalStatus(lead[l].status) /\ row.status # lead[l].status
    <3>1. reopened' = reopened \cup {note} /\ note.stale /\ note.by # "order"
      BY <2>2 DEF Writes
    <3> QED BY <2>1, <3>1
  <2>3. CASE ~(IsTerminalStatus(lead[l].status) /\ row.status # lead[l].status)
    BY <2>3 DEF Writes
  <2> QED BY <2>2, <2>3
<1>6. RowsTyped'
  BY <1>1, <1>2, <1>3, <1>4, <1>5 DEF RowsInv, RowsTyped
<1>7. NoRunForNobody'
  BY <1>1, <1>2, <1>4 DEF RowsInv, RowsTyped, NoRunForNobody, LeadIds
<1>8. StampsExplainStatus'
  BY <1>1, <1>3 DEF RowsInv, StampsExplainStatus
<1>9. ReopenedByStartOrStale' /\ Unmade'
  BY <1>2, <1>4, <1>5 DEF RowsInv, ReopenedByStartOrStale, Unmade
<1>10. Grown
  BY <1>1, <1>2, <1>4 DEF Grown, LeadIds
<1> QED BY <1>6, <1>7, <1>8, <1>9, <1>10 DEF RowsInv
(* A run is made and linked to a lead that has none.                       *)
LEMMA RowsLinked ==
    ASSUME LeadBounds, RowsInv, NEW l \in 1..leads, lead[l].run = 0, keyed[l] = 0,
           NEW seen, MakesRun(l), Links(l, runs + 1, seen)
    PROVE  RowsInv' /\ Grown
<1> DEFINE row == LeadRow(lead[l].email, runs + 1, "QUALIFIED", TRUE,
                          lead[l].converted, lead[l].lost)
<1>1. /\ leads \in 0..LeadBound /\ runs \in 1..RunBound /\ LeadBound \in Nat
      /\ RunBound \in Nat /\ runs < RunBound
      /\ lead \in [LeadIds -> LeadRows] /\ l \in LeadIds
      /\ runFor \in [RunIds -> 0..LeadBound] /\ keyed \in [LeadIds -> 0..RunBound]
  BY DEF RowsInv, RowsTyped, LeadBounds, LeadIds, MakesRun
<1>2. /\ lead[l].email \in Emails /\ lead[l].converted \in BOOLEAN
      /\ lead[l].lost \in BOOLEAN
  BY <1>1 DEF LeadRows
<1>3. row \in LeadRows /\ runs + 1 \in RunIds
  <2>1. runs + 1 \in 0..RunBound /\ runs + 1 \in RunIds /\ "QUALIFIED" \in LeadStatuses
    BY <1>1 DEF RunIds, LeadStatuses
  <2> QED BY <1>2, <2>1, RowTyped
<1>4. /\ row.run = runs + 1 /\ row.email = lead[l].email /\ row.status = "QUALIFIED"
      /\ row.qualified
  BY DEF LeadRow
<1>5. /\ leads' = leads /\ fresh' = fresh /\ runs' = runs + 1 /\ outcome' = outcome
      /\ runFor' = [runFor EXCEPT ![runs + 1] = l]
      /\ keyed' = [keyed EXCEPT ![l] = runs + 1]
      /\ lead' = [lead EXCEPT ![l] = row]
  BY DEF MakesRun, Links, Writes
<1>6. \A x \in reopened' \ reopened :
         /\ x \in [lead : LeadIds, by : {"order", "start", "route"}, stale : BOOLEAN]
         /\ x.by = "start"
  <2> DEFINE note == [lead |-> l, by |-> "start", stale |-> seen # lead[l].status]
  <2>1. note \in [lead : LeadIds, by : {"order", "start", "route"}, stale : BOOLEAN]
    BY <1>1
  <2>2. reopened' = reopened \cup {note} \/ reopened' = reopened
    BY DEF Links, Writes
  <2> QED BY <2>1, <2>2
<1> HIDE DEF row
<1>7. /\ lead' \in [LeadIds -> LeadRows] /\ lead'[l] = row
      /\ \A m \in LeadIds : m # l => lead'[m] = lead[m]
  BY <1>1, <1>3, <1>5
<1>8. /\ runFor'[runs + 1] = l
      /\ \A r \in RunIds : r # runs + 1 => runFor'[r] = runFor[r]
  BY <1>1, <1>3, <1>5
<1>9. RowsTyped'
  <2>1. \A m \in LeadIds : lead'[m].run <= runs' /\ keyed'[m] <= runs'
    BY <1>1, <1>4, <1>5, <1>7 DEF RowsInv, RowsTyped, LeadRows
  <2>2. \A r \in RunIds : runFor'[r] <= leads' /\ (r > runs' => outcome'[r] = "none")
    BY <1>1, <1>5, <1>8 DEF RowsInv, RowsTyped, RunIds
  <2>3. /\ runFor' \in [RunIds -> 0..LeadBound] /\ keyed' \in [LeadIds -> 0..RunBound]
        /\ runs' \in 1..RunBound
    <3>1. l \in 0..LeadBound /\ runs + 1 \in 0..RunBound /\ runs + 1 \in 1..RunBound
      BY <1>1
    <3> QED BY <1>1, <1>5, <3>1
  <2> QED BY <1>1, <1>5, <1>6, <1>7, <2>1, <2>2, <2>3 DEF RowsInv, RowsTyped
<1>10. NoRunForNobody'
  <2> SUFFICES ASSUME NEW r \in RunIds, runFor'[r] # 0 PROVE lead'[runFor'[r]].run = r
    BY DEF NoRunForNobody
  <2>1. CASE r = runs + 1
    BY <1>4, <1>7, <1>8, <2>1
  <2>2. CASE r # runs + 1
    <3>1. runFor'[r] = runFor[r] /\ runFor[r] \in LeadIds
      BY <1>1, <1>8, <2>2 DEF LeadIds
    <3>2. lead[runFor[r]].run = r /\ r # 0
      BY <3>1 DEF RowsInv, NoRunForNobody, RunIds
    <3> QED BY <1>7, <3>1, <3>2
  <2> QED BY <2>1, <2>2
<1>11. StampsExplainStatus'
  BY <1>4, <1>7 DEF RowsInv, StampsExplainStatus
<1>12. ReopenedByStartOrStale' /\ Unmade'
  BY <1>1, <1>5, <1>6, <1>7 DEF RowsInv, ReopenedByStartOrStale, Unmade
<1>13. Grown
  BY <1>1, <1>4, <1>5, <1>7 DEF Grown, LeadIds
<1> QED BY <1>9, <1>10, <1>11, <1>12, <1>13 DEF RowsInv

-----------------------------------------------------------------------------
(* What it leaves of the rest.                                             *)

LEMMA VisitsKept ==
    ASSUME LeadBounds, VisitsInv, leads \in Nat, runs \in Nat, Grown, NEW v \in Visits,
           Leaves(v) \/ UNCHANGED visit
    PROVE  VisitsInv'
<1>1. NoVisit \in VisitType /\ NoVisit.op = "idle" /\ NoVisit.run = 0
  BY NoLeadTyped DEF NoVisit
<1>2. visit' \in [Visits -> VisitType]
  BY <1>1 DEF VisitsInv, Leaves
<1>3. \A w \in Visits : visit'[w] = visit[w] \/ visit'[w] = NoVisit
  BY DEF VisitsInv, Leaves
<1>4. leads' \in Nat /\ leads <= leads' /\ runs' \in Nat /\ runs <= runs'
  BY DEF Grown, LeadBounds
<1> SUFFICES ASSUME NEW w \in Visits
             PROVE  /\ visit'[w].op \in {"patch", "status", "start"}
                          => visit'[w].lead \in 1..leads'
                    /\ visit'[w].op \in {"patch", "status"} =>
                          CanTransition(visit'[w].seen.status, visit'[w].to)
                    /\ visit'[w].run <= runs'
  BY <1>2 DEF VisitsInv, CanTransition
<1>5. CASE visit'[w] = NoVisit
  BY <1>1, <1>4, <1>5
<1>6. CASE visit'[w] = visit[w]
  <2>1. visit[w].run \in Nat
    BY DEF VisitsInv, VisitType, LeadBounds
  <2> QED BY <1>4, <1>6, <2>1 DEF VisitsInv
<1> QED BY <1>3, <1>5, <1>6

LEMMA BoughtKept ==
    ASSUME LeadBounds, BoughtInv, leads \in Nat, Grown, UNCHANGED bought
    PROVE  BoughtInv'
<1>1. leads' \in Nat /\ leads <= leads'
  BY DEF Grown, LeadBounds
<1>2. \A o \in bought : o.lead \in LeadIds /\ o.lead \in 1..leads /\ o.run # 0
  BY DEF BoughtInv, LeadIds, RunIds, LeadBounds
<1>3. \A o \in bought : lead'[o.lead].run = o.run /\ lead'[o.lead].email = o.email
  BY <1>2 DEF BoughtInv, OrdersKeepTheirLead, Grown
<1> QED BY <1>1, <1>2, <1>3 DEF BoughtInv, OrdersKeepTheirLead

(* A request has looked.                                                   *)
LEMMA LookKeeps ==
    ASSUME LeadBounds, LeadInv, NEW v \in Visits, NEW op \in VisitOps,
           NEW l \in 0..leads, NEW r \in 0..runs, NEW to \in LeadStatuses,
           NEW seen \in LeadRows, LooksFirst(v, op, l, r, to, seen),
           op \in {"patch", "status", "start"} => l # 0,
           op \in {"patch", "status"} => CanTransition(seen.status, to)
    PROVE  LeadInv' /\ Grown
<1>1. /\ leads \in 0..LeadBound /\ runs \in 1..RunBound
      /\ LeadBound \in Nat /\ RunBound \in Nat
  BY DEF LeadInv, RowsInv, RowsTyped, LeadBounds
<1>2. UNCHANGED <<lead, leads, fresh, runs, outcome, runFor, keyed, bought, reopened>>
  BY DEF LooksFirst, tableVars, runVars
<1>3. RowsInv' /\ BoughtInv'
  BY <1>2 DEF LeadInv, RowsInv, RowsTyped, NoRunForNobody, StampsExplainStatus,
              ReopenedByStartOrStale, Unmade, BoughtInv, OrdersKeepTheirLead
<1> DEFINE now == [op |-> op, lead |-> l, run |-> r, to |-> to, seen |-> seen]
<1>4. /\ now \in VisitType /\ now.op = op /\ now.lead = l /\ now.run = r
      /\ now.to = to /\ now.seen = seen
  BY <1>1 DEF VisitType
<1>5. visit' = [visit EXCEPT ![v] = now]
  BY DEF LooksFirst
<1> HIDE DEF now
<1>6. VisitsInv'
  <2>1. visit' \in [Visits -> VisitType]
    BY <1>4, <1>5 DEF LeadInv, VisitsInv
  <2>2. \A w \in Visits : visit'[w] = visit[w] \/ (w = v /\ visit'[w] = now)
    BY <1>5 DEF LeadInv, VisitsInv
  <2>3. l \in Nat /\ r <= runs
    BY <1>1
  <2> QED BY <1>1, <1>2, <1>4, <2>1, <2>2, <2>3 DEF LeadInv, VisitsInv, CanTransition
<1>7. Grown
  BY <1>2, SameRows DEF LeadInv
<1> QED BY <1>3, <1>6, <1>7 DEF LeadInv
-----------------------------------------------------------------------------
(* The steps.                                                              *)

LEMMA Bounds ==
    ASSUME LeadBounds, LeadInv
    PROVE  /\ leads \in 0..LeadBound /\ leads \in Nat /\ 0 \in 0..leads
           /\ runs \in 1..RunBound /\ runs \in Nat /\ 0 \in 0..runs
           /\ LeadBound \in Nat /\ RunBound \in Nat
           /\ 1..leads \subseteq LeadIds /\ 1..leads \subseteq 0..leads
           /\ 1..runs \subseteq 0..runs
  BY DEF LeadInv, RowsInv, RowsTyped, LeadBounds, LeadIds

LEMMA RowFields ==
    ASSUME NEW row \in LeadRows
    PROVE  /\ row.email \in Emails /\ row.run \in 0..RunBound /\ row.status \in LeadStatuses
           /\ row.qualified \in BOOLEAN /\ row.converted \in BOOLEAN /\ row.lost \in BOOLEAN
  BY DEF LeadRows

LEMMA RowsOfLeads ==
    ASSUME LeadBounds, LeadInv, NEW l \in 1..leads PROVE lead[l] \in LeadRows /\ l \in LeadIds
  BY Bounds DEF LeadInv, RowsInv, RowsTyped

LEMMA EndedRuns ==
    ASSUME LeadBounds, LeadInv, NEW r \in RunIds, outcome[r] # "none" PROVE r \in 1..runs
  BY Bounds DEF LeadInv, RowsInv, RowsTyped, RunIds

(* The parts together.                                                     *)
LEMMA Together ==
    ASSUME LeadBounds, LeadInv, RowsInv', Grown, NEW v \in Visits,
           Leaves(v) \/ UNCHANGED visit, UNCHANGED bought
    PROVE  LeadInv' /\ Grown
  BY Bounds, VisitsKept, BoughtKept DEF LeadInv

LEMMA LooksAtNothing ==
    ASSUME LeadBounds, LeadInv, NEW v \in Visits, NEW e \in Emails, NEW r \in RunIds,
           Intake(v, e) \/ Capture(v, r, e)
    PROVE  LeadInv' /\ Grown
<1> DEFINE seen == LeadRow(e, 0, "NEW", FALSE, FALSE, FALSE)
<1>1. seen \in LeadRows
  <2>1. 0 \in 0..RunBound /\ "NEW" \in LeadStatuses
    BY Bounds DEF LeadStatuses
  <2> QED BY <2>1, RowTyped
<1>2. "NEW" \in LeadStatuses /\ "intake" \in VisitOps /\ "capture" \in VisitOps
  BY DEF LeadStatuses, VisitOps
<1> HIDE DEF seen
<1>3. CASE LooksFirst(v, "intake", 0, 0, "NEW", seen)
  BY <1>1, <1>2, <1>3, Bounds, LookKeeps
<1>4. CASE outcome[r] = "SUCCEEDED" /\ LooksFirst(v, "capture", 0, r, "NEW", seen)
  <2>1. r \in 0..runs
    BY <1>4, EndedRuns, Bounds
  <2> QED BY <1>1, <1>2, <1>4, <2>1, Bounds, LookKeeps
<1> QED BY <1>3, <1>4 DEF Intake, Capture, seen

LEMMA LooksAtLead ==
    ASSUME LeadBounds, LeadInv, NEW v \in Visits, NEW l \in 1..leads,
           NEW to \in LeadStatuses, NEW op \in {"patch", "status"},
           StartAudit(v, l) \/ MoveLead(v, op, l, to)
    PROVE  LeadInv' /\ Grown
<1>1. /\ l \in 0..leads /\ l # 0 /\ lead[l] \in LeadRows /\ NoLead \in LeadRows
  BY Bounds, RowsOfLeads, NoLeadTyped
<1>2. /\ "QUALIFIED" \in LeadStatuses /\ op \in VisitOps /\ "start" \in VisitOps
      /\ 0 \in 0..RunBound
  BY Bounds DEF LeadStatuses, VisitOps
<1>3. /\ WithStatus(NoLead, lead[l].status) \in LeadRows
      /\ WithStatus(NoLead, lead[l].status).status = lead[l].status
  <2>1. WithStatus(NoLead, lead[l].status) \in LeadRows
    BY <1>1, RowFields, RowTyped DEF WithStatus
  <2> QED BY <2>1 DEF WithStatus, LeadRow
<1>4. Seen(op, lead[l]) \in LeadRows /\ Seen(op, lead[l]).status = lead[l].status
  <2>1. CASE op = "patch"
    <3>1. Seen(op, lead[l]) \in LeadRows
      BY <1>1, <1>2, <2>1, RowFields, RowTyped DEF Seen
    <3> QED BY <2>1, <3>1 DEF Seen, LeadRow
  <2>2. CASE op # "patch"
    BY <1>3, <2>2 DEF Seen
  <2> QED BY <2>1, <2>2
<1>5. CASE StartAudit(v, l)
  <2>1. LooksFirst(v, "start", l, 0, "QUALIFIED", WithStatus(NoLead, lead[l].status))
    BY <1>5 DEF StartAudit
  <2> QED BY <1>1, <1>2, <1>3, <2>1, Bounds, LookKeeps
<1>6. CASE MoveLead(v, op, l, to)
  <2>1. /\ LooksFirst(v, op, l, 0, to, Seen(op, lead[l]))
        /\ CanTransition(Seen(op, lead[l]).status, to)
    BY <1>4, <1>6 DEF MoveLead
  <2> QED BY <1>1, <1>2, <1>4, <2>1, Bounds, LookKeeps
<1> QED BY <1>5, <1>6

LEMMA VisitTyped ==
    ASSUME LeadInv, NEW v \in Visits
    PROVE  /\ visit[v].to \in LeadStatuses /\ visit[v].seen \in LeadRows
           /\ visit[v].run \in 0..RunBound /\ visit[v].run <= runs
           /\ visit[v].op \in {"patch", "status", "start"} => visit[v].lead \in 1..leads
           /\ visit[v].op \in {"patch", "status"} =>
                 CanTransition(visit[v].seen.status, visit[v].to)
  BY DEF LeadInv, VisitsInv, VisitType

LEMMA CreatesLead ==
    ASSUME LeadBounds, LeadInv, NEW v \in Visits, CreateIntake(v) \/ CreateCapture(v)
    PROVE  LeadInv' /\ Grown
<1>1. /\ visit[v].seen.email \in Emails /\ visit[v].run \in 0..runs
      /\ UNCHANGED <<runVars, bought, reopened>> /\ Leaves(v)
  BY VisitTyped, RowFields, Bounds DEF CreateIntake, CreateCapture
<1>2. CASE CreateIntake(v)
  BY <1>1, <1>2, Bounds, RowsMade, Together DEF CreateIntake, LeadInv
<1>3. CASE CreateCapture(v)
  BY <1>1, <1>3, Bounds, RowsMade, Together DEF CreateCapture, LeadInv
<1> QED BY <1>2, <1>3

LEMMA EnqueuesAudit ==
    ASSUME LeadBounds, LeadInv, NEW v \in Visits, EnqueueAudit(v)
    PROVE  LeadInv' /\ Grown
<1> DEFINE l == visit[v].lead
<1>1. l \in 1..leads /\ Leaves(v) /\ UNCHANGED bought
  BY VisitTyped DEF EnqueueAudit
<1>2. CASE UNCHANGED <<tableVars, runVars, reopened>>
  <2>1. RowsInv' /\ Grown
    BY <1>2, SameRows DEF LeadInv, RowsInv, RowsTyped, NoRunForNobody, StampsExplainStatus,
                          ReopenedByStartOrStale, Unmade, tableVars, runVars
  <2> QED BY <1>1, <2>1, Together
<1>3. CASE /\ keyed[l] = 0 /\ lead[l].run = 0
           /\ MakesRun(l) /\ Links(l, runs + 1, visit[v].seen.status)
  BY <1>1, <1>3, RowsLinked, Together DEF LeadInv
<1> QED BY <1>2, <1>3 DEF EnqueueAudit

(* Who moves a lead on leaves an end only when the status was another.     *)
LEMMA MovesLead ==
    ASSUME LeadBounds, LeadInv, NEW v \in Visits, PatchLead(v) \/ PostStatus(v)
    PROVE  LeadInv' /\ Grown
<1> DEFINE l    == visit[v].lead
           to   == visit[v].to
           seen == visit[v].seen
           was  == lead[l]
<1>1. /\ l \in 1..leads /\ to \in LeadStatuses /\ seen \in LeadRows
      /\ CanTransition(seen.status, to) /\ was \in LeadRows
  BY VisitTyped, RowsOfLeads DEF PatchLead, PostStatus
<1>2. /\ Leaves(v) /\ UNCHANGED <<runVars, bought>>
  BY DEF PatchLead, PostStatus
<1>3. \E q, c, x \in BOOLEAN :
         /\ to = "QUALIFIED" => q
         /\ to = "CONVERTED" => c
         /\ to = "LOST" => x
         /\ Writes(l, LeadRow(was.email, was.run, to, q, c, x), "route", seen.status)
  <2>1. CASE PatchLead(v)
    <3> DEFINE q == to = "QUALIFIED" \/ seen.qualified
               c == to = "CONVERTED" \/ (to # "LOST" /\ seen.converted)
               x == to = "LOST" \/ (to # "CONVERTED" /\ seen.lost)
    <3>1. q \in BOOLEAN /\ c \in BOOLEAN /\ x \in BOOLEAN
      OBVIOUS
    <3>2. Writes(l, LeadRow(was.email, was.run, to, q, c, x), "route", seen.status)
      BY <2>1 DEF PatchLead
    <3> QED BY <3>1, <3>2
  <2>2. CASE PostStatus(v)
    <3> DEFINE q == to = "QUALIFIED" \/ was.qualified
               c == to = "CONVERTED" \/ was.converted
               x == to = "LOST" \/ was.lost
    <3>1. q \in BOOLEAN /\ c \in BOOLEAN /\ x \in BOOLEAN
      OBVIOUS
    <3>2. Writes(l, LeadRow(was.email, was.run, to, q, c, x), "route", seen.status)
      BY <2>2 DEF PostStatus
    <3> QED BY <3>1, <3>2
  <2> QED BY <2>1, <2>2
<1>4. PICK q \in BOOLEAN, c \in BOOLEAN, x \in BOOLEAN :
         /\ to = "QUALIFIED" => q
         /\ to = "CONVERTED" => c
         /\ to = "LOST" => x
         /\ Writes(l, LeadRow(was.email, was.run, to, q, c, x), "route", seen.status)
  BY <1>3
<1> DEFINE row == LeadRow(was.email, was.run, to, q, c, x)
<1>5. row \in LeadRows
  BY <1>1, RowFields, RowTyped
<1>6. /\ row.run = was.run /\ row.email = was.email /\ row.status = to
      /\ row.qualified = q /\ row.converted = c /\ row.lost = x
  BY DEF LeadRow
<1>7. IsTerminalStatus(was.status) /\ to # was.status => seen.status # was.status
  BY <1>1, RowFields, EndsStay
<1> HIDE DEF row
<1>8. RowsInv' /\ Grown
  <2>1. RowsInv /\ Writes(l, row, "route", seen.status) /\ UNCHANGED runVars
    BY <1>2, <1>4 DEF LeadInv, row
  <2> QED BY <1>1, <1>4, <1>5, <1>6, <1>7, <2>1, RowsWritten
<1> QED BY <1>2, <1>8, Together

LEMMA OrdersReport ==
    ASSUME LeadBounds, LeadInv, NEW r \in RunIds, NEW e \in Emails, OrderReport(r, e)
    PROVE  LeadInv' /\ Grown
<1>1. r \in 1..runs /\ r \in 0..runs /\ UNCHANGED <<runVars, visit>>
  BY EndedRuns, Bounds DEF OrderReport
<1>2. PICK l \in LeadIds :
         /\ bought' = bought \cup {[run |-> r, email |-> e, lead |-> l]}
         /\ RowsInv' /\ Grown
         /\ l <= leads' /\ lead'[l].run = r /\ lead'[l].email = e
  <2>1. CASE /\ MakesLead(e, r, "REPORT_READY") /\ UNCHANGED reopened
             /\ bought' = bought \cup {[run |-> r, email |-> e, lead |-> leads + 1]}
    <3>1. /\ RowsInv' /\ Grown /\ leads' \in LeadIds /\ leads' = leads + 1
          /\ lead'[leads'].run = r /\ lead'[leads'].email = e
      BY <1>1, <2>1, RowsMade DEF LeadInv, MakesLead
    <3> QED BY <2>1, <3>1 DEF LeadIds
  <2>2. ASSUME NEW l \in LeadsOf(r, e),
               IF LeftAlone(lead[l].status)
               THEN UNCHANGED <<tableVars, reopened>>
               ELSE Writes(l, WithStatus(lead[l], "REPORT_READY"), "order", lead[l].status),
               bought' = bought \cup {[run |-> r, email |-> e, lead |-> l]}
        PROVE  \E m \in LeadIds :
                  /\ bought' = bought \cup {[run |-> r, email |-> e, lead |-> m]}
                  /\ RowsInv' /\ Grown
                  /\ m <= leads' /\ lead'[m].run = r /\ lead'[m].email = e
    <3>1. /\ l \in 1..leads /\ lead[l].run = r /\ lead[l].email = e
          /\ lead[l] \in LeadRows /\ l \in LeadIds
      BY RowsOfLeads DEF LeadsOf
    <3>2. RowsInv' /\ Grown
      <4>1. CASE LeftAlone(lead[l].status)
        BY <1>1, <2>2, <4>1, SameRows
        DEF LeadInv, RowsInv, RowsTyped, NoRunForNobody, StampsExplainStatus,
            ReopenedByStartOrStale, Unmade, tableVars, runVars
      <4>2. CASE ~LeftAlone(lead[l].status)
        <5> DEFINE row == WithStatus(lead[l], "REPORT_READY")
        <5>1. row \in LeadRows
          <6>1. "REPORT_READY" \in LeadStatuses
            BY DEF LeadStatuses
          <6> QED BY <3>1, <6>1, RowFields, RowTyped DEF WithStatus
        <5>2. row.run = lead[l].run /\ row.email = lead[l].email /\ row.status = "REPORT_READY"
          BY DEF WithStatus, LeadRow
        <5>3. ~IsTerminalStatus(lead[l].status)
          BY <3>1, <4>2, RowFields, OpenStatuses
        <5>4. RowsInv /\ Writes(l, row, "order", lead[l].status) /\ UNCHANGED runVars
          BY <1>1, <2>2, <4>2 DEF LeadInv
        <5> HIDE DEF row
        <5> QED BY <3>1, <5>1, <5>2, <5>3, <5>4, RowsWritten
      <4> QED BY <4>1, <4>2
    <3>3. l <= leads' /\ lead'[l].run = r /\ lead'[l].email = e
      <4>1. r # 0
        BY DEF RunIds
      <4> QED BY <3>1, <3>2, <4>1, Bounds DEF Grown
    <3> QED BY <2>2, <3>1, <3>2, <3>3
  <2> QED BY <2>1, <2>2 DEF OrderReport
<1>3. VisitsInv'
  BY <1>1, <1>2, Bounds DEF LeadInv, VisitsInv, Grown, CanTransition, LeadBounds, VisitType
<1>4. BoughtInv'
  <2> DEFINE order == [run |-> r, email |-> e, lead |-> l]
  <2>1. /\ order \in [run : RunIds, email : Emails, lead : LeadIds]
        /\ order.run = r /\ order.email = e /\ order.lead = l
    OBVIOUS
  <2>2. \A o \in bought : /\ o.lead \in LeadIds /\ o.lead \in 1..leads /\ o.run # 0
                         /\ lead[o.lead].run = o.run /\ lead[o.lead].email = o.email
    BY Bounds DEF LeadInv, BoughtInv, OrdersKeepTheirLead, LeadIds, RunIds
  <2>3. \A o \in bought : o.lead <= leads' /\ lead'[o.lead].run = o.run
                         /\ lead'[o.lead].email = o.email
    BY <1>2, <2>2, Bounds DEF Grown
  <2> HIDE DEF order
  <2>4. bought' = bought \cup {order}
    BY <1>2 DEF order
  <2> QED BY <1>2, <2>1, <2>3, <2>4 DEF LeadInv, BoughtInv, OrdersKeepTheirLead
<1> QED BY <1>2, <1>3, <1>4 DEF LeadInv

LEMMA TimePasses ==
    ASSUME LeadBounds, LeadInv, NEW l, NEW r \in RunIds,
           WeekPasses(l) \/ RunEnds(r) \/ ForgetKey(l) \/ UNCHANGED leadVars
    PROVE  LeadInv' /\ Grown
<1>1. /\ UNCHANGED <<lead, leads, runs, runFor, reopened, visit, bought>>
      /\ fresh' \subseteq fresh
  BY DEF WeekPasses, RunEnds, ForgetKey, leadVars, tableVars, runVars
<1>2. /\ outcome' \in [RunIds -> Outcomes]
      /\ \A x \in RunIds : x > runs => outcome'[x] = "none"
  <2>1. CASE RunEnds(r)
    BY <2>1, Bounds DEF RunEnds, LeadInv, RowsInv, RowsTyped, Outcomes, RunIds
  <2>2. CASE UNCHANGED outcome
    BY <2>2 DEF LeadInv, RowsInv, RowsTyped
  <2> QED BY <2>1, <2>2 DEF WeekPasses, ForgetKey, leadVars, runVars
<1>3. keyed' \in [LeadIds -> 0..RunBound] /\ \A m \in LeadIds : keyed'[m] <= runs
  <2>1. CASE ForgetKey(l)
    <3>1. 0 \in 0..RunBound /\ 0 <= runs
      BY Bounds
    <3>2. /\ keyed \in [LeadIds -> 0..RunBound] /\ \A m \in LeadIds : keyed[m] <= runs
          /\ keyed' = [keyed EXCEPT ![l] = 0]
      BY <2>1 DEF ForgetKey, LeadInv, RowsInv, RowsTyped
    <3>3. \A m \in LeadIds : keyed'[m] = keyed[m] \/ keyed'[m] = 0
      BY <3>2
    <3> QED BY <3>1, <3>2, <3>3
  <2>2. CASE UNCHANGED keyed
    BY <2>2 DEF LeadInv, RowsInv, RowsTyped
  <2> QED BY <2>1, <2>2 DEF WeekPasses, RunEnds, leadVars, runVars
<1>4. RowsInv'
  BY <1>1, <1>2, <1>3 DEF LeadInv, RowsInv, RowsTyped, NoRunForNobody, StampsExplainStatus,
                          ReopenedByStartOrStale, Unmade
<1>5. VisitsInv' /\ BoughtInv'
  BY <1>1 DEF LeadInv, VisitsInv, BoughtInv, OrdersKeepTheirLead, CanTransition
<1>6. Grown
  BY <1>1, SameRows DEF LeadInv
<1> QED BY <1>4, <1>5, <1>6 DEF LeadInv

LEMMA LeadStep ==
    ASSUME LeadBounds, LeadInv, [LeadNext]_leadVars PROVE LeadInv' /\ Grown
<1>1. ASSUME NEW v \in Visits, VisitStep(v) PROVE LeadInv' /\ Grown
  <2>1. CASE VisitDies(v)
    <3>1. Leaves(v) /\ UNCHANGED <<lead, leads, fresh, runs, outcome, runFor, keyed,
                                   bought, reopened>>
      BY <2>1 DEF VisitDies, tableVars, runVars
    <3>2. RowsInv' /\ Grown
      BY <3>1, SameRows DEF LeadInv, RowsInv, RowsTyped, NoRunForNobody,
                            StampsExplainStatus, ReopenedByStartOrStale, Unmade
    <3> QED BY <3>1, <3>2, Together
  <2>2. 1 \in RunIds /\ "NEW" \in LeadStatuses
    BY DEF LeadBounds, RunIds, LeadStatuses
  <2> QED BY <1>1, <2>1, <2>2, LooksAtNothing, LooksAtLead, CreatesLead, EnqueuesAudit,
             MovesLead DEF VisitStep
<1>2. ASSUME NEW r \in RunIds, NEW e \in Emails, OrderReport(r, e)
      PROVE  LeadInv' /\ Grown
  BY <1>2, OrdersReport
<1>3. CASE \/ \E r \in RunIds : RunEnds(r)
           \/ \E l \in LeadIds : WeekPasses(l) \/ ForgetKey(l)
           \/ UNCHANGED leadVars
  <2>1. 1 \in RunIds
    BY DEF LeadBounds, RunIds
  <2> QED BY <1>3, <2>1, TimePasses
<1> QED BY <1>1, <1>2, <1>3 DEF LeadNext
LEMMA LeadsInvariant == ASSUME LeadBounds PROVE LeadSpec => []LeadInv
<1>1. LeadInit => LeadInv
  BY LeadsInitially
<1>2. LeadInv /\ [LeadNext]_leadVars => LeadInv'
  BY LeadStep
<1> QED BY <1>1, <1>2, PTL DEF LeadSpec

-----------------------------------------------------------------------------
(* The tables have their types, and what is referred to exists, for any    *)
(* addresses and any number of requests, leads and runs.                   *)
THEOREM LeadTypesKept == ASSUME LeadBounds PROVE LeadSpec => []LeadTypeOK
  BY LeadsInvariant, InvTypes, PTL

(* Every run made for a lead is that lead's run, however many start its    *)
(* audit at once and whenever the key of its job is cleaned up.            *)
THEOREM RunsAreForLeads == ASSUME LeadBounds PROVE LeadSpec => []NoRunForNobody
<1>1. LeadInv => NoRunForNobody
  BY DEF LeadInv, RowsInv
<1> QED BY <1>1, LeadsInvariant, PTL

(* No interleaving of the routes leaves QUALIFIED, CONVERTED or LOST       *)
(* without its stamp, although PATCH writes the stamps it has seen.        *)
THEOREM StampsKept == ASSUME LeadBounds PROVE LeadSpec => []StampsExplainStatus
<1>1. LeadInv => StampsExplainStatus
  BY DEF LeadInv, RowsInv
<1> QED BY <1>1, LeadsInvariant, PTL

(* An end is left by the start of an audit or by who has not seen it.      *)
THEOREM EndsLeftKnowingly == ASSUME LeadBounds PROVE LeadSpec => []ReopenedByStartOrStale
<1>1. LeadInv => ReopenedByStartOrStale
  BY DEF LeadInv, RowsInv
<1> QED BY <1>1, LeadsInvariant, PTL

(* The lead an order was linked to stays one of its run and its address.   *)
THEOREM OrdersStayLinked == ASSUME LeadBounds PROVE LeadSpec => []OrdersKeepTheirLead
<1>1. LeadInv => OrdersKeepTheirLead
  BY DEF LeadInv, BoughtInv
<1> QED BY <1>1, LeadsInvariant, PTL

(* No step takes a run from its lead or gives the lead another one.        *)
THEOREM RunsStayLinked == ASSUME LeadBounds PROVE LeadSpec => RunStaysLinked
<1>1. LeadInv /\ [LeadNext]_leadVars
         => [\A l \in LeadIds : lead[l].run # 0 => lead'[l].run = lead[l].run]_leadVars
  BY LeadStep DEF Grown
<1> QED BY <1>1, LeadsInvariant, PTL DEF LeadSpec, RunStaysLinked
=============================================================================
