--------------------------- MODULE LeadLifecycle ---------------------------
(***************************************************************************)
(* The rows of "AuditLead" and everybody who writes them.                  *)
(*                                                                         *)
(*   src/app/api/leads                            the form of the site     *)
(*   src/app/api/reports/[token]/capture          a reader of a report     *)
(*   src/lib/order-checkout.ts                    whoever buys a report    *)
(*   src/app/api/admin/leads/[id]/start-audit     an administrator starts  *)
(*                                                the audit of a lead      *)
(*   src/app/api/admin/leads/[id], [id]/status    or moves the lead on     *)
(*                                                                         *)
(* An order and the start of an audit are one serializable transaction.    *)
(* The other routes look first and write in another call, with what they   *)
(* saw.  Leads and runs are numbered in the order they are made; leads are *)
(* about one site.  A time stamp is set or not; who says LOST gives a      *)
(* reason.                                                                 *)
(***************************************************************************)
EXTENDS Naturals

CONSTANTS
    Emails,     \* addresses people give
    Visits,     \* requests that look first and write later, at a time
    LeadBound,  \* bound: leads that are made
    RunBound    \* bound: audit runs that are made

(* What the theorems ask of them.                                          *)
LeadBounds == LeadBound \in Nat /\ RunBound \in Nat \ {0} /\ Emails # {}

VARIABLES
    lead,      \* table "AuditLead"
    leads,     \* how many there are
    runs,      \* how many runs there are
    outcome,   \* how each run ended
    runFor,    \* the lead each run was made for, 0 for none
    keyed,     \* the run whose job holds the lead's key, 0 for none
    fresh,     \* leads of the last seven days
    visit,     \* where each request is
    bought,    \* history: orders, with the lead they were linked to
    reopened   \* history: leads that left CONVERTED or LOST, and how

tableVars == <<lead, leads, fresh>>
runVars   == <<runs, outcome, runFor, keyed>>
leadVars  == <<tableVars, runVars, visit, bought, reopened>>

LeadStatuses == {"NEW", "QUALIFIED", "AUDIT_STARTED", "REPORT_READY",
                 "DELIVERED", "CONVERTED", "LOST"}
VisitOps     == {"idle", "intake", "capture", "patch", "status", "start"}
Outcomes     == {"none", "SUCCEEDED", "FAILED"}
LeadIds      == 1..LeadBound
RunIds       == 1..RunBound

(* VALID_TRANSITIONS.                                                      *)
NextStatus == [NEW           |-> {"QUALIFIED", "LOST"},
               QUALIFIED     |-> {"AUDIT_STARTED", "LOST"},
               AUDIT_STARTED |-> {"REPORT_READY", "LOST"},
               REPORT_READY  |-> {"DELIVERED", "LOST"},
               DELIVERED     |-> {"CONVERTED", "LOST"},
               CONVERTED     |-> {},
               LOST          |-> {}]

CanTransition(from, to)  == from = to \/ to \in NextStatus[from]
IsTerminalStatus(status) == NextStatus[status] = {}

(* A row with its email, its run (0 for none), its status and the stamps   *)
(* qualifiedAt, convertedAt and lostAt.                                    *)
LeadRow(email, run, status, qualified, converted, lost) ==
    [email |-> email, run |-> run, status |-> status, qualified |-> qualified,
     converted |-> converted, lost |-> lost]

AnyEmail == CHOOSE e \in Emails : TRUE
NoLead   == LeadRow(AnyEmail, 0, "NEW", FALSE, FALSE, FALSE)
NoVisit  == [op |-> "idle", lead |-> 0, run |-> 0, to |-> "NEW", seen |-> NoLead]

(* One run was asked for without a lead, by somebody who may hand its      *)
(* report on.                                                              *)
LeadInit ==
    /\ lead = [l \in LeadIds |-> NoLead]
    /\ leads = 0
    /\ runs = 1
    /\ outcome = [r \in RunIds |-> "none"]
    /\ runFor = [r \in RunIds |-> 0]
    /\ keyed = [l \in LeadIds |-> 0]
    /\ fresh = {}
    /\ visit = [v \in Visits |-> NoVisit]
    /\ bought = {}
    /\ reopened = {}

-----------------------------------------------------------------------------
(* A row is inserted.                                                      *)

MakesLead(email, run, status) ==
    /\ leads < LeadBound
    /\ leads' = leads + 1
    /\ lead' = [lead EXCEPT ![leads + 1] =
                   LeadRow(email, run, status, FALSE, FALSE, FALSE)]
    /\ fresh' = fresh \cup {leads + 1}

(* A row changes; leaving an end is noted, with what the writer had seen.  *)
Writes(l, row, by, seen) ==
    /\ lead' = [lead EXCEPT ![l] = row]
    /\ reopened' = IF IsTerminalStatus(lead[l].status) /\ row.status # lead[l].status
                   THEN reopened \cup {[lead |-> l, by |-> by,
                                        stale |-> seen # lead[l].status]}
                   ELSE reopened
    /\ UNCHANGED <<leads, fresh>>

LooksFirst(v, op, l, run, to, seen) ==
    /\ visit[v].op = "idle"
    /\ visit' = [visit EXCEPT ![v] =
          [op |-> op, lead |-> l, run |-> run, to |-> to, seen |-> seen]]
    /\ UNCHANGED <<tableVars, runVars, bought, reopened>>

Leaves(v) == visit' = [visit EXCEPT ![v] = NoVisit]

-----------------------------------------------------------------------------
(* POST /api/leads: the same address about the same site counts once in    *)
(* seven days.  A request that finds one writes nothing.                   *)

Intake(v, email) ==
    /\ \A l \in fresh : lead[l].email # email
    /\ LooksFirst(v, "intake", 0, 0, "NEW", LeadRow(email, 0, "NEW", FALSE, FALSE, FALSE))

CreateIntake(v) ==
    /\ visit[v].op = "intake"
    /\ MakesLead(visit[v].seen.email, 0, "NEW")
    /\ Leaves(v)
    /\ UNCHANGED <<runVars, bought, reopened>>

WeekPasses(l) ==
    /\ l \in fresh
    /\ fresh' = fresh \ {l}
    /\ UNCHANGED <<lead, leads, runVars, visit, bought, reopened>>

(* POST /api/reports/[token]/capture.                                      *)
LeadsOf(run, email) == {l \in 1..leads : lead[l].run = run /\ lead[l].email = email}

Capture(v, run, email) ==
    /\ outcome[run] = "SUCCEEDED"
    /\ LeadsOf(run, email) = {}
    /\ LooksFirst(v, "capture", 0, run, "NEW",
                  LeadRow(email, 0, "NEW", FALSE, FALSE, FALSE))

CreateCapture(v) ==
    /\ visit[v].op = "capture"
    /\ MakesLead(visit[v].seen.email, visit[v].run, "REPORT_READY")
    /\ Leaves(v)
    /\ UNCHANGED <<runVars, bought, reopened>>

-----------------------------------------------------------------------------
(* updateLeadForOrder, in the transaction that inserts the order.          *)

WithStatus(row, status) ==
    LeadRow(row.email, row.run, status, row.qualified, row.converted, row.lost)

LeftAlone(status) == status \in {"CONVERTED", "LOST", "REPORT_READY"}

OrderReport(run, email) ==
    LET found == LeadsOf(run, email) IN
    /\ outcome[run] = "SUCCEEDED"
    /\ \/ /\ found = {}
          /\ MakesLead(email, run, "REPORT_READY")
          /\ bought' = bought \cup {[run |-> run, email |-> email, lead |-> leads + 1]}
          /\ UNCHANGED reopened
       \/ \E l \in found :
             /\ \A other \in found : other <= l
             /\ IF LeftAlone(lead[l].status)
                THEN UNCHANGED <<tableVars, reopened>>
                ELSE Writes(l, WithStatus(lead[l], "REPORT_READY"), "order", lead[l].status)
             /\ bought' = bought \cup {[run |-> run, email |-> email, lead |-> l]}
    /\ UNCHANGED <<runVars, visit>>

-----------------------------------------------------------------------------
(* start-audit: a lead that has a run is answered with it.                 *)

StartAudit(v, l) ==
    /\ lead[l].run = 0
    /\ LooksFirst(v, "start", l, 0, "QUALIFIED", WithStatus(NoLead, lead[l].status))

MakesRun(l) ==
    /\ runs < RunBound
    /\ runs' = runs + 1
    /\ runFor' = [runFor EXCEPT ![runs + 1] = l]
    /\ keyed' = [keyed EXCEPT ![l] = runs + 1]
    /\ UNCHANGED outcome

Links(l, run, seen) ==
    Writes(l, LeadRow(lead[l].email, run, "QUALIFIED", TRUE,
                      lead[l].converted, lead[l].lost), "start", seen)

(* enqueueAuditAtomically: a job with the lead's key answers for the run   *)
(* it has.  Otherwise the run, its job and the link to the lead are made   *)
(* together, or, when the lead has got a run meanwhile, not at all.        *)
EnqueueAudit(v) ==
    LET l == visit[v].lead IN
    /\ visit[v].op = "start"
    /\ \/ keyed[l] # 0 /\ UNCHANGED <<tableVars, runVars, reopened>>
       \/ keyed[l] = 0 /\ lead[l].run # 0 /\ UNCHANGED <<tableVars, runVars, reopened>>
       \/ /\ keyed[l] = 0 /\ lead[l].run = 0
          /\ MakesRun(l)
          /\ Links(l, runs + 1, visit[v].seen.status)
    /\ Leaves(v)
    /\ UNCHANGED bought

(* The worker ends a run.                                                  *)
RunEnds(run) ==
    /\ run <= runs /\ outcome[run] = "none"
    /\ \E how \in {"SUCCEEDED", "FAILED"} : outcome' = [outcome EXCEPT ![run] = how]
    /\ UNCHANGED <<tableVars, runs, runFor, keyed, visit, bought, reopened>>

(* cleanupStaleJobs deletes the job of a run that ended, and its key.      *)
ForgetKey(l) ==
    /\ keyed[l] # 0 /\ outcome[keyed[l]] # "none"
    /\ keyed' = [keyed EXCEPT ![l] = 0]
    /\ UNCHANGED <<tableVars, runs, outcome, runFor, visit, bought, reopened>>

-----------------------------------------------------------------------------
(* An administrator moves a lead on, through either route.                 *)

Seen(op, row) == IF op = "patch" THEN LeadRow(row.email, 0, row.status, row.qualified,
                                              row.converted, row.lost)
                                ELSE WithStatus(NoLead, row.status)

MoveLead(v, op, l, to) ==
    /\ CanTransition(lead[l].status, to)
    /\ LooksFirst(v, op, l, 0, to, Seen(op, lead[l]))

(* PATCH [id] writes all stamps: its own, and the others as it saw them.   *)
PatchLead(v) ==
    LET l    == visit[v].lead
        to   == visit[v].to
        seen == visit[v].seen
    IN
    /\ visit[v].op = "patch"
    /\ Writes(l, LeadRow(lead[l].email, lead[l].run, to,
                         to = "QUALIFIED" \/ seen.qualified,
                         to = "CONVERTED" \/ (to # "LOST" /\ seen.converted),
                         to = "LOST" \/ (to # "CONVERTED" /\ seen.lost)),
              "route", seen.status)
    /\ Leaves(v)
    /\ UNCHANGED <<runVars, bought>>

(* POST [id]/status writes its own stamp.                                  *)
PostStatus(v) ==
    LET l  == visit[v].lead
        to == visit[v].to
    IN
    /\ visit[v].op = "status"
    /\ Writes(l, LeadRow(lead[l].email, lead[l].run, to,
                         to = "QUALIFIED" \/ lead[l].qualified,
                         to = "CONVERTED" \/ lead[l].converted,
                         to = "LOST" \/ lead[l].lost),
              "route", visit[v].seen.status)
    /\ Leaves(v)
    /\ UNCHANGED <<runVars, bought>>

(* The call fails, or the process ends, between the two.                   *)
VisitDies(v) ==
    /\ visit[v].op # "idle"
    /\ Leaves(v)
    /\ UNCHANGED <<tableVars, runVars, bought, reopened>>

VisitStep(v) ==
    \/ \E e \in Emails : Intake(v, e) \/ (\E r \in RunIds : Capture(v, r, e))
    \/ \E l \in 1..leads :
          \/ StartAudit(v, l)
          \/ \E to \in LeadStatuses, op \in {"patch", "status"} : MoveLead(v, op, l, to)
    \/ CreateIntake(v) \/ CreateCapture(v) \/ EnqueueAudit(v)
    \/ PatchLead(v) \/ PostStatus(v) \/ VisitDies(v)

LeadNext ==
    \/ \E v \in Visits : VisitStep(v)
    \/ \E r \in RunIds : RunEnds(r) \/ (\E e \in Emails : OrderReport(r, e))
    \/ \E l \in LeadIds : WeekPasses(l) \/ ForgetKey(l)

LeadSpec == LeadInit /\ [][LeadNext]_leadVars

-----------------------------------------------------------------------------
(* Properties.                                                             *)

LeadRows == [email : Emails, run : 0..RunBound, status : LeadStatuses,
             qualified : BOOLEAN, converted : BOOLEAN, lost : BOOLEAN]

(* Type invariant; what is referred to exists.                             *)
LeadTypeOK ==
    /\ leads \in 0..LeadBound
    /\ runs \in 1..RunBound
    /\ lead \in [LeadIds -> LeadRows]
    /\ \A l \in LeadIds : lead[l].run <= runs /\ keyed[l] <= runs
    /\ outcome \in [RunIds -> Outcomes]
    /\ runFor \in [RunIds -> 0..LeadBound]
    /\ \A r \in RunIds : runFor[r] <= leads /\ (r > runs => outcome[r] = "none")
    /\ keyed \in [LeadIds -> 0..RunBound]
    /\ fresh \subseteq 1..leads
    /\ visit \in [Visits -> [op : VisitOps, lead : 0..LeadBound, run : 0..RunBound,
                             to : LeadStatuses, seen : LeadRows]]
    /\ bought \subseteq [run : RunIds, email : Emails, lead : LeadIds]
    /\ reopened \subseteq [lead : LeadIds, by : {"order", "start", "route"},
                           stale : BOOLEAN]

(* A lead that has a run keeps it: not a second click, not one whose key   *)
(* was cleaned up, and no route that writes the rest of the row moves it.  *)
RunStaysLinked ==
    [][\A l \in LeadIds : lead[l].run # 0 => lead'[l].run = lead[l].run]_leadVars

(* Every run made for a lead is that lead's run: there is one, however     *)
(* many administrators start the audit at once, and none is left behind    *)
(* that is worked on for nobody.                                           *)
NoRunForNobody ==
    \A r \in RunIds : runFor[r] # 0 => lead[runFor[r]].run = r

(* The lead of an order is a lead of the run and of the address that the   *)
(* order is for, from then on.                                             *)
OrdersKeepTheirLead ==
    \A o \in bought : lead[o.lead].run = o.run /\ lead[o.lead].email = o.email

(* A status that has a stamp has it, whichever of the routes that write    *)
(* statuses and stamps came last, and whatever it had seen.                *)
StampsExplainStatus ==
    \A l \in LeadIds :
       /\ lead[l].status = "QUALIFIED" => lead[l].qualified
       /\ lead[l].status = "CONVERTED" => lead[l].converted
       /\ lead[l].status = "LOST"      => lead[l].lost

(* A lead that is CONVERTED or LOST is reopened by the start of an audit   *)
(* or by an administrator who has not seen it end; no order does it.       *)
ReopenedByStartOrStale ==
    \A x \in reopened : x.by = "start" \/ (x.stale /\ x.by # "order")
=============================================================================
