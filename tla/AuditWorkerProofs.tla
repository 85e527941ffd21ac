------------------------- MODULE AuditWorkerProofs -------------------------
(***************************************************************************)
(* What worker processes keep, for any jobs, runs, processes, concurrency  *)
(* and any number of crashes, stalls, faults and signals.                  *)
(*                                                                         *)
(* Everything a process does to the queue is one of the queue's own steps  *)
(* (UsesQueue), which brings QueueInv along.  WorkerInv adds what the      *)
(* slots know about the rows; ExclusionInv is about two slots or two jobs  *)
(* of one run, and needs that one retry request is under way at a time.    *)
(* The last part is about the clock of a slot's lease, on its own.         *)
(***************************************************************************)
EXTENDS AuditWorker, LeaseClock, JobQueueProofs

-----------------------------------------------------------------------------
(* The invariant.                                                          *)

(* Loop and slots: a slot that is asked for a job has none yet.            *)
BatchesKnown ==
    \A p \in Procs :
       /\ cycle[p] \in {"idle", "down"} => \A s \in SlotsOf(p) : ~Busy(s)
       /\ cycle[p] \in {"leasing", "resuming"} =>
             \A s \in SlotsOf(p) : s[2] > asked[p] => ~Busy(s)
       /\ cycle[p] \in {"idle", "working", "down"} => asked[p] = 0

LeasesKnown ==
    \A s \in Workers : Busy(s) => slot[s].lease \in issued /\ slot[s].lease.worker = s

SignalsKnown ==
    \A s \in Workers : stopping[s[1]] /\ slot[s].at = "leased" => slot[s].aborted

ResultsKnown ==
    \A s \in Workers : slot[s].at \in {"notify", "check"} => run[TheRun(s)].results

(* Leases lost so far, and the jobs whose attempt may be followed by       *)
(* another one: no live slot holds them.                                   *)
Lost    == spent["crashes"] + spent["stalls"] + spent["faults"]
Held(j) == \E s \in Workers : /\ Busy(s) /\ slot[s].lease.job = j
                              /\ Owns(slot[s].lease)
Waits(j) == \/ job[j].status \in {"ABSENT", "QUEUED"}
            \/ job[j].status = "RUNNING" /\ ~Held(j)

AttemptsKnown ==
    \A j \in Jobs : /\ job[j].attempt <= MaxAttempts + Lost
                    /\ Waits(j) => job[j].attempt < MaxAttempts + Lost

WorkerInv ==
    /\ QueueInv /\ TypeOK /\ BatchesKnown /\ LeasesKnown /\ SignalsKnown
    /\ ResultsKnown /\ SuccessHasResults /\ AttemptsKnown

-----------------------------------------------------------------------------
(* Types.                                                                  *)

SlotRows == [at : Places, lease : issued \cup {NoJobLease}, aborted : BOOLEAN,
             beating : BOOLEAN, left : 0 .. LeaseTicks]
RunRows  == [status : RunStatuses, error : BOOLEAN, results : BOOLEAN]
CycleStates == {"idle", "leasing", "resuming", "working", "down"}

(* A slot is a process and an index.                                       *)
LEMMA SlotParts ==
    ASSUME NEW s \in Workers
    PROVE  s[1] \in Procs /\ s[2] \in 1 .. Concurrency /\ s = <<s[1], s[2]>>
  BY SlotsAssumption

LEMMA LostType ==
    ASSUME TypeOK
    PROVE  /\ Lost \in Nat
           /\ \A b \in Budgets : spent[b] \in Nat
  BY DEF TypeOK, Budgets, Lost

LEMMA JobTypes ==
    ASSUME WorkerInv, NEW j \in Jobs
    PROVE  job[j] \in Rows /\ job[j].attempt \in Nat /\ job[j].lease \in Int
           /\ RunOf[j] \in Runs
  <1>1. job[j] \in Rows
    BY DEF WorkerInv, QueueInv, QueueTypeOK
  <1>2. QED
    BY <1>1, TicksAssumption, RunsAssumption DEF Rows

(* What a busy slot has.                                                   *)
LEMMA BusySlot ==
    ASSUME WorkerInv, NEW s \in Workers, Busy(s)
    PROVE  /\ slot[s].lease \in issued /\ slot[s].lease \in Leases
           /\ slot[s].lease.job \in Jobs /\ slot[s].lease.worker = s
           /\ slot[s].lease.attempt \in Nat /\ TheRun(s) \in Runs
  <1>1. slot[s].lease \in issued /\ slot[s].lease.worker = s
    BY DEF WorkerInv, LeasesKnown
  <1>2. slot[s].lease \in Leases
    BY <1>1 DEF WorkerInv, QueueInv, QueueTypeOK
  <1>3. slot[s].lease.job \in Jobs /\ slot[s].lease.attempt \in 1 .. AttemptBound
    BY <1>2 DEF Leases
  <1>4. QED
    BY <1>1, <1>2, <1>3, TicksAssumption, RunsAssumption DEF TheRun

(* One more of something is used up.                                       *)
LEMMA SpendFacts ==
    ASSUME spent \in [Budgets -> Nat], NEW b \in Budgets, NEW limit, Spend(b, limit)
    PROVE  /\ spent' \in [Budgets -> Nat] /\ spent'[b] = spent[b] + 1
           /\ \A c \in Budgets : c # b => spent'[c] = spent[c]
  BY DEF Spend

LEMMA FaultFacts ==
    ASSUME spent \in [Budgets -> Nat], Fault
    PROVE  /\ spent' \in [Budgets -> Nat] /\ spent'["faults"] = spent["faults"] + 1
           /\ \A c \in Budgets : c # "faults" => spent'[c] = spent[c]
           /\ Lost' = Lost + 1
  <1>1. /\ spent' \in [Budgets -> Nat] /\ spent'["faults"] = spent["faults"] + 1
        /\ \A c \in Budgets : c # "faults" => spent'[c] = spent[c]
    BY SpendFacts DEF Fault, Budgets
  <1>2. Lost' = Lost + 1
    BY <1>1 DEF Lost, Budgets
  <1>3. QED
    BY <1>1, <1>2

(* A slot goes on to its next call.                                        *)
LEMMA GotoFacts ==
    ASSUME slot \in [Workers -> SlotRows], NEW s \in Workers, NEW place \in Places,
           Goto(s, place)
    PROVE  /\ slot' \in [Workers -> SlotRows] /\ slot'[s].at = place
           /\ slot'[s].lease = slot[s].lease /\ slot'[s].aborted = slot[s].aborted
           /\ \A t \in Workers : t # s => slot'[t] = slot[t]
  <1>1. PICK row : row = [slot[s] EXCEPT !.at = place]
    OBVIOUS
  <1>2. /\ row \in SlotRows /\ row.at = place /\ row.lease = slot[s].lease
        /\ row.aborted = slot[s].aborted
    BY <1>1 DEF SlotRows
  <1>3. slot' = [slot EXCEPT ![s] = row]
    BY <1>1 DEF Goto
  <1>4. QED
    BY <1>2, <1>3

(* A slot gives up its lease.                                              *)
LEMMA FreeRow == FreeSlot \in SlotRows /\ FreeSlot.at = "free"
  BY TicksAssumption DEF FreeSlot, SlotRows, Places

LEMMA DieFacts ==
    ASSUME TypeOK, NEW p \in Procs, Die(p)
    PROVE  /\ slot' \in [Workers -> SlotRows]
           /\ \A s \in Workers : IF s[1] = p THEN slot'[s] = FreeSlot ELSE slot'[s] = slot[s]
           /\ asked' \in [Procs -> 0 .. Concurrency] /\ asked'[p] = 0
           /\ cycle' \in [Procs -> CycleStates] /\ cycle'[p] = "down"
           /\ \A o \in Procs : o # p => asked'[o] = asked[o] /\ cycle'[o] = cycle[o]
  <1>1. slot \in [Workers -> SlotRows] /\ FreeSlot \in SlotRows
    BY FreeRow DEF TypeOK, SlotRows
  <1>2. 0 \in 0 .. Concurrency
    BY SlotsAssumption
  <1>3. QED
    BY <1>1, <1>2 DEF Die, TypeOK, CycleStates

-----------------------------------------------------------------------------
(* What steps have in common.                                              *)

(* Busy slots keep their leases.                                           *)
SlotsStay ==
    \A s \in Workers : (Busy(s)' <=> Busy(s)) /\ slot'[s].lease = slot[s].lease

SpentGrows ==
    spent' \in [Budgets -> Nat] /\ \A b \in Budgets : spent[b] <= spent'[b]

LEMMA LostGrows ==
    ASSUME TypeOK, SpentGrows
    PROVE  Lost \in Nat /\ Lost' \in Nat /\ Lost <= Lost'
  <1>1. \A b \in Budgets : spent[b] \in Nat /\ spent'[b] \in Nat /\ spent[b] <= spent'[b]
    BY DEF TypeOK, SpentGrows
  <1>2. QED
    BY <1>1 DEF Lost, Budgets

LEMMA SpentSame == ASSUME TypeOK, UNCHANGED spent PROVE SpentGrows
  BY DEF TypeOK, SpentGrows

LEMMA SpentOne ==
    ASSUME TypeOK, NEW b \in Budgets, NEW limit, Spend(b, limit)
    PROVE  SpentGrows
  <1>1. spent \in [Budgets -> Nat]
    BY DEF TypeOK
  <1>2. /\ spent' \in [Budgets -> Nat] /\ spent'[b] = spent[b] + 1
        /\ \A c \in Budgets : c # b => spent'[c] = spent[c]
    BY <1>1, SpendFacts
  <1>3. QED
    BY <1>1, <1>2 DEF SpentGrows

LEMMA SpentFault == ASSUME TypeOK, Fault \/ RouteFault PROVE SpentGrows
  <1>1. "faults" \in Budgets /\ "routeFaults" \in Budgets
    BY DEF Budgets
  <1>2. QED
    BY <1>1, SpentOne DEF Fault, RouteFault

LEMMA HeldStays ==
    ASSUME UNCHANGED job, NEW j,
           \A s \in Workers : Busy(s) => Busy(s)' /\ slot'[s].lease = slot[s].lease
    PROVE  Waits(j)' => Waits(j)
  BY DEF Waits, Held, Owns

(* One step of the attempts of every job.                                  *)
LEMMA AttemptsStep ==
    ASSUME WorkerInv, SpentGrows,
           \A j \in Jobs :
              \/ /\ job'[j].attempt = job[j].attempt
                 /\ Waits(j)' => \/ Waits(j) \/ Lost < Lost'
                                 \/ job[j].attempt < MaxAttempts
              \/ /\ job'[j].attempt = job[j].attempt + 1
                 /\ Waits(j) /\ ~Waits(j)'
    PROVE  AttemptsKnown'
  <1>1. Lost \in Nat /\ Lost' \in Nat /\ Lost <= Lost'
    BY LostGrows DEF WorkerInv
  <1>2. MaxAttempts \in Nat
    BY TicksAssumption
  <1>3. ASSUME NEW j \in Jobs
        PROVE  /\ job'[j].attempt <= MaxAttempts + Lost'
               /\ Waits(j)' => job'[j].attempt < MaxAttempts + Lost'
    <2>1. job[j].attempt \in Nat
      BY JobTypes
    <2>2. /\ job[j].attempt <= MaxAttempts + Lost
          /\ Waits(j) => job[j].attempt < MaxAttempts + Lost
      BY DEF WorkerInv, AttemptsKnown
    <2>3. QED
      BY <1>1, <1>2, <2>1, <2>2
  <1>4. QED
    BY <1>3 DEF AttemptsKnown

(* Nothing happens to the queue, and nobody loses a lease.                 *)
LEMMA QuietJobs ==
    ASSUME WorkerInv, UNCHANGED queueVars, SlotsStay, SpentGrows
    PROVE  QueueInv' /\ LeasesKnown' /\ AttemptsKnown'
  <1>1. UNCHANGED <<job, issued, verdicts>>
    BY DEF queueVars
  <1>2. QueueInv'
    BY StepInv DEF WorkerInv
  <1>3. LeasesKnown'
    BY <1>1 DEF WorkerInv, LeasesKnown, SlotsStay
  <1>4. \A j \in Jobs : Waits(j)' => Waits(j)
    BY <1>1, HeldStays DEF SlotsStay
  <1>5. AttemptsKnown'
    BY <1>1, <1>4, AttemptsStep
  <1>6. QED
    BY <1>2, <1>3, <1>5

LEMMA BatchesStay ==
    ASSUME WorkerInv, UNCHANGED <<cycle, asked>>, \A s \in Workers : Busy(s)' => Busy(s)
    PROVE  BatchesKnown'
  BY DEF WorkerInv, BatchesKnown, SlotsOf

LEMMA SignalsStay ==
    ASSUME WorkerInv, UNCHANGED stopping,
           \A s \in Workers : slot'[s].at = "leased" =>
              slot[s].at = "leased" /\ (slot[s].aborted => slot'[s].aborted)
    PROVE  SignalsKnown'
  BY DEF WorkerInv, SignalsKnown

LEMMA ResultsStay ==
    ASSUME WorkerInv,
           \A r \in Runs : run[r].results => run'[r].results,
           \A s \in Workers : slot'[s].at \in {"notify", "check"} =>
              \/ slot[s].at \in {"notify", "check"} /\ slot'[s].lease = slot[s].lease
              \/ run'[TheRun(s)].results /\ slot'[s].lease = slot[s].lease,
           \A j \in Jobs : job'[j].status = "SUCCEEDED" =>
              job[j].status = "SUCCEEDED" \/ run[RunOf[j]].results
    PROVE  ResultsKnown' /\ SuccessHasResults'
  <1>1. ASSUME NEW s \in Workers, slot'[s].at \in {"notify", "check"}
        PROVE  run'[TheRun(s)'].results
    <2>1. TheRun(s)' = TheRun(s)
      BY <1>1 DEF TheRun
    <2>2. CASE slot[s].at \in {"notify", "check"}
      <3>1. run[TheRun(s)].results /\ Busy(s)
        BY <2>2 DEF WorkerInv, ResultsKnown, Busy
      <3>2. TheRun(s) \in Runs
        BY <3>1, BusySlot
      <3>3. QED
        BY <2>1, <3>1, <3>2
    <2>3. QED
      BY <1>1, <2>1, <2>2
  <1>2. ASSUME NEW j \in Jobs, job'[j].status = "SUCCEEDED" PROVE run'[RunOf[j]].results
    <2>1. RunOf[j] \in Runs
      BY RunsAssumption
    <2>2. run[RunOf[j]].results
      BY <1>2 DEF WorkerInv, SuccessHasResults
    <2>3. QED
      BY <2>1, <2>2
  <1>3. QED
    BY <1>1, <1>2 DEF ResultsKnown, SuccessHasResults

-----------------------------------------------------------------------------
(* The handler.                                                            *)

(* A call of the handler: the slot goes on, and its run may change.        *)
HandlerMoves(s, place) ==
    /\ slot[s].at \in {"load", "mark", "fetch", "measure", "notify", "failrun"}
    /\ place \in {"mark", "fetch", "measure", "failrun", "notify", "check", "report"}
    /\ Goto(s, place)
    /\ UNCHANGED <<job, issued, verdicts, cycle, asked, stopping, admin>>
    /\ UNCHANGED spent \/ Fault
    /\ run' \in [Runs -> RunRows]
    /\ \A r \in Runs : /\ r # TheRun(s) => run'[r] = run[r]
                       /\ run[r].results => run'[r].results
    /\ place = "notify" => /\ run'[TheRun(s)].results
                           /\ run'[TheRun(s)].status = "SUCCEEDED"
    /\ place = "check" => slot[s].at = "notify" /\ UNCHANGED run

LEMMA RunBecomesFacts ==
    ASSUME run \in [Runs -> RunRows], NEW r \in Runs, NEW status \in RunStatuses,
           NEW error \in BOOLEAN, RunBecomes(r, status, error)
    PROVE  /\ run' \in [Runs -> RunRows] /\ run'[r].status = status
           /\ \A q \in Runs : /\ q # r => run'[q] = run[q]
                              /\ run[q].results => run'[q].results
  <1>1. PICK row : row = [[run[r] EXCEPT !.status = status] EXCEPT !.error = error]
    OBVIOUS
  <1>2. row \in RunRows /\ row.status = status /\ row.results = run[r].results
    BY <1>1 DEF RunRows
  <1>3. run' = [run EXCEPT ![r] = row]
    BY <1>1 DEF RunBecomes
  <1>4. QED
    BY <1>2, <1>3

LEMMA PersistedFacts ==
    ASSUME run \in [Runs -> RunRows], NEW r \in Runs, Persisted(r)
    PROVE  /\ run' \in [Runs -> RunRows] /\ run'[r].status = "SUCCEEDED" /\ run'[r].results
           /\ \A q \in Runs : /\ q # r => run'[q] = run[q]
                              /\ run[q].results => run'[q].results
  <1>1. PICK row : row = [[run[r] EXCEPT !.status = "SUCCEEDED"] EXCEPT !.results = TRUE]
    OBVIOUS
  <1>2. row \in RunRows /\ row.status = "SUCCEEDED" /\ row.results
    BY <1>1 DEF RunRows, RunStatuses
  <1>3. run' = [run EXCEPT ![r] = row]
    BY <1>1 DEF Persisted
  <1>4. QED
    BY <1>2, <1>3

LEMMA HandlerEffects ==
    ASSUME WorkerInv, NEW s \in Workers,
           \/ LoadRun(s) \/ MarkRunRunning(s) \/ FetchSite(s)
           \/ PersistResults(s) \/ NotifyOwner(s) \/ MarkRunFailed(s)
    PROVE  \E place \in Places : HandlerMoves(s, place)
  <1>1. slot[s].at \in {"load", "mark", "fetch", "measure", "notify", "failrun"}
    BY DEF LoadRun, MarkRunRunning, FetchSite, PersistResults, NotifyOwner, MarkRunFailed
  <1>2. TheRun(s) \in Runs /\ run \in [Runs -> RunRows]
    BY <1>1, BusySlot DEF Busy, WorkerInv, TypeOK, RunRows
  <1>3. CASE UNCHANGED run /\ slot[s].at # "measure"
    <2>1. \A r \in Runs : run'[r] = run[r]
      BY <1>3
    <2>2. QED
      BY <1>1, <1>2, <1>3, <2>1
      DEF LoadRun, MarkRunRunning, FetchSite, PersistResults, NotifyOwner, MarkRunFailed,
          HandlerMoves, Places
  <1>4. CASE MarkRunRunning(s) /\ RunBecomes(TheRun(s), "RUNNING", FALSE)
    <2>1. /\ run' \in [Runs -> RunRows]
          /\ \A q \in Runs : /\ q # TheRun(s) => run'[q] = run[q]
                             /\ run[q].results => run'[q].results
      BY <1>2, <1>4, RunBecomesFacts DEF RunStatuses
    <2>2. QED
      BY <1>1, <1>4, <2>1 DEF MarkRunRunning, HandlerMoves, Places
  <1>5. CASE MarkRunFailed(s) /\ RunBecomes(TheRun(s), "FAILED", TRUE)
    <2>1. /\ run' \in [Runs -> RunRows]
          /\ \A q \in Runs : /\ q # TheRun(s) => run'[q] = run[q]
                             /\ run[q].results => run'[q].results
      BY <1>2, <1>5, RunBecomesFacts DEF RunStatuses
    <2>2. QED
      BY <1>1, <1>5, <2>1 DEF MarkRunFailed, HandlerMoves, Places
  <1>6. CASE PersistResults(s) /\ UNCHANGED run /\ slot[s].at = "measure"
    <2>1. \A r \in Runs : run'[r] = run[r]
      BY <1>6
    <2>2. CASE Persisted(TheRun(s))
      <3>1. run'[TheRun(s)].results /\ run'[TheRun(s)].status = "SUCCEEDED"
        BY <1>2, <2>2, PersistedFacts
      <3>2. QED
        BY <1>1, <1>2, <1>6, <2>1, <3>1 DEF PersistResults, HandlerMoves, Places
    <2>3. CASE ~Persisted(TheRun(s))
      BY <1>1, <1>2, <1>6, <2>1, <2>3 DEF PersistResults, HandlerMoves, Places
    <2>4. QED
      BY <2>2, <2>3
  <1>7. CASE PersistResults(s) /\ Persisted(TheRun(s))
    <2>1. /\ run' \in [Runs -> RunRows]
          /\ run'[TheRun(s)].status = "SUCCEEDED" /\ run'[TheRun(s)].results
          /\ \A q \in Runs : /\ q # TheRun(s) => run'[q] = run[q]
                             /\ run[q].results => run'[q].results
      BY <1>2, <1>7, PersistedFacts
    <2>2. QED
      BY <1>1, <1>7, <2>1 DEF PersistResults, HandlerMoves, Places
  <1>8. QED
    BY <1>3, <1>4, <1>5, <1>6, <1>7
    DEF LoadRun, MarkRunRunning, FetchSite, PersistResults, NotifyOwner, MarkRunFailed

LEMMA HandlerStep ==
    ASSUME WorkerInv, NEW s \in Workers, NEW place \in Places, HandlerMoves(s, place)
    PROVE  WorkerInv' /\ SpentGrows /\ SlotsStay
  <1>1. slot \in [Workers -> SlotRows] /\ TypeOK
    BY DEF WorkerInv, TypeOK, SlotRows
  <1>2. /\ slot' \in [Workers -> SlotRows] /\ slot'[s].at = place
        /\ slot'[s].lease = slot[s].lease /\ slot'[s].aborted = slot[s].aborted
        /\ \A t \in Workers : t # s => slot'[t] = slot[t]
    BY <1>1, GotoFacts DEF HandlerMoves
  <1>3. UNCHANGED <<job, issued, verdicts, cycle, asked, stopping, admin>> /\ UNCHANGED queueVars
    BY DEF HandlerMoves, queueVars
  <1>4. Busy(s) /\ Busy(s)' /\ TheRun(s)' = TheRun(s)
    BY <1>2 DEF HandlerMoves, Busy, TheRun
  <1>5. SlotsStay
    BY <1>2, <1>4 DEF SlotsStay, Busy
  <1>6. SpentGrows
    BY <1>1, SpentSame, SpentFault DEF HandlerMoves
  <1>7. QueueInv' /\ LeasesKnown' /\ AttemptsKnown'
    BY <1>3, <1>5, <1>6, QuietJobs
  <1>8. TypeOK'
    BY <1>1, <1>2, <1>3, <1>6, <1>7
    DEF TypeOK, SlotRows, RunRows, SpentGrows, HandlerMoves, QueueInv
  <1>9. BatchesKnown'
    BY <1>3, <1>5, BatchesStay DEF SlotsStay
  <1>10. SignalsKnown'
    <2>1. place # "leased"
      BY DEF HandlerMoves
    <2>2. QED
      BY <1>2, <1>3, <2>1, SignalsStay
  <1>11. ResultsKnown' /\ SuccessHasResults'
    <2>1. \A r \in Runs : run[r].results => run'[r].results
      BY DEF HandlerMoves
    <2>2. place \in {"notify", "check"} =>
             slot[s].at \in {"notify", "check"} \/ run'[TheRun(s)].results
      BY DEF HandlerMoves
    <2>3. QED
      BY <1>2, <1>3, <2>1, <2>2, ResultsStay
  <1>12. QED
    BY <1>5, <1>6, <1>7, <1>8, <1>9, <1>10, <1>11 DEF WorkerInv

-----------------------------------------------------------------------------
(* The loop, the timers and signals: slots only change where they are in   *)
(* processLease before the handler, or their signal.                       *)

RelabelMoves ==
    /\ UNCHANGED <<job, issued, verdicts, run>>
    /\ slot' \in [Workers -> SlotRows]
    /\ \A s \in Workers :
          /\ slot'[s].lease = slot[s].lease
          /\ \/ slot'[s].at = slot[s].at
             \/ slot[s].at \in {"granted", "leased"} /\ slot'[s].at \in {"leased", "load", "report"}
    /\ SpentGrows

AdminRows == [at : {"idle", "reset", "enqueue", "undo"}, run : Runs, cut : SUBSET Runs]

ProcsTyped ==
    /\ asked \in [Procs -> 0 .. Concurrency] /\ cycle \in [Procs -> CycleStates]
    /\ stopping \in [Procs -> BOOLEAN]
    /\ admin \in [Admins -> AdminRows]

LEMMA RelabelStays == ASSUME RelabelMoves PROVE SlotsStay
  BY DEF RelabelMoves, SlotsStay, Busy

LEMMA RelabelStep ==
    ASSUME WorkerInv, RelabelMoves, ProcsTyped', BatchesKnown', SignalsKnown'
    PROVE  WorkerInv'
  <1>1. UNCHANGED queueVars /\ SlotsStay /\ SpentGrows /\ UNCHANGED <<job, issued, verdicts, run>>
    BY RelabelStays DEF RelabelMoves, queueVars
  <1>2. QueueInv' /\ LeasesKnown' /\ AttemptsKnown'
    BY <1>1, QuietJobs
  <1>3. TypeOK'
    <2>1. run' \in [Runs -> RunRows] /\ slot' \in [Workers -> SlotRows'] /\ QueueTypeOK'
      BY <1>1, <1>2 DEF WorkerInv, TypeOK, RunRows, RelabelMoves, SlotRows, QueueInv
    <2>2. QED
      BY <1>1, <2>1 DEF TypeOK, ProcsTyped, CycleStates, AdminRows, SlotRows, RunRows, SpentGrows
  <1>4. ResultsKnown' /\ SuccessHasResults'
    BY <1>1, ResultsStay DEF RelabelMoves
  <1>5. QED
    BY <1>2, <1>3, <1>4 DEF WorkerInv

(* Steps that leave all slots as they are.                                 *)
LEMMA SlotsSame ==
    ASSUME WorkerInv, UNCHANGED <<job, issued, verdicts, run, slot>>, SpentGrows
    PROVE  RelabelMoves
  <1>1. slot \in [Workers -> SlotRows]
    BY DEF WorkerInv, TypeOK, SlotRows
  <1>2. QED
    BY <1>1 DEF RelabelMoves

LEMMA ProcTypes == ASSUME WorkerInv PROVE ProcsTyped /\ slot \in [Workers -> SlotRows]
  BY DEF WorkerInv, TypeOK, ProcsTyped, CycleStates, AdminRows, SlotRows

(* beginLease and the first check of processLease.                         *)
LEMMA BegunFacts ==
    ASSUME WorkerInv, NEW s \in Workers
    PROVE  /\ Begun(s) \in SlotRows /\ Begun(s).lease = slot[s].lease
           /\ slot[s].at = "granted" =>
                 Begun(s).at = "leased" /\ Begun(s).aborted = stopping[s[1]]
           /\ slot[s].at # "granted" => Begun(s) = slot[s]
  <1>1. slot[s] \in SlotRows /\ stopping[s[1]] \in BOOLEAN
    BY ProcTypes, SlotParts DEF ProcsTyped
  <1>2. CASE slot[s].at = "granted"
    <2>1. PICK row : row = [at |-> "leased", lease |-> slot[s].lease, aborted |-> stopping[s[1]],
                            beating |-> ~stopping[s[1]], left |-> LeaseTicks]
      OBVIOUS
    <2>2. row \in SlotRows
      BY <1>1, <2>1, TicksAssumption DEF SlotRows, Places
    <2>3. Begun(s) = row
      BY <1>2, <2>1 DEF Begun
    <2>4. QED
      BY <1>2, <2>1, <2>2, <2>3
  <1>3. CASE slot[s].at # "granted"
    BY <1>1, <1>3 DEF Begun
  <1>4. QED
    BY <1>2, <1>3

LEMMA StartedFacts ==
    ASSUME NEW row \in SlotRows
    PROVE  /\ Started(row) \in SlotRows /\ Started(row).lease = row.lease
           /\ row.at = "leased" => Started(row).at \in {"load", "report"}
           /\ row.at # "leased" => Started(row) = row
  BY DEF Started, SlotRows, Places

LEMMA AskNextStep ==
    ASSUME WorkerInv, NEW p \in Procs, AskNext(p)
    PROVE  WorkerInv' /\ RelabelMoves
  <1>1. /\ cycle[p] = "resuming" /\ cycle' = [cycle EXCEPT ![p] = "leasing"]
        /\ UNCHANGED <<job, issued, verdicts, run, asked, stopping, admin, spent>>
        /\ \A s \in Workers : slot'[s] = IF s[1] = p THEN Begun(s) ELSE slot[s]
        /\ slot' = [s \in Workers |-> IF s[1] = p THEN Begun(s) ELSE slot[s]]
    BY DEF AskNext
  <1>2. slot' \in [Workers -> SlotRows]
    BY <1>1, BegunFacts, ProcTypes
  <1>3. RelabelMoves
    BY <1>1, <1>2, BegunFacts, SpentSame DEF RelabelMoves, WorkerInv
  <1>4. ProcsTyped'
    BY <1>1, ProcTypes DEF ProcsTyped, CycleStates
  <1>5. BatchesKnown'
    <2>1. \A s \in Workers : Busy(s)' <=> Busy(s)
      BY <1>3, RelabelStays DEF SlotsStay
    <2>2. cycle' \in [Procs -> CycleStates] /\ cycle'[p] = "leasing"
          /\ \A o \in Procs : o # p => cycle'[o] = cycle[o]
      BY <1>1, ProcTypes DEF ProcsTyped, CycleStates
    <2>3. QED
      BY <1>1, <2>1, <2>2 DEF WorkerInv, BatchesKnown, SlotsOf
  <1>6. SignalsKnown'
    BY <1>1, BegunFacts DEF WorkerInv, SignalsKnown
  <1>7. QED
    BY <1>3, <1>4, <1>5, <1>6, RelabelStep

LEMMA StartBatchStep ==
    ASSUME WorkerInv, NEW p \in Procs, StartBatch(p)
    PROVE  WorkerInv' /\ RelabelMoves
  <1>1. /\ cycle[p] = "resuming" /\ cycle' = [cycle EXCEPT ![p] = "working"]
        /\ asked' = [asked EXCEPT ![p] = 0]
        /\ UNCHANGED <<job, issued, verdicts, run, stopping, admin, spent>>
        /\ slot' = [s \in Workers |-> IF s[1] = p THEN Started(Begun(s)) ELSE slot[s]]
        /\ \A s \in Workers : slot'[s] = IF s[1] = p THEN Started(Begun(s)) ELSE slot[s]
    BY DEF StartBatch
  <1>2. ASSUME NEW s \in Workers
        PROVE  /\ slot'[s] \in SlotRows /\ slot'[s].lease = slot[s].lease
               /\ \/ slot'[s].at = slot[s].at
                  \/ slot[s].at \in {"granted", "leased"} /\ slot'[s].at \in {"load", "report"}
               /\ s[1] = p => slot'[s].at # "leased"
    <2>1. CASE s[1] = p
      <3>1. PICK row \in SlotRows : row = Begun(s)
        BY BegunFacts
      <3>2. slot'[s] = Started(row)
        BY <1>1, <2>1, <3>1
      <3>3. row.lease = slot[s].lease
            /\ (slot[s].at = "granted" => row.at = "leased")
            /\ (slot[s].at # "granted" => row = slot[s])
        BY <3>1, BegunFacts
      <3>4. QED
        BY <3>2, <3>3, StartedFacts
    <2>2. CASE s[1] # p
      BY <1>1, <2>2, ProcTypes
    <2>3. QED
      BY <2>1, <2>2
  <1>3. RelabelMoves
    <2>1. SpentGrows
      BY <1>1, SpentSame DEF WorkerInv
    <2>2. slot' \in [Workers -> SlotRows]
      BY <1>1, <1>2
    <2>3. QED
      BY <1>1, <1>2, <2>1, <2>2 DEF RelabelMoves
  <1>4. /\ cycle' \in [Procs -> CycleStates] /\ cycle'[p] = "working"
        /\ asked' \in [Procs -> 0 .. Concurrency] /\ asked'[p] = 0
        /\ \A o \in Procs : o # p => cycle'[o] = cycle[o] /\ asked'[o] = asked[o]
    BY <1>1, ProcTypes, SlotsAssumption DEF ProcsTyped, CycleStates
  <1>5. ProcsTyped'
    BY <1>1, <1>4, ProcTypes DEF ProcsTyped
  <1>6. BatchesKnown'
    <2>1. \A s \in Workers : Busy(s)' <=> Busy(s)
      BY <1>3, RelabelStays DEF SlotsStay
    <2>2. QED
      BY <1>4, <2>1 DEF WorkerInv, BatchesKnown, SlotsOf
  <1>7. SignalsKnown'
    BY <1>1, <1>2 DEF WorkerInv, SignalsKnown
  <1>8. QED
    BY <1>3, <1>5, <1>6, <1>7, RelabelStep

(* Only the loop and the signal.                                           *)
LEMMA LoopStep ==
    ASSUME WorkerInv, NEW p \in Procs, EndBatch(p) \/ StopLoop(p) \/ Restart(p)
    PROVE  WorkerInv' /\ RelabelMoves
  <1>1. /\ UNCHANGED <<job, issued, verdicts, run, slot, asked, admin, spent>>
        /\ cycle[p] \in {"working", "idle", "down"}
        /\ cycle[p] = "working" => \A s \in SlotsOf(p) : ~Busy(s)
    BY DEF EndBatch, StopLoop, Restart
  <1>2. PICK c \in {"idle", "down"} : cycle' = [cycle EXCEPT ![p] = c]
    BY DEF EndBatch, StopLoop, Restart
  <1>3. stopping' = stopping \/ stopping' = [stopping EXCEPT ![p] = FALSE]
    BY DEF EndBatch, StopLoop, Restart
  <1>4. RelabelMoves
    BY <1>1, SlotsSame, SpentSame DEF WorkerInv
  <1>5. /\ cycle' \in [Procs -> CycleStates] /\ cycle'[p] = c
        /\ stopping' \in [Procs -> BOOLEAN]
        /\ \A o \in Procs : /\ o # p => cycle'[o] = cycle[o]
                            /\ stopping'[o] => stopping[o]
    BY <1>2, <1>3, ProcTypes DEF ProcsTyped, CycleStates
  <1>6. ProcsTyped'
    BY <1>1, <1>5, ProcTypes DEF ProcsTyped
  <1>7. BatchesKnown'
    BY <1>1, <1>5 DEF WorkerInv, BatchesKnown, SlotsOf, Busy
  <1>8. SignalsKnown'
    BY <1>1, <1>5, SlotParts DEF WorkerInv, SignalsKnown
  <1>9. QED
    BY <1>4, <1>6, <1>7, <1>8, RelabelStep

LEMMA LeaseNothingStep ==
    ASSUME WorkerInv, NEW s \in Workers, LeaseNothing(s)
    PROVE  WorkerInv' /\ RelabelMoves
  <1>1. /\ UNCHANGED <<job, issued, verdicts, run, slot, stopping, admin, spent>>
        /\ cycle[s[1]] = "leasing" /\ s[2] = asked[s[1]] + 1
        /\ asked' = [asked EXCEPT ![s[1]] = s[2]]
        /\ cycle' = [cycle EXCEPT ![s[1]] = "resuming"]
    BY DEF LeaseNothing, Asks
  <1>2. RelabelMoves
    BY <1>1, SlotsSame, SpentSame DEF WorkerInv
  <1>3. /\ cycle' \in [Procs -> CycleStates] /\ cycle'[s[1]] = "resuming"
        /\ asked' \in [Procs -> 0 .. Concurrency] /\ asked'[s[1]] = asked[s[1]] + 1
        /\ asked[s[1]] \in Nat
        /\ \A o \in Procs : o # s[1] => cycle'[o] = cycle[o] /\ asked'[o] = asked[o]
    BY <1>1, ProcTypes, SlotParts, SlotsAssumption DEF ProcsTyped, CycleStates
  <1>4. ProcsTyped'
    BY <1>1, <1>3, ProcTypes DEF ProcsTyped
  <1>5. BatchesKnown'
    <2>1. \A t \in Workers : t[2] \in Nat
      BY SlotParts
    <2>2. \A t \in SlotsOf(s[1]) : t[2] > asked'[s[1]] => ~Busy(t)
      BY <1>1, <1>3, <2>1, SlotParts DEF WorkerInv, BatchesKnown, SlotsOf
    <2>3. QED
      BY <1>1, <1>3, <2>2 DEF WorkerInv, BatchesKnown, SlotsOf, Busy
  <1>6. SignalsKnown'
    BY <1>1 DEF WorkerInv, SignalsKnown
  <1>7. QED
    BY <1>2, <1>4, <1>5, <1>6, RelabelStep

(* A slot hears the signal; its heartbeat may end.                         *)
LEMMA SignalRow ==
    ASSUME NEW row \in SlotRows
    PROVE  /\ [row EXCEPT !.aborted = TRUE] \in SlotRows
           /\ [row EXCEPT !.aborted = TRUE].at = row.at
           /\ [row EXCEPT !.aborted = TRUE].lease = row.lease
           /\ [row EXCEPT !.aborted = TRUE].aborted
  BY DEF SlotRows

LEMMA ShutdownStep ==
    ASSUME WorkerInv, NEW p \in Procs, Shutdown(p)
    PROVE  WorkerInv' /\ RelabelMoves
  <1>1. /\ UNCHANGED <<job, issued, verdicts, run, cycle, asked, admin>>
        /\ Spend("shutdowns", ShutdownBound) /\ stopping' = [stopping EXCEPT ![p] = TRUE]
        /\ slot' = [s \in Workers |-> IF s[1] = p /\ Busy(s)
                                      THEN [slot[s] EXCEPT !.aborted = TRUE] ELSE slot[s]]
    BY DEF Shutdown
  <1>2. ASSUME NEW s \in Workers
        PROVE  /\ slot'[s] \in SlotRows /\ slot'[s].at = slot[s].at
               /\ slot'[s].lease = slot[s].lease
               /\ s[1] = p /\ Busy(s) => slot'[s].aborted
               /\ s[1] # p => slot'[s] = slot[s]
    BY <1>1, SignalRow, ProcTypes
  <1>3. SpentGrows
    BY <1>1, SpentOne DEF WorkerInv, Budgets
  <1>4. RelabelMoves
    <2>1. slot' \in [Workers -> SlotRows]
      BY <1>1, <1>2
    <2>2. QED
      BY <1>1, <1>2, <1>3, <2>1 DEF RelabelMoves
  <1>5. /\ stopping' \in [Procs -> BOOLEAN]
        /\ \A o \in Procs : o # p => stopping'[o] = stopping[o]
    BY <1>1, ProcTypes DEF ProcsTyped
  <1>6. ProcsTyped'
    BY <1>1, <1>5, ProcTypes DEF ProcsTyped
  <1>7. BatchesKnown'
    BY <1>1, <1>2, BatchesStay DEF Busy
  <1>8. SignalsKnown'
    BY <1>2, <1>5, SlotParts DEF WorkerInv, SignalsKnown, Busy
  <1>9. QED
    BY <1>4, <1>6, <1>7, <1>8, RelabelStep

(* One slot hears the signal.                                              *)
LEMMA AbortStep ==
    ASSUME WorkerInv, NEW s \in Workers, NEW row \in SlotRows,
           row.at = slot[s].at, row.lease = slot[s].lease, row.aborted,
           slot' = [slot EXCEPT ![s] = row],
           UNCHANGED <<job, issued, verdicts, run, cycle, asked, stopping, admin>>,
           SpentGrows
    PROVE  WorkerInv' /\ RelabelMoves
  <1>1. /\ slot' \in [Workers -> SlotRows] /\ slot'[s] = row
        /\ \A t \in Workers : t # s => slot'[t] = slot[t]
    BY ProcTypes
  <1>2. RelabelMoves
    BY <1>1 DEF RelabelMoves
  <1>3. ProcsTyped'
    BY ProcTypes DEF ProcsTyped
  <1>4. BatchesKnown'
    BY <1>1, BatchesStay DEF Busy
  <1>5. SignalsKnown'
    BY <1>1, SignalsStay
  <1>6. QED
    BY <1>2, <1>3, <1>4, <1>5, RelabelStep

LEMMA JobTimeoutStep ==
    ASSUME WorkerInv, NEW s \in Workers, JobTimeout(s)
    PROVE  WorkerInv' /\ RelabelMoves
  <1>1. PICK row : row = [[slot[s] EXCEPT !.beating = FALSE] EXCEPT !.aborted = TRUE]
    OBVIOUS
  <1>2. slot[s] \in SlotRows
    BY ProcTypes
  <1>3. /\ row \in SlotRows /\ row.at = slot[s].at /\ row.lease = slot[s].lease /\ row.aborted
    BY <1>1, <1>2 DEF SlotRows
  <1>4. slot' = [slot EXCEPT ![s] = row]
    BY <1>1 DEF JobTimeout
  <1>5. SpentGrows /\ UNCHANGED <<job, issued, verdicts, run, cycle, asked, stopping, admin>>
    BY SpentSame DEF JobTimeout, WorkerInv
  <1>6. QED
    BY <1>3, <1>4, <1>5, AbortStep

LEMMA DeafBeatStep ==
    ASSUME WorkerInv, NEW s \in Workers, UNCHANGED queueVars,
           slot' = [slot EXCEPT ![s].aborted = TRUE], SpentGrows,
           UNCHANGED <<run, cycle, asked, stopping, admin>>
    PROVE  WorkerInv' /\ RelabelMoves
  <1>1. PICK row : row = [slot[s] EXCEPT !.aborted = TRUE]
    OBVIOUS
  <1>2. /\ row \in SlotRows /\ row.at = slot[s].at /\ row.lease = slot[s].lease /\ row.aborted
    BY <1>1, SignalRow, ProcTypes
  <1>3. slot' = [slot EXCEPT ![s] = row]
    BY <1>1
  <1>4. UNCHANGED <<job, issued, verdicts, run, cycle, asked, stopping, admin>>
    BY DEF queueVars
  <1>5. QED
    BY <1>2, <1>3, <1>4, AbortStep

-----------------------------------------------------------------------------
(* Steps of the queue.  Whoever holds a job goes on to hold it.            *)

LEMMA QueueStepTypes ==
    ASSUME WorkerInv, QueueNext
    PROVE  QueueInv' /\ QueueTypeOK' /\ issued \subseteq issued'
  <1>1. QueueInv'
    BY StepInv DEF WorkerInv
  <1>2. issued \subseteq issued'
    BY DEF QueueNext, EnqueueJob, RecycleExpiredLeases, LeaseNextJob, HeartbeatJobLease,
           MarkJobSucceeded, MarkJobFailedRetry, MarkJobFailedFinal, Tick
  <1>3. QED
    BY <1>1, <1>2 DEF QueueInv

LEMMA OwnedJob ==
    ASSUME WorkerInv, NEW s \in Workers, Busy(s), Owns(slot[s].lease)
    PROVE  /\ job[slot[s].lease.job].status = "RUNNING"
           /\ job[slot[s].lease.job].worker = s
           /\ job[slot[s].lease.job].attempt = slot[s].lease.attempt
           /\ job[slot[s].lease.job].lease > 0
           /\ ~Waits(slot[s].lease.job)
           /\ Active(slot[s].lease.job)
  BY BusySlot DEF Owns, Waits, Held, Active

(* Nothing but the queue and the loop changes, and no job becomes          *)
(* SUCCEEDED.                                                              *)
LEMMA QueueOnlyStep ==
    ASSUME WorkerInv, QueueNext, UNCHANGED <<run, slot>>, SpentGrows, ProcsTyped',
           BatchesKnown', SignalsKnown', AttemptsKnown',
           \A j \in Jobs : job'[j].status = "SUCCEEDED" => job[j].status = "SUCCEEDED"
    PROVE  WorkerInv'
  <1>1. QueueInv' /\ QueueTypeOK' /\ issued \subseteq issued'
    BY QueueStepTypes
  <1>2. LeasesKnown'
    BY <1>1 DEF WorkerInv, LeasesKnown, Busy
  <1>3. TypeOK'
    <2>1. run' \in [Runs -> RunRows] /\ slot' \in [Workers -> SlotRows']
      BY <1>1 DEF WorkerInv, TypeOK, RunRows, SlotRows
    <2>2. QED
      BY <1>1, <2>1 DEF TypeOK, ProcsTyped, CycleStates, AdminRows, SlotRows, RunRows, SpentGrows
  <1>4. ResultsKnown' /\ SuccessHasResults'
    BY ResultsStay
  <1>5. QED
    BY <1>1, <1>2, <1>3, <1>4 DEF WorkerInv

LEMMA RecycleFacts ==
    ASSUME WorkerInv, RecycleExpiredLeases
    PROVE  /\ \A j \in Jobs : /\ job'[j].attempt = job[j].attempt
                              /\ ~Expired(j) => job'[j] = job[j]
                              /\ Expired(j) => /\ job'[j].status = "QUEUED"
                                               /\ job[j].status = "RUNNING" /\ ~Held(j)
           /\ UNCHANGED <<issued, verdicts>>
  <1>1. \A j \in Jobs : job'[j] = IF Expired(j) THEN Requeued(job[j], RecycleTicks) ELSE job[j]
    BY DEF RecycleExpiredLeases
  <1>2. ASSUME NEW j \in Jobs, Expired(j) PROVE ~Held(j)
    BY <1>2 DEF Expired, Held, Owns
  <1>3. QED
    BY <1>1, <1>2 DEF Requeued, RecycleExpiredLeases, Expired

LEMMA StartCycleStep ==
    ASSUME WorkerInv, NEW p \in Procs, StartCycle(p)
    PROVE  WorkerInv'
  <1>1. /\ UNCHANGED <<run, asked, slot, stopping, admin, spent>>
        /\ cycle[p] = "idle" /\ cycle' = [cycle EXCEPT ![p] = "resuming"]
    BY DEF StartCycle
  <1>2. /\ cycle' \in [Procs -> CycleStates] /\ cycle'[p] = "resuming"
        /\ \A o \in Procs : o # p => cycle'[o] = cycle[o]
    BY <1>1, ProcTypes DEF ProcsTyped, CycleStates
  <1>3. ProcsTyped' /\ SpentGrows
    BY <1>1, <1>2, ProcTypes, SpentSame DEF ProcsTyped, WorkerInv
  <1>4. BatchesKnown'
    BY <1>1, <1>2 DEF WorkerInv, BatchesKnown, SlotsOf, Busy
  <1>5. SignalsKnown'
    BY <1>1 DEF WorkerInv, SignalsKnown
  <1>6. CASE RecycleExpiredLeases
    <2>1. QueueNext
      BY <1>6 DEF QueueNext
    <2>2. AttemptsKnown'
      <3>1. ASSUME NEW j \in Jobs, Waits(j)' PROVE Waits(j)
        <4>1. CASE Expired(j)
          BY <1>6, <4>1, RecycleFacts DEF Waits
        <4>2. CASE ~Expired(j)
          <5>1. job'[j] = job[j]
            BY <1>6, <4>2, RecycleFacts
          <5>2. Held(j) => Held(j)'
            BY <1>1, <5>1 DEF Held, Owns, Busy
          <5>3. QED
            BY <3>1, <5>1, <5>2 DEF Waits
        <4>3. QED
          BY <4>1, <4>2
      <3>2. \A j \in Jobs : job'[j].attempt = job[j].attempt
        BY <1>6, RecycleFacts
      <3>3. QED
        BY <1>3, <3>1, <3>2, AttemptsStep
    <2>3. \A j \in Jobs : job'[j].status = "SUCCEEDED" => job[j].status = "SUCCEEDED"
      BY <1>6, RecycleFacts
    <2>4. QED
      BY <1>1, <1>3, <1>4, <1>5, <2>1, <2>2, <2>3, QueueOnlyStep
  <1>7. CASE UNCHANGED queueVars
    <2>1. RelabelMoves
      BY <1>1, <1>3, <1>7, SlotsSame DEF queueVars
    <2>2. QED
      BY <1>3, <1>4, <1>5, <2>1, RelabelStep
  <1>8. QED
    BY <1>6, <1>7 DEF StartCycle

-----------------------------------------------------------------------------
(* One job changes, and its slot; the other jobs and slots stay.           *)

LEMMA OneJobAttempts ==
    ASSUME WorkerInv, SpentGrows, NEW j \in Jobs,
           \A k \in Jobs \ {j} : job'[k] = job[k],
           \A s \in Workers : Busy(s) /\ slot[s].lease.job # j /\ Owns(slot[s].lease) =>
              Busy(s)' /\ slot'[s].lease = slot[s].lease,
           \/ /\ job'[j].attempt = job[j].attempt
              /\ Waits(j)' => Waits(j) \/ job[j].attempt < MaxAttempts
           \/ /\ job'[j].attempt = job[j].attempt + 1
              /\ Waits(j) /\ ~Waits(j)'
    PROVE  AttemptsKnown'
  <1>1. ASSUME NEW k \in Jobs, k # j, Waits(k)' PROVE Waits(k)
    <2>1. job'[k] = job[k]
      BY <1>1
    <2>2. ASSUME Held(k) PROVE Held(k)'
      <3>1. PICK s \in Workers : Busy(s) /\ slot[s].lease.job = k /\ Owns(slot[s].lease)
        BY <2>2 DEF Held
      <3>2. Busy(s)' /\ slot'[s].lease = slot[s].lease
        BY <1>1, <3>1
      <3>3. Owns(slot[s].lease)'
        BY <2>1, <3>1, <3>2 DEF Owns
      <3>4. QED
        BY <3>1, <3>2, <3>3 DEF Held
    <2>3. QED
      BY <1>1, <2>1, <2>2 DEF Waits
  <1>2. \A k \in Jobs : k # j => job'[k].attempt = job[k].attempt
    OBVIOUS
  <1>3. QED
    BY <1>1, <1>2, AttemptsStep

LEMMA LeaseSlotFacts ==
    ASSUME WorkerInv, NEW s \in Workers, NEW j \in Jobs, LeaseSlot(s, j)
    PROVE  /\ ~Busy(s) /\ slot' \in [Workers -> SlotRows'] /\ slot'[s].at = "granted"
           /\ slot'[s].lease = [job |-> j, worker |-> s, attempt |-> job[j].attempt + 1]
           /\ slot'[s].lease \in issued' /\ Busy(s)'
           /\ \A t \in Workers : t # s => slot'[t] = slot[t]
           /\ job[j].status = "QUEUED" /\ job'[j].status = "RUNNING" /\ job'[j].worker = s
           /\ job'[j].attempt = job[j].attempt + 1 /\ job'[j].lease > 0
           /\ \A k \in Jobs \ {j} : job'[k] = job[k]
  <1>1. /\ cycle[s[1]] = "leasing" /\ s[2] = asked[s[1]] + 1 /\ LeaseNextJob(s, j)
    BY DEF LeaseSlot, Asks
  <1>2. ~Busy(s)
    <2>1. s[1] \in Procs /\ s \in SlotsOf(s[1]) /\ asked[s[1]] \in Nat /\ s[2] > asked[s[1]]
      BY <1>1, SlotParts, ProcTypes DEF SlotsOf, ProcsTyped
    <2>2. QED
      BY <1>1, <2>1 DEF WorkerInv, BatchesKnown
  <1>3. PICK new : new = [job |-> j, worker |-> s, attempt |-> job[j].attempt + 1]
    OBVIOUS
  <1>4. issued' = issued \cup {new}
    BY <1>1, <1>3 DEF LeaseNextJob
  <1>5. PICK row : row = [at |-> "granted", lease |-> new, aborted |-> FALSE,
                          beating |-> FALSE, left |-> 0]
    OBVIOUS
  <1>6. slot' = [slot EXCEPT ![s] = row]
    BY <1>3, <1>5 DEF LeaseSlot, Granted
  <1>7. row \in SlotRows'
    BY <1>4, <1>5, TicksAssumption DEF SlotRows, Places
  <1>8. slot \in [Workers -> SlotRows']
    BY <1>4, ProcTypes DEF SlotRows
  <1>9. job[j].status = "QUEUED" /\ job' = [job EXCEPT ![j] = LeasedTo(job[j], s)]
    BY <1>1 DEF LeaseNextJob, Available
  <1>10. job \in [Jobs -> Rows]
    BY DEF WorkerInv, QueueInv, QueueTypeOK
  <1>11. /\ job'[j].status = "RUNNING" /\ job'[j].worker = s /\ job'[j].lease > 0
         /\ job'[j].attempt = job[j].attempt + 1 /\ \A k \in Jobs \ {j} : job'[k] = job[k]
    BY <1>9, <1>10, TicksAssumption DEF LeasedTo
  <1>12. QED
    BY <1>2, <1>3, <1>4, <1>5, <1>6, <1>7, <1>8, <1>9, <1>11 DEF Busy

LEMMA LeaseSlotStep ==
    ASSUME WorkerInv, NEW s \in Workers, NEW j \in Jobs, LeaseSlot(s, j)
    PROVE  WorkerInv'
  <1>1. /\ UNCHANGED <<run, stopping, admin, spent>> /\ LeaseNextJob(s, j)
        /\ cycle[s[1]] = "leasing" /\ s[2] = asked[s[1]] + 1
        /\ asked' = [asked EXCEPT ![s[1]] = s[2]]
        /\ cycle' = [cycle EXCEPT ![s[1]] = "resuming"]
    BY DEF LeaseSlot, Asks
  <1>2. QueueInv' /\ QueueTypeOK' /\ issued \subseteq issued'
    BY <1>1, QueueStepTypes DEF QueueNext
  <1>f. /\ ~Busy(s) /\ slot' \in [Workers -> SlotRows'] /\ slot'[s].at = "granted"
        /\ slot'[s].lease = [job |-> j, worker |-> s, attempt |-> job[j].attempt + 1]
        /\ slot'[s].lease \in issued' /\ Busy(s)'
        /\ \A t \in Workers : t # s => slot'[t] = slot[t]
        /\ job[j].status = "QUEUED" /\ job'[j].status = "RUNNING" /\ job'[j].worker = s
        /\ job'[j].attempt = job[j].attempt + 1 /\ job'[j].lease > 0
        /\ \A k \in Jobs \ {j} : job'[k] = job[k]
    BY LeaseSlotFacts
  <1>3. /\ cycle' \in [Procs -> CycleStates] /\ cycle'[s[1]] = "resuming"
        /\ asked' \in [Procs -> 0 .. Concurrency] /\ asked'[s[1]] = asked[s[1]] + 1
        /\ asked[s[1]] \in Nat
        /\ \A o \in Procs : o # s[1] => cycle'[o] = cycle[o] /\ asked'[o] = asked[o]
    BY <1>1, ProcTypes, SlotParts, SlotsAssumption DEF ProcsTyped, CycleStates
  <1>4. TypeOK'
    <2>1. run' \in [Runs -> RunRows] /\ spent' \in [Budgets -> Nat] /\ ProcsTyped'
      BY <1>1, <1>3, ProcTypes DEF WorkerInv, TypeOK, RunRows, ProcsTyped
    <2>2. slot' \in [Workers -> SlotRows']
      BY <1>f
    <2>3. QED
      BY <1>2, <2>1, <2>2 DEF TypeOK, ProcsTyped, CycleStates, AdminRows, SlotRows, RunRows
  <1>5. BatchesKnown'
    <2>1. \A t \in Workers : t[2] \in Nat
      BY SlotParts
    <2>2. \A t \in SlotsOf(s[1]) : t[2] > asked'[s[1]] => ~Busy(t)'
      <3>1. \A t \in SlotsOf(s[1]) : t[2] > asked'[s[1]] => t # s /\ ~Busy(t)
        BY <1>1, <1>3, <2>1, SlotParts DEF WorkerInv, BatchesKnown, SlotsOf
      <3>2. QED
        BY <3>1, <1>f DEF Busy, SlotsOf
    <2>3. ASSUME NEW o \in Procs, o # s[1], NEW t \in SlotsOf(o) PROVE Busy(t)' <=> Busy(t)
      <3>1. t \in Workers /\ t # s
        BY <2>3 DEF SlotsOf
      <3>2. QED
        BY <3>1, <1>f DEF Busy
    <2>4. QED
      BY <1>3, <2>2, <2>3 DEF WorkerInv, BatchesKnown, SlotsOf
  <1>6. LeasesKnown'
    BY <1>2, <1>f DEF WorkerInv, LeasesKnown, Busy
  <1>7. SignalsKnown'
    BY <1>1, <1>f, SignalsStay
  <1>8. ResultsKnown' /\ SuccessHasResults'
    <2>1. \A k \in Jobs : job'[k].status = "SUCCEEDED" => job[k].status = "SUCCEEDED"
      BY <1>f
    <2>2. \A t \in Workers : slot'[t].at \in {"notify", "check"} => slot'[t] = slot[t]
      BY <1>f
    <2>3. QED
      BY <1>1, <2>1, <2>2, ResultsStay
  <1>9. AttemptsKnown'
    <2>1. Waits(j)
      BY <1>f DEF Waits
    <2>2. ~Waits(j)'
      <3>1. Owns(slot[s].lease)' /\ slot'[s].lease.job = j /\ Busy(s)'
        BY <1>f DEF Owns
      <3>2. QED
        BY <3>1, <1>f DEF Waits, Held
    <2>3. \A t \in Workers : Busy(t) => Busy(t)' /\ slot'[t].lease = slot[t].lease
      BY <1>f DEF Busy
    <2>4. SpentGrows
      BY <1>1, SpentSame DEF WorkerInv
    <2>5. QED
      BY <2>1, <2>2, <2>3, <2>4, <1>f, OneJobAttempts
  <1>10. QED
    BY <1>2, <1>4, <1>5, <1>6, <1>7, <1>8, <1>9 DEF WorkerInv

(* A heartbeat arrives in time.                                            *)
LEMMA BeatFacts ==
    ASSUME WorkerInv, NEW s \in Workers, Busy(s), HeartbeatJobLease(slot[s].lease)
    PROVE  /\ QueueNext
           /\ LET j == slot[s].lease.job IN
              /\ \A k \in Jobs \ {j} : job'[k] = job[k]
              /\ job'[j].status = job[j].status /\ job'[j].attempt = job[j].attempt
              /\ job'[j].worker = job[j].worker /\ job'[j].lease > 0 /\ job'[j].lease \in Int
  <1>1. PICK j \in Jobs : j = slot[s].lease.job
    BY BusySlot
  <1>2. job \in [Jobs -> Rows]
    BY DEF WorkerInv, QueueInv, QueueTypeOK
  <1>3. PICK row : row = [job[j] EXCEPT !.lease = BeatTicks]
    OBVIOUS
  <1>4. /\ row.status = job[j].status /\ row.attempt = job[j].attempt
        /\ row.worker = job[j].worker /\ row.lease = BeatTicks
    BY <1>2, <1>3 DEF Rows
  <1>5. job' = [job EXCEPT ![j] = row]
    BY <1>1, <1>3 DEF HeartbeatJobLease, Extended
  <1>6. QueueNext
    BY BusySlot DEF QueueNext
  <1>7. QED
    BY <1>1, <1>2, <1>4, <1>5, <1>6, TicksAssumption

LEMMA BeatStep ==
    ASSUME WorkerInv, NEW s \in Workers, Busy(s), HeartbeatJobLease(slot[s].lease),
           UNCHANGED <<run, slot, spent, cycle, asked, stopping, admin>>
    PROVE  WorkerInv'
  <1>1. PICK j \in Jobs : j = slot[s].lease.job
    BY BusySlot
  <1>2. /\ QueueNext /\ \A k \in Jobs \ {j} : job'[k] = job[k]
        /\ job'[j].status = job[j].status /\ job'[j].attempt = job[j].attempt
        /\ job'[j].worker = job[j].worker /\ job'[j].lease > 0
    BY <1>1, BeatFacts
  <1>3. Owns(slot[s].lease)
    BY DEF HeartbeatJobLease
  <1>4. SpentGrows /\ ProcsTyped'
    BY SpentSame, ProcTypes DEF WorkerInv, ProcsTyped
  <1>5. BatchesKnown' /\ SignalsKnown'
    BY BatchesStay, SignalsStay DEF Busy
  <1>6. ~Waits(j)'
    <2>1. Owns(slot[s].lease)'
      BY <1>1, <1>2, <1>3 DEF Owns
    <2>2. QED
      BY <1>1, <1>2, <1>3, <2>1 DEF Waits, Held, Busy, Owns
  <1>7. AttemptsKnown'
    <2>1. \A t \in Workers : Busy(t) => Busy(t)' /\ slot'[t].lease = slot[t].lease
      BY DEF Busy
    <2>2. QED
      BY <1>2, <1>4, <1>6, <2>1, OneJobAttempts
  <1>8. \A k \in Jobs : job'[k].status = "SUCCEEDED" => job[k].status = "SUCCEEDED"
    BY <1>2
  <1>9. QED
    BY <1>2, <1>4, <1>5, <1>7, <1>8, QueueOnlyStep

LEMMA HeartbeatStep ==
    ASSUME WorkerInv, NEW s \in Workers, Heartbeat(s)
    PROVE  WorkerInv'
  <1>1. Busy(s) /\ UNCHANGED <<run, cycle, asked, stopping, admin>> /\ TypeOK
    BY DEF Heartbeat, WorkerInv
  <1>2. CASE HeartbeatJobLease(slot[s].lease) /\ UNCHANGED <<slot, spent>>
    BY <1>1, <1>2, BeatStep
  <1>3. CASE slot' = [slot EXCEPT ![s].aborted = TRUE] /\ UNCHANGED <<queueVars, spent>>
    BY <1>1, <1>3, SpentSame, DeafBeatStep
  <1>4. CASE slot' = [slot EXCEPT ![s].aborted = TRUE] /\ Fault /\ UNCHANGED queueVars
    BY <1>1, <1>4, SpentFault, DeafBeatStep
  <1>5. QED
    BY <1>2, <1>3, <1>4 DEF Heartbeat

-----------------------------------------------------------------------------
(* Time.                                                                   *)

LEMMA TickFacts ==
    ASSUME WorkerInv, WorkerTick
    PROVE  /\ QueueNext /\ UNCHANGED <<issued, verdicts, run, cycle, asked, stopping, admin>>
           /\ \A j \in Jobs :
                 /\ job'[j].status = job[j].status /\ job'[j].attempt = job[j].attempt
                 /\ job'[j].worker = job[j].worker
                 /\ job'[j].lease = IF job[j].lease > 0 THEN job[j].lease - 1
                                                        ELSE job[j].lease
           /\ slot' \in [Workers -> SlotRows]
           /\ \A s \in Workers : /\ slot'[s].at = slot[s].at
                                 /\ slot'[s].lease = slot[s].lease
                                 /\ slot'[s].aborted = slot[s].aborted
           /\ SpentGrows
           /\ (\E s \in Workers : RunsOut(s)) => /\ spent'["stalls"] = spent["stalls"] + 1
                                                 /\ Lost' = Lost + 1
  <1>1. /\ PassTime /\ UNCHANGED <<issued, verdicts, run, cycle, asked, stopping, admin>>
        /\ slot' = [s \in Workers |-> IF slot[s].left > 0 THEN [slot[s] EXCEPT !.left = @ - 1]
                                                          ELSE slot[s]]
        /\ IF \E s \in Workers : RunsOut(s) THEN Spend("stalls", StallBound)
                                            ELSE UNCHANGED spent
    BY DEF WorkerTick
  <1>2. QueueNext
    BY <1>1 DEF QueueNext, Tick
  <1>3. \A j \in Jobs :
           /\ job'[j].status = job[j].status /\ job'[j].attempt = job[j].attempt
           /\ job'[j].worker = job[j].worker
           /\ job'[j].lease = IF job[j].lease > 0 THEN job[j].lease - 1 ELSE job[j].lease
    BY <1>1 DEF PassTime, Aged
  <1>4. ASSUME NEW s \in Workers
        PROVE  /\ slot'[s] \in SlotRows /\ slot'[s].at = slot[s].at
               /\ slot'[s].lease = slot[s].lease /\ slot'[s].aborted = slot[s].aborted
    <2>1. PICK row \in SlotRows : row = slot[s]
      BY ProcTypes
    <2>2. PICK left \in 0 .. LeaseTicks : left = row.left
      BY <2>1 DEF SlotRows
    <2>3. slot'[s] = IF left > 0 THEN [row EXCEPT !.left = left - 1] ELSE row
      BY <1>1, <2>1, <2>2
    <2>4. left > 0 => left - 1 \in 0 .. LeaseTicks
      BY TicksAssumption
    <2>5. QED
      BY <2>1, <2>3, <2>4 DEF SlotRows
  <1>5. slot' \in [Workers -> SlotRows]
    BY <1>1, <1>4
  <1>6. SpentGrows
    BY <1>1, SpentOne, SpentSame DEF WorkerInv, Budgets
  <1>7. (\E s \in Workers : RunsOut(s)) => /\ spent'["stalls"] = spent["stalls"] + 1
                                           /\ Lost' = Lost + 1
    <2> SUFFICES ASSUME \E s \in Workers : RunsOut(s)
                 PROVE  spent'["stalls"] = spent["stalls"] + 1 /\ Lost' = Lost + 1
      OBVIOUS
    <2>1. spent \in [Budgets -> Nat] /\ "stalls" \in Budgets
      BY DEF WorkerInv, TypeOK, Budgets
    <2>2. /\ spent'["stalls"] = spent["stalls"] + 1
          /\ \A c \in Budgets : c # "stalls" => spent'[c] = spent[c]
      BY <1>1, <2>1, SpendFacts
    <2>3. QED
      BY <2>1, <2>2 DEF Lost, Budgets
  <1>8. QED
    BY <1>1, <1>2, <1>3, <1>4, <1>5, <1>6, <1>7

LEMMA TickStep == ASSUME WorkerInv, WorkerTick PROVE WorkerInv'
  <1>1. /\ QueueNext /\ UNCHANGED <<issued, verdicts, run, cycle, asked, stopping, admin>>
        /\ \A j \in Jobs :
              /\ job'[j].status = job[j].status /\ job'[j].attempt = job[j].attempt
              /\ job'[j].worker = job[j].worker
              /\ job'[j].lease = IF job[j].lease > 0 THEN job[j].lease - 1
                                                     ELSE job[j].lease
        /\ slot' \in [Workers -> SlotRows]
        /\ \A s \in Workers : /\ slot'[s].at = slot[s].at
                              /\ slot'[s].lease = slot[s].lease
                              /\ slot'[s].aborted = slot[s].aborted
        /\ SpentGrows
        /\ (\E s \in Workers : RunsOut(s)) => Lost' = Lost + 1
    BY TickFacts
  <1>2. QueueInv' /\ QueueTypeOK' /\ \A s \in Workers : Busy(s)' <=> Busy(s)
    BY <1>1, QueueStepTypes DEF Busy
  <1>3. TypeOK'
    BY <1>1, <1>2 DEF WorkerInv, TypeOK, SlotRows, SpentGrows
  <1>4. BatchesKnown' /\ SignalsKnown' /\ LeasesKnown'
    <2>1. LeasesKnown'
      BY <1>1, <1>2 DEF WorkerInv, LeasesKnown
    <2>2. QED
      BY <1>1, <1>2, <2>1, BatchesStay, SignalsStay
  <1>5. ResultsKnown' /\ SuccessHasResults'
    BY <1>1, ResultsStay
  <1>6. ASSUME NEW j \in Jobs, Waits(j)', ~(Lost < Lost') PROVE Waits(j)
    <2>1. Lost \in Nat
      BY LostType DEF WorkerInv
    <2>2. \A s \in Workers : ~RunsOut(s)
      BY <1>1, <1>6, <2>1
    <2>3. ASSUME Held(j) PROVE Held(j)'
      <3>1. PICK s \in Workers : Busy(s) /\ slot[s].lease.job = j /\ Owns(slot[s].lease)
        BY <2>3 DEF Held
      <3>2. job[j].lease > 0 /\ job[j].lease # 1 /\ job[j].lease \in Int
        BY <2>2, <3>1, JobTypes DEF RunsOut, Owns
      <3>3. job'[j].lease > 0
        BY <1>1, <3>2
      <3>4. Owns(slot[s].lease)' /\ slot'[s].lease.job = j
        BY <1>1, <3>1, <3>3 DEF Owns
      <3>5. QED
        BY <1>2, <3>1, <3>4 DEF Held
    <2>4. QED
      BY <1>1, <1>6, <2>3 DEF Waits
  <1>7. AttemptsKnown'
    BY <1>1, <1>6, AttemptsStep
  <1>8. QED
    BY <1>2, <1>3, <1>4, <1>5, <1>7 DEF WorkerInv

-----------------------------------------------------------------------------
(* Reports, and the end of a process: slots give up their leases.          *)

(* A busy slot is as it was, or goes on to report a failure.               *)
SlotsShrink ==
    /\ slot' \in [Workers -> SlotRows]
    /\ \A s \in Workers : Busy(s)' =>
          /\ Busy(s) /\ slot'[s].lease = slot[s].lease
          /\ slot'[s] = slot[s] \/ slot'[s].at = "report"

LEMMA ShrinkStep ==
    ASSUME WorkerInv, SlotsShrink, [QueueNext]_queueVars, SpentGrows,
           UNCHANGED run, ProcsTyped', BatchesKnown', UNCHANGED stopping, AttemptsKnown',
           \A j \in Jobs : job'[j].status = "SUCCEEDED" =>
              job[j].status = "SUCCEEDED" \/ run[RunOf[j]].results
    PROVE  WorkerInv'
  <1>1. QueueInv' /\ QueueTypeOK' /\ issued \subseteq issued'
    <2>1. CASE QueueNext
      BY <2>1, QueueStepTypes
    <2>2. CASE UNCHANGED queueVars
      BY <2>2, StepInv DEF WorkerInv, QueueInv, queueVars
    <2>3. QED
      BY <2>1, <2>2
  <1>2. TypeOK'
    <2>1. run' \in [Runs -> RunRows] /\ slot' \in [Workers -> SlotRows']
      BY <1>1 DEF WorkerInv, TypeOK, RunRows, SlotsShrink, SlotRows
    <2>2. QED
      BY <1>1, <2>1 DEF TypeOK, ProcsTyped, CycleStates, AdminRows, SlotRows, RunRows, SpentGrows
  <1>3. LeasesKnown'
    BY <1>1 DEF WorkerInv, LeasesKnown, SlotsShrink
  <1>4. SignalsKnown'
    <2>1. \A s \in Workers : slot'[s].at = "leased" => slot'[s] = slot[s]
      BY DEF SlotsShrink, Busy
    <2>2. QED
      BY <2>1, SignalsStay
  <1>5. ResultsKnown' /\ SuccessHasResults'
    <2>1. \A s \in Workers : slot'[s].at \in {"notify", "check"} => slot'[s] = slot[s]
      BY DEF SlotsShrink, Busy
    <2>2. QED
      BY <2>1, ResultsStay
  <1>6. QED
    BY <1>1, <1>2, <1>3, <1>4, <1>5 DEF WorkerInv

(* The slot's verdict is accepted, or nothing happens to the queue.        *)
Reports(s) ==
    \/ UNCHANGED queueVars
    \/ slot[s].at = "check" /\ MarkJobSucceeded(slot[s].lease)
    \/ MarkJobFailed(slot[s].lease)

LEMMA VerdictFacts ==
    ASSUME WorkerInv, NEW s \in Workers, Busy(s), Reports(s), ~UNCHANGED queueVars,
           NEW j, j = slot[s].lease.job
    PROVE  /\ QueueNext /\ Owns(slot[s].lease)
           /\ \A k \in Jobs \ {j} : job'[k] = job[k]
           /\ job'[j].attempt = job[j].attempt
           /\ Waits(j)' => job[j].attempt < MaxAttempts
           /\ job'[j].status = "SUCCEEDED" => slot[s].at = "check"
           /\ job'[j].status \in {"QUEUED", "SUCCEEDED", "FAILED"}
  <1>1. j \in Jobs /\ slot[s].lease \in issued
    BY BusySlot
  <1>2. job \in [Jobs -> Rows]
    BY DEF WorkerInv, QueueInv, QueueTypeOK
  <1>3. CASE slot[s].at = "check" /\ MarkJobSucceeded(slot[s].lease)
    <2>1. QueueNext
      BY <1>1, <1>3 DEF QueueNext
    <2>2. /\ Owns(slot[s].lease)
          /\ job' = [job EXCEPT ![j] = Finished(job[j], "SUCCEEDED")]
      BY <1>3 DEF MarkJobSucceeded
    <2>3. /\ \A k \in Jobs \ {j} : job'[k] = job[k]
          /\ job'[j].attempt = job[j].attempt /\ job'[j].status = "SUCCEEDED"
      BY <1>1, <1>2, <2>2 DEF Finished
    <2>4. QED
      BY <1>3, <2>1, <2>2, <2>3 DEF Waits
  <1>4. CASE MarkJobFailedRetry(slot[s].lease)
    <2>1. QueueNext
      BY <1>1, <1>4 DEF QueueNext
    <2>2. /\ Owns(slot[s].lease) /\ slot[s].lease.attempt < MaxAttempts
          /\ job' = [job EXCEPT ![j] = Requeued(job[j], Backoff[slot[s].lease.attempt])]
      BY <1>4 DEF MarkJobFailedRetry
    <2>3. /\ \A k \in Jobs \ {j} : job'[k] = job[k]
          /\ job'[j].attempt = job[j].attempt /\ job'[j].status = "QUEUED"
      BY <1>1, <1>2, <2>2 DEF Requeued
    <2>4. job[j].attempt < MaxAttempts
      BY <2>2, OwnedJob
    <2>5. QED
      BY <2>1, <2>2, <2>3, <2>4
  <1>5. CASE MarkJobFailedFinal(slot[s].lease)
    <2>1. QueueNext
      BY <1>1, <1>5 DEF QueueNext
    <2>2. /\ Owns(slot[s].lease)
          /\ job' = [job EXCEPT ![j] = Finished(job[j], "FAILED")]
      BY <1>5 DEF MarkJobFailedFinal
    <2>3. /\ \A k \in Jobs \ {j} : job'[k] = job[k]
          /\ job'[j].attempt = job[j].attempt /\ job'[j].status = "FAILED"
      BY <1>1, <1>2, <2>2 DEF Finished
    <2>4. QED
      BY <2>1, <2>2, <2>3 DEF Waits
  <1>6. QED
    BY <1>3, <1>4, <1>5 DEF Reports, MarkJobFailed

(* What a report means for the results of runs.                            *)
LEMMA ReportedResults ==
    ASSUME WorkerInv, NEW s \in Workers, Busy(s), Reports(s)
    PROVE  /\ [QueueNext]_queueVars
           /\ \A k \in Jobs : job'[k].status = "SUCCEEDED" =>
                 job[k].status = "SUCCEEDED" \/ run[RunOf[k]].results
  <1>1. CASE UNCHANGED queueVars
    BY <1>1 DEF queueVars
  <1>2. CASE ~UNCHANGED queueVars
    <2>1. PICK j \in Jobs : j = slot[s].lease.job
      BY BusySlot
    <2>2. /\ QueueNext /\ \A k \in Jobs \ {j} : job'[k] = job[k]
          /\ job'[j].status = "SUCCEEDED" => slot[s].at = "check"
      BY <1>2, <2>1, VerdictFacts
    <2>3. slot[s].at = "check" => run[RunOf[j]].results
      BY <2>1 DEF WorkerInv, ResultsKnown, TheRun
    <2>4. QED
      BY <2>2, <2>3
  <1>3. QED
    BY <1>1, <1>2

(* A slot reports and gives up its lease, or goes on to report a failure.  *)
LEMMA ReportStep ==
    ASSUME WorkerInv, NEW s \in Workers, Busy(s), Reports(s), SpentGrows,
           UNCHANGED <<run, cycle, asked, stopping, admin>>,
           NEW row \in SlotRows, slot' = [slot EXCEPT ![s] = row],
           \/ row.at = "report" /\ row.lease = slot[s].lease
           \/ row.at = "free" /\ (UNCHANGED queueVars => ~Owns(slot[s].lease))
    PROVE  WorkerInv' /\ SlotsShrink
  <1>1. /\ slot' \in [Workers -> SlotRows] /\ slot'[s] = row
        /\ \A t \in Workers : t # s => slot'[t] = slot[t]
    BY ProcTypes
  <1>2. SlotsShrink
    BY <1>1 DEF SlotsShrink, Busy
  <1>3. BatchesKnown' /\ ProcsTyped'
    <2>1. \A t \in Workers : Busy(t)' => Busy(t)
      BY <1>2 DEF SlotsShrink
    <2>2. QED
      BY <2>1, BatchesStay, ProcTypes DEF ProcsTyped
  <1>4. AttemptsKnown'
    <2>1. PICK j \in Jobs : j = slot[s].lease.job
      BY BusySlot
    <2>2. \A t \in Workers : Busy(t) /\ t # s => Busy(t)' /\ slot'[t].lease = slot[t].lease
      BY <1>1 DEF Busy
    <2>3. CASE ~UNCHANGED queueVars
      <3>1. /\ \A k \in Jobs \ {j} : job'[k] = job[k]
            /\ job'[j].attempt = job[j].attempt
            /\ Waits(j)' => job[j].attempt < MaxAttempts
        BY <2>1, <2>3, VerdictFacts
      <3>2. \A t \in Workers : Busy(t) /\ slot[t].lease.job # j /\ Owns(slot[t].lease) =>
               Busy(t)' /\ slot'[t].lease = slot[t].lease
        BY <2>1, <2>2
      <3>3. QED
        BY <3>1, <3>2, OneJobAttempts
    <2>4. CASE UNCHANGED queueVars
      <3>1. UNCHANGED job
        BY <2>4 DEF queueVars
      <3>2. \A t \in Workers : Busy(t) /\ Owns(slot[t].lease) =>
               Busy(t)' /\ slot'[t].lease = slot[t].lease
        BY <1>1, <2>2, <2>4 DEF Busy
      <3>3. ASSUME NEW k \in Jobs, Waits(k)' PROVE Waits(k)
        <4>1. Held(k) => Held(k)'
          BY <3>1, <3>2 DEF Held, Owns
        <4>2. QED
          BY <3>1, <3>3, <4>1 DEF Waits
      <3>4. QED
        BY <3>1, <3>3, AttemptsStep
    <2>5. QED
      BY <2>3, <2>4
  <1>5. QED
    BY <1>2, <1>3, <1>4, ReportedResults, ShrinkStep

LEMMA ReportFailureStep ==
    ASSUME WorkerInv, NEW s \in Workers, ReportFailure(s)
    PROVE  WorkerInv' /\ Reports(s) /\ SlotsShrink
  <1>1. /\ slot[s].at = "report" /\ FailIfOwner(slot[s].lease)
        /\ slot' = [slot EXCEPT ![s] = FreeSlot]
        /\ UNCHANGED <<run, cycle, asked, stopping, admin, spent>>
    BY DEF ReportFailure
  <1>2. Busy(s) /\ Reports(s)
    BY <1>1 DEF Busy, FailIfOwner, Reports
  <1>3. UNCHANGED queueVars => ~Owns(slot[s].lease)
    <2> SUFFICES ASSUME Owns(slot[s].lease), UNCHANGED queueVars PROVE FALSE
      OBVIOUS
    <2>1. PICK j \in Jobs : j = slot[s].lease.job
      BY <1>2, BusySlot
    <2>2. MarkJobFailed(slot[s].lease)
      BY <1>1 DEF FailIfOwner
    <2>3. job[j].status = "RUNNING" /\ job' = job /\ job \in [Jobs -> Rows]
      BY <2>1 DEF Owns, queueVars, WorkerInv, QueueInv, QueueTypeOK
    <2>4. job'[j].status # "RUNNING"
      BY <2>1, <2>2, <2>3
      DEF MarkJobFailed, MarkJobFailedRetry, MarkJobFailedFinal, Requeued, Finished
    <2>5. QED
      BY <2>3, <2>4
  <1>4. SpentGrows
    BY <1>1, SpentSame DEF WorkerInv
  <1>5. QED
    BY <1>1, <1>2, <1>3, <1>4, FreeRow, ReportStep

LEMMA ReportSuccessStep ==
    ASSUME WorkerInv, NEW s \in Workers, ReportSuccess(s)
    PROVE  WorkerInv' /\ Reports(s) /\ SlotsShrink /\ SpentGrows
  <1>1. slot[s].at = "check" /\ Busy(s) /\ UNCHANGED <<run, cycle, asked, stopping, admin>>
    BY DEF ReportSuccess, Busy
  <1>2. SpentGrows
    BY SpentSame, SpentFault DEF ReportSuccess, WorkerInv
  <1>3. Reports(s)
    BY <1>1 DEF ReportSuccess, SucceedIfOwner, Reports
  <1>4. CASE Goto(s, "report")
    <2>1. PICK row : row = [slot[s] EXCEPT !.at = "report"]
      OBVIOUS
    <2>2. row \in SlotRows /\ row.at = "report" /\ row.lease = slot[s].lease
      BY <2>1, ProcTypes DEF SlotRows, Places
    <2>3. slot' = [slot EXCEPT ![s] = row]
      BY <1>4, <2>1 DEF Goto
    <2>4. QED
      BY <1>1, <1>2, <1>3, <2>2, <2>3, ReportStep
  <1>5. CASE slot' = [slot EXCEPT ![s] = FreeSlot] /\ SucceedIfOwner(slot[s].lease)
    <2>1. UNCHANGED queueVars => ~Owns(slot[s].lease)
      <3> SUFFICES ASSUME Owns(slot[s].lease), UNCHANGED queueVars PROVE FALSE
        OBVIOUS
      <3>1. PICK j \in Jobs : j = slot[s].lease.job
        BY <1>1, BusySlot
      <3>2. MarkJobSucceeded(slot[s].lease)
        BY <1>5 DEF SucceedIfOwner
      <3>3. job[j].status = "RUNNING" /\ job' = job /\ job \in [Jobs -> Rows]
        BY <3>1 DEF Owns, queueVars, WorkerInv, QueueInv, QueueTypeOK
      <3>4. job'[j].status # "RUNNING"
        BY <3>1, <3>2, <3>3 DEF MarkJobSucceeded, Finished
      <3>5. QED
        BY <3>3, <3>4
    <2>2. QED
      BY <1>1, <1>2, <1>3, <1>5, <2>1, FreeRow, ReportStep
  <1>6. QED
    BY <1>2, <1>3, <1>4, <1>5 DEF ReportSuccess

(* A process ends: its slots give up their leases, which counts as a loss. *)
LEMMA DieShrinks ==
    ASSUME WorkerInv, NEW p \in Procs, Die(p), UNCHANGED <<stopping, admin>>
    PROVE  SlotsShrink /\ ProcsTyped' /\ BatchesKnown'
  <1>1. /\ slot' \in [Workers -> SlotRows]
        /\ \A s \in Workers : IF s[1] = p THEN slot'[s] = FreeSlot ELSE slot'[s] = slot[s]
        /\ asked' \in [Procs -> 0 .. Concurrency] /\ asked'[p] = 0
        /\ cycle' \in [Procs -> CycleStates] /\ cycle'[p] = "down"
        /\ \A o \in Procs : o # p => asked'[o] = asked[o] /\ cycle'[o] = cycle[o]
    BY DieFacts DEF WorkerInv
  <1>2. \A s \in Workers : IF s[1] = p THEN ~Busy(s)' ELSE slot'[s] = slot[s]
    BY <1>1, FreeRow DEF Busy
  <1>3. SlotsShrink
    BY <1>1, <1>2 DEF SlotsShrink, Busy
  <1>4. ProcsTyped'
    BY <1>1, ProcTypes DEF ProcsTyped
  <1>5. BatchesKnown'
    BY <1>1, <1>2 DEF WorkerInv, BatchesKnown, SlotsOf, Busy
  <1>6. QED
    BY <1>3, <1>4, <1>5

LEMMA DieStep ==
    ASSUME WorkerInv, NEW p \in Procs, Die(p), UNCHANGED <<run, stopping, admin>>,
           SpentGrows, Lost < Lost', [QueueNext]_queueVars,
           \A j \in Jobs : job'[j].attempt = job[j].attempt,
           \A j \in Jobs : job'[j].status = "SUCCEEDED" =>
              job[j].status = "SUCCEEDED" \/ run[RunOf[j]].results
    PROVE  WorkerInv' /\ SlotsShrink
  <1>1. SlotsShrink /\ ProcsTyped' /\ BatchesKnown'
    BY DieShrinks
  <1>2. AttemptsKnown'
    BY AttemptsStep
  <1>3. QED
    BY <1>1, <1>2, ShrinkStep

LEMMA CrashStep ==
    ASSUME WorkerInv, NEW p \in Procs, Crash(p)
    PROVE  WorkerInv' /\ SlotsShrink /\ SpentGrows
  <1>1. /\ UNCHANGED <<job, issued, verdicts, run, stopping, admin>> /\ Die(p)
        /\ Spend("crashes", CrashBound)
    BY DEF Crash
  <1>2. spent \in [Budgets -> Nat] /\ "crashes" \in Budgets
    BY DEF WorkerInv, TypeOK, Budgets
  <1>3. /\ spent'["crashes"] = spent["crashes"] + 1
        /\ \A c \in Budgets : c # "crashes" => spent'[c] = spent[c]
    BY <1>1, <1>2, SpendFacts
  <1>4. Lost < Lost'
    BY <1>2, <1>3 DEF Lost, Budgets
  <1>5. SpentGrows
    BY <1>1, <1>2, SpentOne DEF WorkerInv
  <1>6. QED
    BY <1>1, <1>4, <1>5, DieStep DEF queueVars

LEMMA FaultLoses ==
    ASSUME WorkerInv, Fault
    PROVE  SpentGrows /\ Lost < Lost'
  <1>1. Lost \in Nat /\ spent \in [Budgets -> Nat]
    BY LostType DEF WorkerInv, TypeOK
  <1>2. Lost' = Lost + 1
    BY <1>1, FaultFacts
  <1>3. QED
    BY <1>1, <1>2, SpentFault DEF WorkerInv

LEMMA CycleThrowsStep ==
    ASSUME WorkerInv, NEW p \in Procs, CycleThrows(p)
    PROVE  WorkerInv' /\ SlotsShrink /\ SpentGrows
  <1>1. /\ UNCHANGED <<job, issued, verdicts, run, stopping, admin>> /\ Die(p) /\ Fault
    BY DEF CycleThrows
  <1>2. QED
    BY <1>1, FaultLoses, DieStep DEF queueVars

LEMMA ReportFailureThrowsStep ==
    ASSUME WorkerInv, NEW s \in Workers, ReportFailureThrows(s)
    PROVE  WorkerInv' /\ Reports(s) /\ SlotsShrink /\ SpentGrows
  <1>1. /\ slot[s].at = "report" /\ Fault /\ Die(s[1]) /\ UNCHANGED <<run, stopping, admin>>
        /\ FailIfOwner(slot[s].lease) \/ UNCHANGED queueVars
    BY DEF ReportFailureThrows
  <1>2. Busy(s) /\ Reports(s) /\ s[1] \in Procs
    BY <1>1, SlotParts DEF Busy, FailIfOwner, Reports
  <1>3. \A j \in Jobs : job'[j].attempt = job[j].attempt
    <2>1. CASE UNCHANGED queueVars
      BY <2>1 DEF queueVars
    <2>2. CASE ~UNCHANGED queueVars
      <3>1. PICK j \in Jobs : j = slot[s].lease.job
        BY <1>2, BusySlot
      <3>2. /\ \A k \in Jobs \ {j} : job'[k] = job[k]
            /\ job'[j].attempt = job[j].attempt
        BY <1>2, <2>2, <3>1, VerdictFacts
      <3>3. QED
        BY <3>2
    <2>3. QED
      BY <2>1, <2>2
  <1>4. SpentGrows /\ Lost < Lost'
    BY <1>1, FaultLoses
  <1>5. QED
    BY <1>1, <1>2, <1>3, <1>4, ReportedResults, DieStep

-----------------------------------------------------------------------------
(* The retry route.                                                        *)

(* A step of the route that leaves the queue alone.                        *)
LEMMA RouteStep ==
    ASSUME WorkerInv, UNCHANGED <<job, issued, verdicts, cycle, asked, slot, stopping>>,
           SpentGrows, run' \in [Runs -> RunRows],
           \A r \in Runs : run[r].results => run'[r].results,
           admin' \in [Admins -> AdminRows]
    PROVE  WorkerInv'
  <1>1. UNCHANGED queueVars /\ SlotsStay
    BY DEF queueVars, SlotsStay, Busy
  <1>2. QueueInv' /\ LeasesKnown' /\ AttemptsKnown'
    BY <1>1, QuietJobs
  <1>3. TypeOK'
    BY <1>2 DEF WorkerInv, TypeOK, QueueInv, RunRows, SpentGrows, AdminRows
  <1>4. BatchesKnown' /\ SignalsKnown'
    BY BatchesStay, SignalsStay DEF Busy
  <1>5. ResultsKnown' /\ SuccessHasResults'
    BY ResultsStay
  <1>6. QED
    BY <1>2, <1>3, <1>4, <1>5 DEF WorkerInv

LEMMA AdminFacts ==
    ASSUME WorkerInv, NEW a \in Admins
    PROVE  /\ admin \in [Admins -> AdminRows] /\ admin[a] \in AdminRows
           /\ admin[a].run \in Runs /\ admin[a].cut \in SUBSET Runs
           /\ run \in [Runs -> RunRows]
  <1>1. admin \in [Admins -> AdminRows] /\ run \in [Runs -> RunRows]
    BY DEF WorkerInv, TypeOK, RunRows, AdminRows
  <1>2. QED
    BY <1>1 DEF AdminRows

(* Where a request that goes on, or breaks off, is afterwards.             *)
LEMMA ContinueFacts ==
    ASSUME WorkerInv, NEW a \in Admins,
           NEW place \in {"idle", "reset", "enqueue", "undo"}, Continue(a, place)
    PROVE  /\ admin' \in [Admins -> AdminRows]
           /\ admin'[a].at = place /\ admin'[a].run = admin[a].run
           /\ admin'[a].cut = admin[a].cut
           /\ \A b \in Admins : b # a => admin'[b] = admin[b]
  <1>1. PICK row : row = [at |-> place, run |-> admin[a].run, cut |-> admin[a].cut]
    OBVIOUS
  <1>2. /\ row \in AdminRows /\ row.at = place
        /\ row.run = admin[a].run /\ row.cut = admin[a].cut
    BY <1>1, AdminFacts DEF AdminRows
  <1>3. admin' = [admin EXCEPT ![a] = row]
    BY <1>1 DEF Continue
  <1>4. QED
    BY <1>2, <1>3, AdminFacts

LEMMA BreakOffFacts ==
    ASSUME WorkerInv, NEW a \in Admins, BreakOff(a)
    PROVE  /\ admin' \in [Admins -> AdminRows]
           /\ admin'[a].at = "idle" /\ admin'[a].run = admin[a].run
           /\ admin'[a].cut = admin[a].cut \cup {admin[a].run}
           /\ \A b \in Admins : b # a => admin'[b] = admin[b]
  <1>1. PICK row : row = [at |-> "idle", run |-> admin[a].run,
                          cut |-> admin[a].cut \cup {admin[a].run}]
    OBVIOUS
  <1>2. /\ row \in AdminRows /\ row.at = "idle" /\ row.run = admin[a].run
        /\ row.cut = admin[a].cut \cup {admin[a].run}
    BY <1>1, AdminFacts DEF AdminRows
  <1>3. admin' = [admin EXCEPT ![a] = row]
    BY <1>1 DEF BreakOff
  <1>4. QED
    BY <1>2, <1>3, AdminFacts

LEMMA CheckFacts ==
    ASSUME WorkerInv, NEW a \in Admins, NEW r \in Runs, RetryCheck(a, r)
    PROVE  /\ admin' \in [Admins -> AdminRows]
           /\ admin[a].at = "idle" /\ admin'[a].at = "reset" /\ admin'[a].run = r
           /\ admin'[a].cut = admin[a].cut
           /\ \A b \in Admins : b # a => admin'[b] = admin[b]
  <1>1. PICK row : row = [at |-> "reset", run |-> r, cut |-> admin[a].cut]
    OBVIOUS
  <1>2. /\ row \in AdminRows /\ row.at = "reset" /\ row.run = r
        /\ row.cut = admin[a].cut
    BY <1>1, AdminFacts DEF AdminRows
  <1>3. admin' = [admin EXCEPT ![a] = row] /\ admin[a].at = "idle"
    BY <1>1 DEF RetryCheck
  <1>4. QED
    BY <1>2, <1>3, AdminFacts

(* What every later call of a request leaves alone.                        *)
RouteCalls(a) == RetryReset(a) \/ RetryEnqueue(a) \/ RetryUndo(a) \/ RetryDies(a)

LEMMA RouteMoves ==
    ASSUME WorkerInv, NEW a \in Admins, RouteCalls(a)
    PROVE  /\ admin' \in [Admins -> AdminRows] /\ SpentGrows
           /\ UNCHANGED <<cycle, asked, slot, stopping>>
           /\ \A b \in Admins : b # a => admin'[b] = admin[b]
           /\ \A b \in Admins : admin[b].cut \subseteq admin'[b].cut
  <1>1. BreakOff(a) \/ \E place \in {"idle", "reset", "enqueue", "undo"} : Continue(a, place)
    BY DEF RouteCalls, RetryReset, RetryEnqueue, RetryUndo, RetryDies
  <1>2. /\ admin' \in [Admins -> AdminRows] /\ admin[a].cut \subseteq admin'[a].cut
        /\ \A b \in Admins : b # a => admin'[b] = admin[b]
    BY <1>1, ContinueFacts, BreakOffFacts
  <1>3. UNCHANGED spent \/ RouteFault
    BY DEF RouteCalls, RetryReset, RetryEnqueue, RetryUndo, RetryDies
  <1>4. SpentGrows
    BY <1>3, SpentSame, SpentFault DEF WorkerInv
  <1>5. UNCHANGED <<cycle, asked, slot, stopping>>
    BY DEF RouteCalls, RetryReset, RetryEnqueue, RetryUndo, RetryDies
  <1>6. QED
    BY <1>2, <1>4, <1>5

LEMMA RetryCheckStep ==
    ASSUME WorkerInv, NEW a \in Admins, NEW r \in Runs, RetryCheck(a, r)
    PROVE  WorkerInv'
  <1>1. UNCHANGED <<job, issued, verdicts, run, cycle, asked, slot, stopping, spent>>
    BY DEF RetryCheck
  <1>2. admin' \in [Admins -> AdminRows] /\ run' \in [Runs -> RunRows]
    BY <1>1, AdminFacts, CheckFacts
  <1>3. SpentGrows
    BY <1>1, SpentSame DEF WorkerInv
  <1>4. QED
    BY <1>1, <1>2, <1>3, RouteStep

(* The calls that insert no job change no run but the one retried.         *)
LEMMA RouteRuns ==
    ASSUME WorkerInv, NEW a \in Admins, RetryReset(a) \/ RetryUndo(a) \/ RetryDies(a)
    PROVE  /\ run' \in [Runs -> RunRows]
           /\ \A q \in Runs : /\ q # admin[a].run => run'[q] = run[q]
                              /\ run[q].results => run'[q].results
  <1>1. \/ RunBecomes(admin[a].run, "QUEUED", FALSE)
        \/ RunBecomes(admin[a].run, "FAILED", TRUE)
        \/ UNCHANGED run
    BY DEF RetryReset, RetryUndo, RetryDies
  <1>2. CASE UNCHANGED run
    BY <1>2, AdminFacts
  <1>3. CASE RunBecomes(admin[a].run, "QUEUED", FALSE)
    BY <1>3, AdminFacts, RunBecomesFacts DEF RunStatuses
  <1>4. CASE RunBecomes(admin[a].run, "FAILED", TRUE)
    BY <1>4, AdminFacts, RunBecomesFacts DEF RunStatuses
  <1>5. QED
    BY <1>1, <1>2, <1>3, <1>4

LEMMA RetryRunStep ==
    ASSUME WorkerInv, NEW a \in Admins, RetryReset(a) \/ RetryUndo(a) \/ RetryDies(a)
    PROVE  WorkerInv'
  <1>1. UNCHANGED <<job, issued, verdicts, cycle, asked, slot, stopping>>
    BY DEF RetryReset, RetryUndo, RetryDies
  <1>2. SpentGrows /\ admin' \in [Admins -> AdminRows]
    BY RouteMoves DEF RouteCalls
  <1>3. run' \in [Runs -> RunRows] /\ \A q \in Runs : run[q].results => run'[q].results
    BY RouteRuns
  <1>4. QED
    BY <1>1, <1>2, <1>3, RouteStep

(* A fresh job is waiting, as its absent row was.                          *)
LEMMA EnqueueFacts ==
    ASSUME WorkerInv, NEW j \in Jobs, EnqueueJob(j)
    PROVE  /\ QueueNext /\ job[j].status = "ABSENT" /\ job'[j].status = "QUEUED"
           /\ job'[j].attempt = job[j].attempt
           /\ \A k \in Jobs \ {j} : job'[k] = job[k]
           /\ UNCHANGED <<issued, verdicts>>
  <1>1. job \in [Jobs -> Rows]
    BY DEF WorkerInv, QueueInv, QueueTypeOK
  <1>2. PICK row : row = [job[j] EXCEPT !.status = "QUEUED"]
    OBVIOUS
  <1>3. row.status = "QUEUED" /\ row.attempt = job[j].attempt
    BY <1>1, <1>2 DEF Rows
  <1>4. job' = [job EXCEPT ![j] = row] /\ job[j].status = "ABSENT"
    BY <1>2 DEF EnqueueJob
  <1>5. QED
    BY <1>1, <1>3, <1>4 DEF QueueNext, EnqueueJob

LEMMA RetryEnqueueStep ==
    ASSUME WorkerInv, NEW a \in Admins, RetryEnqueue(a)
    PROVE  WorkerInv'
  <1>1. UNCHANGED <<run, cycle, asked, slot, stopping>>
    BY DEF RetryEnqueue
  <1>2. SpentGrows
    BY RouteMoves DEF RouteCalls
  <1>3. admin' \in [Admins -> AdminRows]
    BY RouteMoves DEF RouteCalls
  <1>4. CASE UNCHANGED queueVars
    <2>1. UNCHANGED <<job, issued, verdicts>> /\ run' \in [Runs -> RunRows]
      BY <1>1, <1>4, AdminFacts DEF queueVars
    <2>2. QED
      BY <1>1, <1>2, <1>3, <2>1, RouteStep
  <1>5. CASE \E j \in Jobs : RunOf[j] = admin[a].run /\ EnqueueJob(j)
    <2>1. PICK j \in Jobs : EnqueueJob(j)
      BY <1>5
    <2>2. /\ QueueNext /\ job[j].status = "ABSENT" /\ job'[j].status = "QUEUED"
          /\ job'[j].attempt = job[j].attempt
          /\ \A k \in Jobs \ {j} : job'[k] = job[k]
      BY <2>1, EnqueueFacts
    <2>3. ProcsTyped'
      BY <1>1, <1>3, ProcTypes DEF ProcsTyped
    <2>4. BatchesKnown' /\ SignalsKnown'
      BY <1>1, BatchesStay, SignalsStay DEF Busy
    <2>5. AttemptsKnown'
      <3>1. Waits(j)
        BY <2>2 DEF Waits
      <3>2. \A s \in Workers : Busy(s) => Busy(s)' /\ slot'[s].lease = slot[s].lease
        BY <1>1 DEF Busy
      <3>3. QED
        BY <1>2, <2>2, <3>1, <3>2, OneJobAttempts
    <2>6. \A k \in Jobs : job'[k].status = "SUCCEEDED" => job[k].status = "SUCCEEDED"
      BY <2>2
    <2>7. QED
      BY <1>1, <1>2, <2>2, <2>3, <2>4, <2>5, <2>6, QueueOnlyStep
  <1>6. QED
    BY <1>4, <1>5 DEF RetryEnqueue

-----------------------------------------------------------------------------
(* The invariant holds.                                                    *)

LEMMA WorkerInit == Init => WorkerInv
<1> SUFFICES ASSUME Init PROVE WorkerInv
  OBVIOUS
<1>1. /\ issued = {} /\ verdicts = {}
      /\ \A j \in Jobs : /\ job[j] \in Rows /\ job[j].status \in {"QUEUED", "ABSENT"}
                         /\ job[j].attempt = 0 /\ job[j].worker = NoWorker
                         /\ job[j].lease = NoLease
      /\ job \in [Jobs -> Rows]
  <2>1. PICK row : row = [Absent EXCEPT !.status = "QUEUED"]
    OBVIOUS
  <2>2. Absent \in Rows /\ Absent.status = "ABSENT" /\ Absent.attempt = 0
        /\ Absent.worker = NoWorker /\ Absent.lease = NoLease
    BY TicksAssumption DEF Absent, Rows, Statuses, NoLease
  <2>3. row \in Rows /\ row.status = "QUEUED" /\ row.attempt = 0
        /\ row.worker = NoWorker /\ row.lease = NoLease
    BY <2>1, TicksAssumption DEF Absent, Rows, Statuses, NoLease
  <2>4. job = [j \in Jobs |-> IF j \in FirstJobs THEN row ELSE Absent]
    BY <2>1 DEF Init
  <2>5. QED
    BY <2>2, <2>3, <2>4 DEF Init
<1>2. QueueInv
  BY <1>1 DEF QueueInv, QueueTypeOK, OnlyRunningLeased, FenceNeverReused,
              VerdictsMatchTable, VerdictEndsLease, Terminal
<1>3. slot \in [Workers -> SlotRows] /\ \A s \in Workers : slot[s].at = "free"
  BY FreeRow DEF Init
<1>4. TypeOK
  <2>1. run \in [Runs -> RunRows]
    BY DEF Init, RunRows, RunStatuses
  <2>2. 0 \in 0 .. Concurrency
    BY SlotsAssumption
  <2>3. admin \in [Admins -> AdminRows]
    <3>1. (CHOOSE r \in Runs : TRUE) \in Runs
      BY RunsAssumption
    <3>2. QED
      BY <3>1 DEF Init, IdleAdmin, AdminRows
  <2>4. QED
    BY <1>2, <1>3, <2>1, <2>2, <2>3 DEF Init, TypeOK, QueueInv, SlotRows, RunRows, AdminRows
<1>5. BatchesKnown /\ LeasesKnown /\ SignalsKnown /\ ResultsKnown
  BY <1>3 DEF Init, BatchesKnown, LeasesKnown, SignalsKnown, ResultsKnown, Busy, SlotsOf
<1>6. SuccessHasResults
  BY <1>1 DEF SuccessHasResults
<1>7. AttemptsKnown
  <2>1. Lost = 0 /\ MaxAttempts \in Nat \ {0}
    BY TicksAssumption DEF Lost, Init, Budgets
  <2>2. QED
    BY <1>1, <2>1 DEF AttemptsKnown
<1>8. QED
  BY <1>2, <1>4, <1>5, <1>6, <1>7 DEF WorkerInv

LEMMA WorkerQuiet == ASSUME WorkerInv, UNCHANGED vars PROVE WorkerInv'
  <1>1. UNCHANGED <<job, issued, verdicts, run, slot>> /\ SpentGrows
    BY SpentSame DEF vars, WorkerInv
  <1>2. RelabelMoves
    BY <1>1, SlotsSame
  <1>3. ProcsTyped'
    BY ProcTypes DEF ProcsTyped, vars
  <1>4. BatchesKnown' /\ SignalsKnown'
    BY BatchesStay, SignalsStay DEF vars, Busy
  <1>5. QED
    BY <1>2, <1>3, <1>4, RelabelStep

LEMMA SlotStepInv ==
    ASSUME WorkerInv, NEW s \in Workers, SlotStep(s)
    PROVE  WorkerInv'
  <1>1. CASE \/ LoadRun(s) \/ MarkRunRunning(s) \/ FetchSite(s)
             \/ PersistResults(s) \/ NotifyOwner(s) \/ MarkRunFailed(s)
    <2>1. PICK place \in Places : HandlerMoves(s, place)
      BY <1>1, HandlerEffects
    <2>2. QED
      BY <2>1, HandlerStep
  <1>2. CASE ReportSuccess(s)
    BY <1>2, ReportSuccessStep
  <1>3. CASE ReportFailure(s)
    BY <1>3, ReportFailureStep
  <1>4. QED
    BY <1>1, <1>2, <1>3 DEF SlotStep

LEMMA WorkerStep == WorkerInv /\ [Next]_vars => WorkerInv'
<1> SUFFICES ASSUME WorkerInv, [Next]_vars PROVE WorkerInv'
  OBVIOUS
<1>1. ASSUME NEW p \in Procs,
             ProcStep(p) \/ Shutdown(p) \/ Crash(p) \/ CycleThrows(p)
      PROVE  WorkerInv'
  BY <1>1, StartCycleStep, AskNextStep, StartBatchStep, LoopStep, ShutdownStep, CrashStep,
     CycleThrowsStep
  DEF ProcStep
<1>2. ASSUME NEW s \in Workers, NEW j \in Jobs, LeaseSlot(s, j) PROVE WorkerInv'
  BY <1>2, LeaseSlotStep
<1>3. ASSUME NEW s \in Workers, LeaseNothing(s) PROVE WorkerInv'
  BY <1>3, LeaseNothingStep
<1>4. ASSUME NEW s \in Workers, SlotStep(s) \/ ReportFailureThrows(s) PROVE WorkerInv'
  BY <1>4, SlotStepInv, ReportFailureThrowsStep
<1>5. ASSUME NEW s \in Workers, Heartbeat(s) \/ JobTimeout(s) PROVE WorkerInv'
  BY <1>5, HeartbeatStep, JobTimeoutStep
<1>6. CASE WorkerTick
  BY <1>6, TickStep
<1>7. ASSUME NEW a \in Admins, NEW r \in Runs, RetryCheck(a, r) PROVE WorkerInv'
  BY <1>7, RetryCheckStep
<1>8. ASSUME NEW a \in Admins, RouteCalls(a)
      PROVE  WorkerInv'
  BY <1>8, RetryRunStep, RetryEnqueueStep DEF RouteCalls
<1>9. CASE UNCHANGED vars
  BY <1>9, WorkerQuiet
<1>10. QED
  BY <1>1, <1>2, <1>3, <1>4, <1>5, <1>6, <1>7, <1>8, <1>9 DEF Next, RouteCalls

(* WorkerInv holds in every reachable state of worker processes, queue and *)
(* retry requests.                                                         *)
THEOREM WorkerInvariant == Spec => []WorkerInv
  BY WorkerInit, WorkerStep, PTL DEF Spec

(* Rows, slots and requests stay of their types.                           *)
THEOREM WorkerTypesKept == Spec => []TypeOK
<1>1. WorkerInv => TypeOK
  BY DEF WorkerInv
<1> QED BY WorkerInvariant, <1>1, PTL

(* Whatever crashes, stalls and errors there are, and however often a run  *)
(* is retried: a SUCCEEDED job has results stored for its run.             *)
THEOREM SuccessMeansResults == Spec => []SuccessHasResults
<1>1. WorkerInv => SuccessHasResults
  BY DEF WorkerInv
<1> QED BY WorkerInvariant, <1>1, PTL

(* A job is attempted at most MaxAttempts times, plus once for each crash, *)
(* stall and database error of the workers.                                *)
THEOREM LossesExplainAttempts == Spec => []AttemptsExplained
<1>1. WorkerInv => AttemptsExplained
  <2> SUFFICES ASSUME WorkerInv, NEW j \in Jobs
               PROVE  job[j].attempt <= MaxAttempts + spent["crashes"] + spent["stalls"]
                                                    + spent["faults"]
    BY DEF AttemptsExplained
  <2>1. job[j].attempt <= MaxAttempts + Lost
    BY DEF WorkerInv, AttemptsKnown
  <2>2. /\ spent["crashes"] \in Nat /\ spent["stalls"] \in Nat /\ spent["faults"] \in Nat
        /\ MaxAttempts \in Nat /\ job[j].attempt \in Nat
    BY JobTypes, LostType, TicksAssumption DEF WorkerInv, Budgets
  <2>3. QED
    BY <2>1, <2>2 DEF Lost
<1> QED BY WorkerInvariant, <1>1, PTL

-----------------------------------------------------------------------------
(* What the queue promises holds with these processes as its callers.      *)

LEMMA RejectedOrAccepted ==
    ASSUME WorkerInv, NEW s \in Workers, Busy(s),
           \/ SucceedIfOwner(slot[s].lease) \/ FailIfOwner(slot[s].lease)
           \/ HeartbeatJobLease(slot[s].lease)
    PROVE  QueueNext \/ UNCHANGED queueVars
  <1>1. slot[s].lease \in issued
    BY BusySlot
  <1>2. QED
    BY <1>1 DEF SucceedIfOwner, FailIfOwner, MarkJobFailed, QueueNext

(* Every step of a process, a slot or a request is one step of the queue   *)
(* at most: no two of its statements are taken together.                   *)
LEMMA UsesQueue == WorkerInv /\ [Next]_vars => [QueueNext]_queueVars
<1> SUFFICES ASSUME WorkerInv, [Next]_vars PROVE QueueNext \/ UNCHANGED queueVars
  OBVIOUS
<1>1. ASSUME NEW p \in Procs,
             ProcStep(p) \/ Shutdown(p) \/ Crash(p) \/ CycleThrows(p)
      PROVE  QueueNext \/ UNCHANGED queueVars
  BY <1>1
  DEF ProcStep, StartCycle, AskNext, StartBatch, EndBatch, StopLoop, Restart, Shutdown,
      Crash, CycleThrows, queueVars, QueueNext
<1>2. ASSUME NEW s \in Workers, NEW j \in Jobs, LeaseSlot(s, j) PROVE QueueNext
  BY <1>2 DEF LeaseSlot, QueueNext
<1>3. ASSUME NEW s \in Workers,
             \/ LeaseNothing(s) \/ LoadRun(s) \/ MarkRunRunning(s) \/ FetchSite(s)
             \/ PersistResults(s) \/ NotifyOwner(s) \/ MarkRunFailed(s) \/ JobTimeout(s)
      PROVE  UNCHANGED queueVars
  BY <1>3
  DEF LeaseNothing, LoadRun, MarkRunRunning, FetchSite, PersistResults, NotifyOwner,
      MarkRunFailed, JobTimeout, queueVars
<1>4. ASSUME NEW s \in Workers, ReportSuccess(s) PROVE QueueNext \/ UNCHANGED queueVars
  <2>1. Busy(s)
    BY <1>4 DEF ReportSuccess, Busy
  <2>2. SucceedIfOwner(slot[s].lease) \/ UNCHANGED queueVars
    BY <1>4 DEF ReportSuccess
  <2>3. QED
    BY <2>1, <2>2, RejectedOrAccepted
<1>5. ASSUME NEW s \in Workers, ReportFailure(s) \/ ReportFailureThrows(s)
      PROVE  QueueNext \/ UNCHANGED queueVars
  <2>1. Busy(s)
    BY <1>5 DEF ReportFailure, ReportFailureThrows, Busy
  <2>2. FailIfOwner(slot[s].lease) \/ UNCHANGED queueVars
    BY <1>5 DEF ReportFailure, ReportFailureThrows
  <2>3. QED
    BY <2>1, <2>2, RejectedOrAccepted
<1>6. ASSUME NEW s \in Workers, Heartbeat(s) PROVE QueueNext \/ UNCHANGED queueVars
  <2>1. Busy(s) /\ (HeartbeatJobLease(slot[s].lease) \/ UNCHANGED queueVars)
    BY <1>6 DEF Heartbeat
  <2>2. QED
    BY <2>1, RejectedOrAccepted
<1>7. CASE WorkerTick
  BY <1>7 DEF WorkerTick, QueueNext, Tick
<1>8. ASSUME NEW a \in Admins, NEW r \in Runs, RetryCheck(a, r) PROVE UNCHANGED queueVars
  BY <1>8 DEF RetryCheck, queueVars
<1>9. ASSUME NEW a \in Admins, RouteCalls(a)
      PROVE  QueueNext \/ UNCHANGED queueVars
  BY <1>9 DEF RouteCalls, RetryReset, RetryEnqueue, RetryUndo, RetryDies, queueVars,
     QueueNext
<1>10. CASE UNCHANGED vars
  BY <1>10 DEF vars, queueVars
<1>11. QED
  BY <1>1, <1>2, <1>3, <1>4, <1>5, <1>6, <1>7, <1>8, <1>9, <1>10 DEF Next, SlotStep, RouteCalls

LEMMA FirstJobsRefine == Init => Work!WorkInit
<1> SUFFICES ASSUME Init PROVE Work!WorkInit
  OBVIOUS
<1>1. ASSUME NEW j \in Jobs
      PROVE  /\ job[j].status \in {"ABSENT", "QUEUED"}
             /\ job[j].attempt = 0 /\ job[j].worker = NoWorker
  BY DEF Init, Absent
<1>2. verdicts = {}
  BY DEF Init
<1>3. QED
  BY <1>1, <1>2, FreshRefines

(* Whatever processes do, are killed at or throw, and whatever is retried: *)
(* jobs are worked on in numbered turns, each with one holder, and what is *)
(* recorded about a job was said by the holder of its current turn.        *)
THEOREM WorkersImplementExclusiveWork == Spec => ImplementsExclusiveWork
<1>1. WorkerInv /\ [Next]_vars => [Work!WorkNext]_(Work!workVars)
  BY UsesQueue, StepRefines DEF WorkerInv
<1>2. QED
  BY WorkerInvariant, FirstJobsRefine, <1>1, PTL
  DEF Spec, ImplementsExclusiveWork, Work!WorkSpec

(* The attempt number is a fencing token for real processes too, also for  *)
(* one that is started again under the name of one that was killed.        *)
THEOREM WorkersAreFenced == Spec => []FenceNeverReused
<1>1. WorkerInv => FenceNeverReused
  BY DEF WorkerInv, QueueInv
<1>2. QED
  BY WorkerInvariant, <1>1, PTL

(* What a slot was told about its job is what the table says: a completion *)
(* that was accepted is the job's only one, whoever reports late.          *)
THEOREM WorkersAreToldTheTruth == Spec => []VerdictsMatchTable
<1>1. WorkerInv => VerdictsMatchTable
  BY DEF WorkerInv, QueueInv
<1>2. QED
  BY WorkerInvariant, <1>1, PTL

(* A job that has ended is never attempted again, and no process ends the  *)
(* live lease of another one's slot.                                       *)
THEOREM WorkersSpareOthers == Spec => TerminalIsFinal /\ LiveLeaseUndisturbed
<1>1. WorkerInv /\ [Next]_vars
        => [\A j \in Jobs : job[j].status \in Terminal => job'[j] = job[j]]_queueVars
  BY UsesQueue, StepKeepsTerminal DEF WorkerInv
<1>2. WorkerInv /\ [Next]_vars
        => [\A l \in issued :
              Owns(l) /\ ~(job'[l.job].status = "RUNNING"
                           /\ job'[l.job].attempt = l.attempt)
                 => \E v \in verdicts' \ verdicts : v.lease = l]_queueVars
  BY UsesQueue, StepSparesLiveLease DEF WorkerInv
<1>3. QED
  BY WorkerInvariant, <1>1, <1>2, PTL DEF Spec, TerminalIsFinal, LiveLeaseUndisturbed

-----------------------------------------------------------------------------
(* Signals.                                                                *)

NoStart ==
    \A s \in Workers : stopping[s[1]] /\ NotStarted(s) =>
       slot'[s].at \in {"free", "granted", "leased", "report"}

LEMMA NoStartSame ==
    ASSUME \A s \in Workers : slot'[s].at = slot[s].at \/ slot'[s].at \in {"granted", "leased"}
    PROVE  NoStart
  BY DEF NoStart, NotStarted

LEMMA NoStartShrink == ASSUME SlotsShrink PROVE NoStart
  <1>1. ASSUME NEW s \in Workers PROVE slot'[s].at = slot[s].at \/ slot'[s].at \in {"free", "report"}
    BY DEF SlotsShrink, Busy
  <1>2. QED
    BY <1>1 DEF NoStart, NotStarted

LEMMA NoStartBatch ==
    ASSUME WorkerInv, NEW p \in Procs, StartBatch(p)
    PROVE  NoStart
  <1>1. \A s \in Workers : slot'[s] = IF s[1] = p THEN Started(Begun(s)) ELSE slot[s]
    BY DEF StartBatch
  <1>2. ASSUME NEW s \in Workers, s[1] = p, stopping[s[1]], NotStarted(s)
        PROVE  slot'[s].at \in {"free", "granted", "leased", "report"}
    <2>1. PICK row \in SlotRows : row = Begun(s)
      BY BegunFacts
    <2>2. slot'[s] = Started(row)
      BY <1>1, <1>2, <2>1
    <2>3. row.at = "free" \/ (row.at = "leased" /\ row.aborted)
      <3>1. CASE slot[s].at = "granted"
        BY <1>2, <2>1, <3>1, BegunFacts
      <3>2. CASE slot[s].at # "granted"
        <4>1. row = slot[s]
          BY <2>1, <3>2, BegunFacts
        <4>2. QED
          BY <1>2, <3>2, <4>1 DEF NotStarted, WorkerInv, SignalsKnown
      <3>3. QED
        BY <3>1, <3>2
    <2>4. QED
      BY <2>2, <2>3 DEF Started, SlotRows
  <1>3. QED
    BY <1>1, <1>2 DEF NoStart, NotStarted

LEMMA NoStartStep == WorkerInv /\ [Next]_vars => [NoStart]_vars
<1> SUFFICES ASSUME WorkerInv, Next PROVE NoStart
  OBVIOUS
<1>1. CASE UNCHANGED slot
  BY <1>1, NoStartSame
<1>2. ASSUME NEW p \in Procs, AskNext(p) PROVE NoStart
  <2>1. \A s \in Workers : slot'[s] = IF s[1] = p THEN Begun(s) ELSE slot[s]
    BY <1>2 DEF AskNext
  <2>2. \A s \in Workers : Begun(s) = slot[s] \/ Begun(s).at = "leased"
    BY BegunFacts
  <2>3. QED
    BY <2>1, <2>2, NoStartSame
<1>3. ASSUME NEW p \in Procs, StartBatch(p) PROVE NoStart
  BY <1>3, NoStartBatch
<1>4. ASSUME NEW p \in Procs, Shutdown(p) PROVE NoStart
  <2>1. \A s \in Workers : \/ slot'[s] = slot[s]
                           \/ slot'[s] = [slot[s] EXCEPT !.aborted = TRUE]
    BY <1>4 DEF Shutdown
  <2>2. \A s \in Workers : [slot[s] EXCEPT !.aborted = TRUE].at = slot[s].at
    BY SignalRow, ProcTypes
  <2>3. QED
    BY <2>1, <2>2, NoStartSame
<1>5. ASSUME NEW p \in Procs, Crash(p) \/ CycleThrows(p) PROVE NoStart
  BY <1>5, CrashStep, CycleThrowsStep, NoStartShrink
<1>6. ASSUME NEW s \in Workers, NEW j \in Jobs, LeaseSlot(s, j) PROVE NoStart
  <2>1. /\ slot'[s].at = "granted" /\ \A t \in Workers : t # s => slot'[t] = slot[t]
    BY <1>6, LeaseSlotFacts
  <2>2. QED
    BY <2>1, NoStartSame
<1>7. ASSUME NEW s \in Workers, SlotStep(s) \/ ReportFailureThrows(s) PROVE NoStart
  <2>1. CASE \/ LoadRun(s) \/ MarkRunRunning(s) \/ FetchSite(s)
             \/ PersistResults(s) \/ NotifyOwner(s) \/ MarkRunFailed(s)
    <3>1. PICK place \in Places : HandlerMoves(s, place)
      BY <2>1, HandlerEffects
    <3>2. \A t \in Workers : t # s => slot'[t] = slot[t]
      BY <3>1, ProcTypes DEF HandlerMoves, Goto
    <3>3. ~NotStarted(s)
      BY <3>1 DEF HandlerMoves, NotStarted
    <3>4. QED
      BY <3>2, <3>3 DEF NoStart, NotStarted
  <2>2. CASE ReportSuccess(s) \/ ReportFailure(s) \/ ReportFailureThrows(s)
    BY <2>2, ReportSuccessStep, ReportFailureStep, ReportFailureThrowsStep, NoStartShrink
  <2>3. QED
    BY <1>7, <2>1, <2>2 DEF SlotStep
<1>8. ASSUME NEW s \in Workers, Heartbeat(s) \/ JobTimeout(s) PROVE NoStart
  <2>1. CASE slot' = [slot EXCEPT ![s].aborted = TRUE]
    <3>1. \A t \in Workers : slot'[t] = slot[t] \/ slot'[t] = [slot[t] EXCEPT !.aborted = TRUE]
      BY <2>1, ProcTypes
    <3>2. \A t \in Workers : [slot[t] EXCEPT !.aborted = TRUE].at = slot[t].at
      BY SignalRow, ProcTypes
    <3>3. QED
      BY <3>1, <3>2, NoStartSame
  <2>2. CASE JobTimeout(s)
    <3>1. \A t \in Workers : slot'[t] = slot[t] \/ t = s
      BY <2>2, ProcTypes DEF JobTimeout
    <3>2. slot'[s] = [slot[s] EXCEPT !.beating = FALSE, !.aborted = TRUE]
      BY <2>2, ProcTypes DEF JobTimeout
    <3>3. slot'[s].at = slot[s].at
      BY <3>2, ProcTypes DEF SlotRows
    <3>4. QED
      BY <3>1, <3>3, NoStartSame
  <2>3. QED
    BY <1>1, <1>8, <2>1, <2>2 DEF Heartbeat
<1>9. CASE WorkerTick
  <2>1. \A s \in Workers : slot'[s].at = slot[s].at
    BY <1>9, TickFacts
  <2>2. QED
    BY <2>1, NoStartSame
<1>10. QED
  BY <1>1, <1>2, <1>3, <1>4, <1>5, <1>6, <1>7, <1>8, <1>9
  DEF Next, ProcStep, StartCycle, EndBatch, StopLoop, Restart, LeaseNothing,
      RetryCheck, RetryReset, RetryEnqueue, RetryUndo, RetryDies

(* After a signal no handler starts, though a lease statement was under    *)
(* way when the signal arrived.                                            *)
THEOREM SignalsHold == Spec => NoStartAfterSignal
  BY WorkerInvariant, NoStartStep, PTL DEF Spec, NoStartAfterSignal, NoStart

-----------------------------------------------------------------------------
(* Two slots, or two jobs, of one run.  As long as no lease ran out under  *)
(* a live slot, whoever is in the handler owns the lease of its job; and   *)
(* a run has one job that is queued or running, because the retry route    *)
(* looks for one first, which is only true of one request at a time.       *)

OneAdmin == \A a, b \in Admins : a = b

NoStall == spent["stalls"] = 0
Calm    == NoStall /\ spent["routeFaults"] = 0

OwnersKnown ==
    NoStall => \A s \in Workers : Busy(s) /\ slot[s].at # "report" => Owns(slot[s].lease)

OneActiveJob ==
    /\ \A j, k \in Jobs : RunOf[j] = RunOf[k] /\ Active(j) /\ Active(k) => j = k
    /\ \A a \in Admins : admin[a].at \in {"reset", "enqueue"} =>
          \A j \in Jobs : RunOf[j] = admin[a].run => ~Active(j)
    /\ \A a \in Admins : admin[a].at = "undo" => spent["routeFaults"] > 0

(* What a finished measurement and a finished job say of the run.          *)
MeasuredKnown ==
    Calm => \A s \in Workers : slot[s].at \in {"notify", "check"} =>
               run[TheRun(s)].status = "SUCCEEDED"

SuccessKnown ==
    Calm => \A j \in Jobs : job[j].status = "SUCCEEDED" =>
               /\ run[RunOf[j]].status = "SUCCEEDED"
               /\ \A k \in Jobs : RunOf[k] = RunOf[j] => ~Active(k)
               /\ \A a \in Admins : admin[a].at = "enqueue" => admin[a].run # RunOf[j]

ExclusionInv == OwnersKnown /\ OneActiveJob /\ MeasuredKnown /\ SuccessKnown

LEMMA CalmBefore ==
    ASSUME WorkerInv, SpentGrows
    PROVE  (NoStall' => NoStall) /\ (Calm' => Calm)
           /\ (spent["routeFaults"] > 0 => spent'["routeFaults"] > 0)
  <1>1. \A b \in Budgets : spent[b] \in Nat /\ spent'[b] \in Nat /\ spent[b] <= spent'[b]
    BY DEF WorkerInv, TypeOK, SpentGrows
  <1>2. QED
    BY <1>1 DEF NoStall, Calm, Budgets

(* Two slots at work on one run are one slot.                              *)
LEMMA NoRival ==
    ASSUME WorkerInv, ExclusionInv, NoStall, NEW s \in Workers, NEW t \in Workers,
           Busy(s), slot[s].at # "report", Busy(t), slot[t].at # "report",
           TheRun(s) = TheRun(t)
    PROVE  s = t
  <1>1. Owns(slot[s].lease) /\ Owns(slot[t].lease)
    BY DEF ExclusionInv, OwnersKnown
  <1>2. slot[s].lease.job \in Jobs /\ slot[t].lease.job \in Jobs
    BY BusySlot
  <1>3. Active(slot[s].lease.job) /\ Active(slot[t].lease.job)
    BY <1>1, OwnedJob
  <1>4. slot[s].lease.job = slot[t].lease.job
    BY <1>2, <1>3 DEF ExclusionInv, OneActiveJob, TheRun
  <1>5. job[slot[s].lease.job].worker = s /\ job[slot[t].lease.job].worker = t
    BY <1>1, OwnedJob
  <1>6. QED
    BY <1>4, <1>5

(* Each slot that works on was at work before and keeps its lease, or has  *)
(* just been given one.                                                    *)
LEMMA OwnersStep ==
    ASSUME WorkerInv, OwnersKnown, SpentGrows,
           \A s \in Workers : Busy(s)' /\ slot'[s].at # "report" =>
              \/ Owns(slot[s].lease)'
              \/ /\ Busy(s) /\ slot[s].at # "report" /\ slot'[s].lease = slot[s].lease
                 /\ NoStall' /\ Owns(slot[s].lease) => Owns(slot[s].lease)'
    PROVE  OwnersKnown'
  <1>1. NoStall' => NoStall
    BY CalmBefore
  <1>2. QED
    BY <1>1 DEF OwnersKnown

-----------------------------------------------------------------------------
(* Whoever is at work on a job owns its lease, unless a slot stalled; this *)
(* needs nothing of the retry requests.                                    *)

(* Recycling takes leases that have run out, which nobody at work has.     *)
LEMMA StartCycleOwners ==
    ASSUME WorkerInv, OwnersKnown, NEW p \in Procs, StartCycle(p)
    PROVE  OwnersKnown'
  <1>1. UNCHANGED slot /\ SpentGrows
    BY SpentSame DEF StartCycle, WorkerInv
  <1>2. ASSUME NEW s \in Workers, Busy(s), Owns(slot[s].lease) PROVE Owns(slot[s].lease)'
    <2>1. slot[s].lease.job \in Jobs /\ Held(slot[s].lease.job)
      BY <1>2, BusySlot DEF Held
    <2>2. job'[slot[s].lease.job] = job[slot[s].lease.job]
      BY <2>1, RecycleFacts DEF StartCycle, queueVars
    <2>3. QED
      BY <1>1, <1>2, <2>2 DEF Owns
  <1>3. QED
    BY <1>1, <1>2, OwnersStep DEF Busy

(* No slot starts to work, and the table stays.                            *)
LEMMA RelabelOwners ==
    ASSUME WorkerInv, OwnersKnown, RelabelMoves
    PROVE  OwnersKnown'
  <1>1. /\ UNCHANGED job /\ SpentGrows /\ SlotsStay
        /\ \A s \in Workers : /\ slot'[s].lease = slot[s].lease
                              /\ slot'[s].at # "report" => slot[s].at # "report"
    BY RelabelStays DEF RelabelMoves
  <1>2. \A s \in Workers : Owns(slot[s].lease) => Owns(slot[s].lease)'
    BY <1>1 DEF Owns
  <1>3. QED
    BY <1>1, <1>2, OwnersStep DEF SlotsStay

LEMMA BeatOwners ==
    ASSUME WorkerInv, OwnersKnown, NEW s \in Workers, Heartbeat(s)
    PROVE  OwnersKnown'
  <1>1. Busy(s)
    BY DEF Heartbeat
  <1>2. CASE HeartbeatJobLease(slot[s].lease) /\ UNCHANGED <<slot, spent>>
    <2>1. PICK j \in Jobs : j = slot[s].lease.job
      BY <1>1, BusySlot
    <2>2. /\ \A k \in Jobs \ {j} : job'[k] = job[k]
          /\ job'[j].status = job[j].status /\ job'[j].attempt = job[j].attempt
          /\ job'[j].worker = job[j].worker /\ job'[j].lease > 0
      BY <1>1, <1>2, <2>1, BeatFacts
    <2>3. SpentGrows
      BY <1>2, SpentSame DEF WorkerInv
    <2>4. ASSUME NEW t \in Workers, Busy(t), Owns(slot[t].lease) PROVE Owns(slot[t].lease)'
      <3>1. PICK k \in Jobs : k = slot[t].lease.job
        BY <2>4, BusySlot
      <3>2. /\ job'[k].status = job[k].status /\ job'[k].attempt = job[k].attempt
            /\ job'[k].worker = job[k].worker /\ (job[k].lease > 0 => job'[k].lease > 0)
        BY <2>2
      <3>3. QED
        BY <1>2, <2>4, <3>1, <3>2 DEF Owns
    <2>5. QED
      BY <1>2, <2>3, <2>4, OwnersStep DEF Busy
  <1>3. CASE UNCHANGED queueVars /\ slot' = [slot EXCEPT ![s].aborted = TRUE]
    <2>1. SpentGrows
      BY <1>3, SpentSame, SpentFault DEF Heartbeat, WorkerInv
    <2>2. UNCHANGED <<run, cycle, asked, stopping, admin>>
      BY DEF Heartbeat
    <2>3. QED
      BY <1>1, <1>3, <2>1, <2>2, DeafBeatStep, RelabelOwners
  <1>4. QED
    BY <1>2, <1>3 DEF Heartbeat

(* A lease that runs out under a live slot is a stall.                     *)
LEMMA TickOwners == ASSUME WorkerInv, OwnersKnown, WorkerTick PROVE OwnersKnown'
  <1>1. /\ \A j \in Jobs :
              /\ job'[j].status = job[j].status /\ job'[j].attempt = job[j].attempt
              /\ job'[j].worker = job[j].worker
              /\ job'[j].lease = IF job[j].lease > 0 THEN job[j].lease - 1
                                                     ELSE job[j].lease
        /\ \A s \in Workers : slot'[s].at = slot[s].at /\ slot'[s].lease = slot[s].lease
        /\ SpentGrows
        /\ (\E s \in Workers : RunsOut(s)) => spent'["stalls"] = spent["stalls"] + 1
    BY TickFacts
  <1>2. ASSUME NEW s \in Workers, Busy(s), NoStall', Owns(slot[s].lease)
        PROVE  Owns(slot[s].lease)'
    <2>1. PICK j \in Jobs : j = slot[s].lease.job
      BY <1>2, BusySlot
    <2>2. spent["stalls"] \in Nat /\ spent'["stalls"] = 0
      BY <1>2, LostType DEF NoStall, WorkerInv, Budgets
    <2>3. ~RunsOut(s)
      BY <1>1, <2>2
    <2>4. job[j].lease > 0 /\ job[j].lease # 1 /\ job[j].lease \in Int
      BY <1>2, <2>1, <2>3, JobTypes DEF RunsOut, Owns
    <2>5. job'[j].lease > 0
      BY <1>1, <2>4
    <2>6. QED
      BY <1>1, <1>2, <2>1, <2>5 DEF Owns
  <1>3. \A s \in Workers : Busy(s)' => Busy(s)
    BY <1>1 DEF Busy
  <1>4. QED
    BY <1>1, <1>2, <1>3, OwnersStep

(* Only a job that nobody has is leased.                                   *)
LEMMA LeaseSlotOwners ==
    ASSUME WorkerInv, OwnersKnown, NEW s \in Workers, NEW j \in Jobs, LeaseSlot(s, j)
    PROVE  OwnersKnown'
  <1>1. /\ ~Busy(s) /\ slot'[s].at = "granted"
        /\ slot'[s].lease = [job |-> j, worker |-> s, attempt |-> job[j].attempt + 1]
        /\ \A t \in Workers : t # s => slot'[t] = slot[t]
        /\ job[j].status = "QUEUED" /\ job'[j].status = "RUNNING" /\ job'[j].worker = s
        /\ job'[j].attempt = job[j].attempt + 1 /\ job'[j].lease > 0
        /\ \A k \in Jobs \ {j} : job'[k] = job[k]
    BY LeaseSlotFacts
  <1>2. SpentGrows
    BY SpentSame DEF LeaseSlot, WorkerInv
  <1>3. Owns(slot[s].lease)'
    BY <1>1 DEF Owns
  <1>4. ASSUME NEW t \in Workers, t # s, Busy(t), Owns(slot[t].lease)
        PROVE  Owns(slot[t].lease)'
    <2>1. slot[t].lease.job \in Jobs /\ slot[t].lease.job # j
      BY <1>4, <1>1, BusySlot DEF Owns
    <2>2. QED
      BY <1>4, <1>1, <2>1 DEF Owns
  <1>5. \A t \in Workers : t # s /\ Busy(t)' => Busy(t)
    BY <1>1 DEF Busy
  <1>6. QED
    BY <1>1, <1>2, <1>3, <1>4, <1>5, OwnersStep

(* Slots that stay at work keep their leases, and the table stays.         *)
LEMMA ShrinkOwners ==
    ASSUME WorkerInv, OwnersKnown, SpentGrows, UNCHANGED job,
           \A s \in Workers : Busy(s)' /\ slot'[s].at # "report" =>
              /\ Busy(s) /\ slot[s].at # "report" /\ slot'[s].lease = slot[s].lease
    PROVE  OwnersKnown'
  <1>1. \A s \in Workers : Owns(slot[s].lease) /\ slot'[s].lease = slot[s].lease =>
           Owns(slot[s].lease)'
    BY DEF Owns
  <1>2. QED
    BY <1>1, OwnersStep

(* A verdict takes the job of the reporting slot from nobody else.         *)
LEMMA ReportOwners ==
    ASSUME WorkerInv, OwnersKnown, SpentGrows, NEW s \in Workers, Busy(s), Reports(s),
           SlotsShrink, slot'[s].at \in {"free", "report"}
    PROVE  OwnersKnown'
  <1>1. PICK j \in Jobs : j = slot[s].lease.job
    BY BusySlot
  <1>2. CASE UNCHANGED queueVars
    <2>1. UNCHANGED job
      BY <1>2 DEF queueVars
    <2>2. QED
      BY <2>1, ShrinkOwners DEF SlotsShrink
  <1>3. CASE ~UNCHANGED queueVars
    <2>1. Owns(slot[s].lease) /\ \A k \in Jobs \ {j} : job'[k] = job[k]
      BY <1>1, <1>3, VerdictFacts
    <2>2. job[j].worker = s
      BY <1>1, <2>1, OwnedJob
    <2>3. ASSUME NEW t \in Workers, Busy(t)', slot'[t].at # "report"
          PROVE  /\ Busy(t) /\ slot[t].at # "report" /\ slot'[t].lease = slot[t].lease
                 /\ Owns(slot[t].lease) => Owns(slot[t].lease)'
      <3>1. t # s /\ Busy(t) /\ slot[t].at # "report" /\ slot'[t] = slot[t]
        BY <2>3 DEF SlotsShrink, Busy
      <3>2. ASSUME Owns(slot[t].lease) PROVE Owns(slot[t].lease)'
        <4>1. job[slot[t].lease.job].worker = t /\ slot[t].lease.job \in Jobs
          BY <3>1, <3>2, OwnedJob, BusySlot
        <4>2. slot[t].lease.job # j
          BY <2>2, <3>1, <4>1
        <4>3. QED
          BY <2>1, <3>1, <3>2, <4>1, <4>2 DEF Owns
      <3>3. QED
        BY <3>1, <3>2
    <2>4. QED
      BY <2>3, OwnersStep
  <1>4. QED
    BY <1>2, <1>3

LEMMA ReportsShrink ==
    ASSUME WorkerInv, NEW s \in Workers,
           ReportSuccess(s) \/ ReportFailure(s) \/ ReportFailureThrows(s)
    PROVE  /\ Reports(s) /\ SlotsShrink /\ SpentGrows /\ Busy(s)
           /\ UNCHANGED <<run, admin>> /\ slot'[s].at \in {"free", "report"}
  <1>1. Reports(s) /\ SlotsShrink
    BY ReportSuccessStep, ReportFailureStep, ReportFailureThrowsStep
  <1>2. SpentGrows
    <2>1. ReportFailure(s) => SpentGrows
      BY SpentSame DEF ReportFailure, WorkerInv
    <2>2. QED
      BY <2>1, ReportSuccessStep, ReportFailureThrowsStep
  <1>3. Busy(s) /\ UNCHANGED <<run, admin>>
    BY DEF ReportSuccess, ReportFailure, ReportFailureThrows, Busy
  <1>4. slot'[s].at \in {"free", "report"}
    <2>1. CASE slot' = [slot EXCEPT ![s] = FreeSlot]
      BY <2>1, ProcTypes, FreeRow
    <2>2. CASE Goto(s, "report")
      BY <2>2, ProcTypes, GotoFacts DEF Places
    <2>3. CASE Die(s[1])
      <3>1. slot'[s] = FreeSlot
        BY <2>3 DEF Die
      <3>2. QED
        BY <3>1, FreeRow
    <2>4. QED
      BY <2>1, <2>2, <2>3 DEF ReportSuccess, ReportFailure, ReportFailureThrows
  <1>5. QED
    BY <1>1, <1>2, <1>3, <1>4

(* A call of the handler moves one slot that is at work.                   *)
LEMMA HandlerOwners ==
    ASSUME WorkerInv, OwnersKnown, NEW s \in Workers, NEW place \in Places,
           HandlerMoves(s, place)
    PROVE  OwnersKnown'
  <1>1. SpentGrows /\ SlotsStay
    BY HandlerStep
  <1>2. UNCHANGED job /\ Busy(s) /\ slot[s].at # "report"
    BY DEF HandlerMoves, Busy
  <1>3. \A t \in Workers : t # s => slot'[t] = slot[t]
    BY ProcTypes, GotoFacts DEF HandlerMoves
  <1>4. QED
    BY <1>1, <1>2, <1>3, ShrinkOwners DEF SlotsStay

LEMMA RouteOwners ==
    ASSUME WorkerInv, OwnersKnown, SpentGrows, UNCHANGED slot,
           \A j \in Jobs : job[j].status = "RUNNING" => job'[j] = job[j]
    PROVE  OwnersKnown'
  <1>1. ASSUME NEW s \in Workers, Busy(s), Owns(slot[s].lease) PROVE Owns(slot[s].lease)'
    <2>1. slot[s].lease.job \in Jobs /\ job[slot[s].lease.job].status = "RUNNING"
      BY <1>1, OwnedJob, BusySlot
    <2>2. QED
      BY <1>1, <2>1 DEF Owns
  <1>2. QED
    BY <1>1, OwnersStep DEF Busy

(* A retry inserts a job, and touches none that is RUNNING.                *)
LEMMA RetriesSpareRunning ==
    ASSUME WorkerInv, NEW a \in Admins, RouteCalls(a)
    PROVE  /\ SpentGrows /\ UNCHANGED slot
           /\ \A j \in Jobs : job[j].status = "RUNNING" => job'[j] = job[j]
  <1>1. SpentGrows /\ UNCHANGED slot
    BY RouteMoves
  <1>2. CASE UNCHANGED queueVars
    BY <1>1, <1>2 DEF queueVars
  <1>3. ASSUME NEW k \in Jobs, EnqueueJob(k)
        PROVE  \A j \in Jobs : job[j].status = "RUNNING" => job'[j] = job[j]
    <2>1. job[k].status = "ABSENT" /\ \A j \in Jobs \ {k} : job'[j] = job[j]
      BY <1>3, EnqueueFacts
    <2>2. QED
      BY <2>1
  <1>4. UNCHANGED queueVars \/ \E k \in Jobs : EnqueueJob(k)
    BY DEF RouteCalls, RetryReset, RetryEnqueue, RetryUndo, RetryDies, queueVars
  <1>5. QED
    BY <1>1, <1>2, <1>3, <1>4

LEMMA OwnersInductive == WorkerInv /\ OwnersKnown /\ [Next]_vars => OwnersKnown'
<1> SUFFICES ASSUME WorkerInv, OwnersKnown, [Next]_vars PROVE OwnersKnown'
  OBVIOUS
<1>1. ASSUME NEW p \in Procs, ProcStep(p) \/ Shutdown(p) PROVE OwnersKnown'
  BY <1>1, StartCycleOwners, RelabelOwners, AskNextStep, StartBatchStep, LoopStep,
     ShutdownStep
  DEF ProcStep
<1>2. ASSUME NEW p \in Procs, Crash(p) \/ CycleThrows(p) PROVE OwnersKnown'
  <2>1. SlotsShrink /\ SpentGrows
    BY <1>2, CrashStep, CycleThrowsStep
  <2>2. UNCHANGED job
    BY <1>2 DEF Crash, CycleThrows
  <2>3. QED
    BY <2>1, <2>2, ShrinkOwners DEF SlotsShrink
<1>3. ASSUME NEW s \in Workers, NEW j \in Jobs, LeaseSlot(s, j) PROVE OwnersKnown'
  BY <1>3, LeaseSlotOwners
<1>4. ASSUME NEW s \in Workers, LeaseNothing(s) \/ JobTimeout(s) PROVE OwnersKnown'
  BY <1>4, RelabelOwners, LeaseNothingStep, JobTimeoutStep
<1>5. ASSUME NEW s \in Workers, SlotStep(s) \/ ReportFailureThrows(s) PROVE OwnersKnown'
  <2>1. CASE \/ LoadRun(s) \/ MarkRunRunning(s) \/ FetchSite(s)
             \/ PersistResults(s) \/ NotifyOwner(s) \/ MarkRunFailed(s)
    BY <2>1, HandlerEffects, HandlerOwners
  <2>2. CASE ReportSuccess(s) \/ ReportFailure(s) \/ ReportFailureThrows(s)
    BY <2>2, ReportsShrink, ReportOwners
  <2>3. QED
    BY <1>5, <2>1, <2>2 DEF SlotStep
<1>6. ASSUME NEW s \in Workers, Heartbeat(s) PROVE OwnersKnown'
  BY <1>6, BeatOwners
<1>7. CASE WorkerTick
  BY <1>7, TickOwners
<1>8. ASSUME NEW a \in Admins, NEW r \in Runs, RetryCheck(a, r) PROVE OwnersKnown'
  BY <1>8, SpentSame, RouteOwners DEF RetryCheck, WorkerInv
<1>9. ASSUME NEW a \in Admins, RouteCalls(a)
      PROVE  OwnersKnown'
  BY <1>9, RetriesSpareRunning, RouteOwners
<1>10. CASE UNCHANGED vars
  <2>1. RelabelMoves
    BY <1>10, SlotsSame, SpentSame DEF vars, WorkerInv
  <2>2. QED
    BY <2>1, RelabelOwners
<1>11. QED
  BY <1>1, <1>2, <1>3, <1>4, <1>5, <1>6, <1>7, <1>8, <1>9, <1>10 DEF Next, RouteCalls

LEMMA OwnersInit == Init => OwnersKnown
  BY FreeRow DEF Init, OwnersKnown, Busy

(* Unless a lease ran out under a live slot, whoever is at work on a job   *)
(* owns its lease, however many requests retry however many runs.          *)
THEOREM OwnersInvariant == Spec => []OwnersKnown
  BY WorkerInvariant, OwnersInit, OwnersInductive, PTL DEF Spec

(* Unless a lease ran out under a live slot, two slots are never at work   *)
(* on one job, whatever is killed, throws or is retried at once.           *)
THEOREM JobsWorkedOnByOne ==
    Spec => [](NoStall => \A s, t \in Workers :
                  /\ Busy(s) /\ slot[s].at # "report"
                  /\ Busy(t) /\ slot[t].at # "report"
                  /\ slot[s].lease.job = slot[t].lease.job
                  => s = t)
<1>1. WorkerInv /\ OwnersKnown
        => (NoStall => \A s, t \in Workers :
               /\ Busy(s) /\ slot[s].at # "report"
               /\ Busy(t) /\ slot[t].at # "report"
               /\ slot[s].lease.job = slot[t].lease.job
               => s = t)
  <2> SUFFICES ASSUME WorkerInv, OwnersKnown, NoStall, NEW s \in Workers, NEW t \in Workers,
                      Busy(s), slot[s].at # "report", Busy(t), slot[t].at # "report",
                      slot[s].lease.job = slot[t].lease.job
               PROVE  s = t
    OBVIOUS
  <2>1. job[slot[s].lease.job].worker = s /\ job[slot[t].lease.job].worker = t
    BY OwnedJob DEF OwnersKnown
  <2>2. QED
    BY <2>1
<1>2. QED
  BY WorkerInvariant, OwnersInvariant, <1>1, PTL

(* Who changes a run: a slot at work on a job of it, or a request.         *)
RunWrittenBy(r) ==
    \/ run'[r] = run[r]
    \/ \E s \in Workers : Busy(s) /\ slot[s].at # "report" /\ TheRun(s) = r
    \/ \E a \in Admins : admin[a].run = r /\ admin[a].at \in {"reset", "undo"}

LEMMA RunsChange ==
    ASSUME WorkerInv, [Next]_vars, NEW r \in Runs
    PROVE  RunWrittenBy(r)
<1>1. CASE UNCHANGED run
  BY <1>1 DEF RunWrittenBy
<1>2. ASSUME NEW s \in Workers,
             \/ LoadRun(s) \/ MarkRunRunning(s) \/ FetchSite(s)
             \/ PersistResults(s) \/ NotifyOwner(s) \/ MarkRunFailed(s)
      PROVE  RunWrittenBy(r)
  <2>1. PICK place \in Places : HandlerMoves(s, place)
    BY <1>2, HandlerEffects
  <2>2. QED
    BY <2>1 DEF HandlerMoves, RunWrittenBy, Busy
<1>3. ASSUME NEW a \in Admins, RetryReset(a) \/ RetryUndo(a), ~UNCHANGED run
      PROVE  RunWrittenBy(r)
  <2>1. PICK q \in Runs : q = admin[a].run
    BY AdminFacts
  <2>2. admin[a].at \in {"reset", "undo"}
    BY <1>3 DEF RetryReset, RetryUndo
  <2>3. \A p \in Runs : p # q => run'[p] = run[p]
    BY <1>3, <2>1, RouteRuns
  <2>4. QED
    BY <2>1, <2>2, <2>3 DEF RunWrittenBy
<1>4. ASSUME NEW p \in Procs,
             ProcStep(p) \/ Shutdown(p) \/ Crash(p) \/ CycleThrows(p)
      PROVE  UNCHANGED run
  BY <1>4
  DEF ProcStep, StartCycle, AskNext, StartBatch, EndBatch, StopLoop, Restart, Shutdown,
      Crash, CycleThrows
<1>5. ASSUME NEW s \in Workers,
             \/ \E j \in Jobs : LeaseSlot(s, j)
             \/ LeaseNothing(s) \/ ReportSuccess(s) \/ ReportFailure(s)
             \/ ReportFailureThrows(s) \/ Heartbeat(s) \/ JobTimeout(s)
      PROVE  UNCHANGED run
  BY <1>5
  DEF LeaseSlot, LeaseNothing, ReportSuccess, ReportFailure, ReportFailureThrows, Heartbeat,
      JobTimeout
<1>6. CASE WorkerTick \/ UNCHANGED vars
  BY <1>1, <1>6 DEF WorkerTick, vars
<1>7. ASSUME NEW a \in Admins,
             RetryEnqueue(a) \/ RetryDies(a) \/ \E q \in Runs : RetryCheck(a, q)
      PROVE  UNCHANGED run
  BY <1>7 DEF RetryEnqueue, RetryDies, RetryCheck
<1>8. QED
  BY <1>1, <1>2, <1>3, <1>4, <1>5, <1>6, <1>7 DEF Next, SlotStep

(* Unless a lease ran out under a live slot, a run without a job to be     *)
(* worked on is written to by the retry route alone, for any number of     *)
(* requests.                                                               *)
THEOREM RunsRest == Spec => SettledRunsRest
<1> DEFINE Rest ==
       \A r \in Runs :
          /\ spent["stalls"] = 0
          /\ \A j \in Jobs : RunOf[j] = r => ~Active(j)
          /\ run'[r] # run[r]
          => \E a \in Admins : admin[a].run = r /\ admin[a].at \in {"reset", "undo"}
<1>1. WorkerInv /\ OwnersKnown /\ [Next]_vars => Rest
  <2> SUFFICES ASSUME WorkerInv, OwnersKnown, [Next]_vars, NEW r \in Runs,
                      spent["stalls"] = 0, run'[r] # run[r],
                      \A j \in Jobs : RunOf[j] = r => ~Active(j)
               PROVE  \E a \in Admins : admin[a].run = r /\ admin[a].at \in {"reset", "undo"}
    OBVIOUS
  <2>1. ASSUME NEW s \in Workers, Busy(s), slot[s].at # "report", TheRun(s) = r PROVE FALSE
    <3>1. Active(slot[s].lease.job) /\ slot[s].lease.job \in Jobs
      BY <2>1, OwnedJob, BusySlot DEF OwnersKnown, NoStall
    <3>2. QED
      BY <2>1, <3>1 DEF TheRun
  <2>2. RunWrittenBy(r)
    BY RunsChange
  <2>3. QED
    BY <2>1, <2>2 DEF RunWrittenBy
<1>2. WorkerInv /\ OwnersKnown /\ [Next]_vars => [Rest]_vars
  BY <1>1
<1> HIDE DEF Rest
<1>3. Spec => [][Rest]_vars
  BY WorkerInvariant, OwnersInvariant, <1>2, PTL DEF Spec
<1>4. QED
  BY <1>3 DEF SettledRunsRest, Rest

(* Nothing is created, finished or measured in this step.                  *)
LEMMA KeepsExclusion ==
    ASSUME WorkerInv, ExclusionInv, SpentGrows, OwnersKnown', UNCHANGED <<run, admin>>,
           \A j \in Jobs : job'[j].status = "SUCCEEDED" => job[j].status = "SUCCEEDED",
           \A j \in Jobs : Active(j)' => Active(j),
           \A s \in Workers : slot'[s].at \in {"notify", "check"} =>
              slot[s].at \in {"notify", "check"} /\ slot'[s].lease = slot[s].lease
    PROVE  ExclusionInv'
  <1>1. /\ Calm' => Calm
        /\ spent["routeFaults"] > 0 => spent'["routeFaults"] > 0
    BY CalmBefore
  <1>2. OneActiveJob'
    BY <1>1 DEF ExclusionInv, OneActiveJob
  <1>3. MeasuredKnown'
    BY <1>1 DEF ExclusionInv, MeasuredKnown, TheRun
  <1>4. SuccessKnown'
    BY <1>1 DEF ExclusionInv, SuccessKnown
  <1>5. QED
    BY <1>2, <1>3, <1>4 DEF ExclusionInv

LEMMA RelabelKeeps ==
    ASSUME WorkerInv, ExclusionInv, OwnersKnown', RelabelMoves, UNCHANGED admin
    PROVE  ExclusionInv'
  <1>1. /\ UNCHANGED <<job, run>> /\ SpentGrows
        /\ \A s \in Workers : /\ slot'[s].lease = slot[s].lease
                              /\ slot'[s].at \in {"notify", "check"} => slot'[s].at = slot[s].at
    BY DEF RelabelMoves
  <1>2. \A j \in Jobs : Active(j)' => Active(j)
    BY <1>1 DEF Active
  <1>3. QED
    BY <1>1, <1>2, KeepsExclusion

(* The slots stay where they are, and jobs at most go back to wait.        *)
LEMMA WaitKeeps ==
    ASSUME WorkerInv, ExclusionInv, OwnersKnown', SpentGrows, UNCHANGED <<run, admin>>,
           \A s \in Workers : slot'[s].at = slot[s].at /\ slot'[s].lease = slot[s].lease,
           \A j \in Jobs : \/ job'[j].status = job[j].status
                           \/ job[j].status = "RUNNING" /\ job'[j].status = "QUEUED"
    PROVE  ExclusionInv'
  <1>1. \A j \in Jobs : /\ Active(j)' => Active(j)
                        /\ job'[j].status = "SUCCEEDED" => job[j].status = "SUCCEEDED"
    BY DEF Active
  <1>2. QED
    BY <1>1, KeepsExclusion

LEMMA StartCycleKeeps ==
    ASSUME WorkerInv, ExclusionInv, OwnersKnown', NEW p \in Procs, StartCycle(p)
    PROVE  ExclusionInv'
  <1>1. UNCHANGED <<run, admin, slot>> /\ SpentGrows
    BY SpentSame DEF StartCycle, WorkerInv
  <1>2. \A j \in Jobs : \/ job'[j] = job[j]
                        \/ job[j].status = "RUNNING" /\ job'[j].status = "QUEUED"
    BY RecycleFacts DEF StartCycle, queueVars
  <1>3. QED
    BY <1>1, <1>2, WaitKeeps

LEMMA BeatKeeps ==
    ASSUME WorkerInv, ExclusionInv, OwnersKnown', NEW s \in Workers, Heartbeat(s)
    PROVE  ExclusionInv'
  <1>1. Busy(s) /\ UNCHANGED <<run, cycle, asked, stopping, admin>>
    BY DEF Heartbeat
  <1>2. CASE HeartbeatJobLease(slot[s].lease) /\ UNCHANGED <<slot, spent>>
    <2>1. \A k \in Jobs : job'[k].status = job[k].status
      BY <1>1, <1>2, BusySlot, BeatFacts
    <2>2. SpentGrows
      BY <1>2, SpentSame DEF WorkerInv
    <2>3. QED
      BY <1>1, <1>2, <2>1, <2>2, WaitKeeps
  <1>3. CASE UNCHANGED queueVars /\ slot' = [slot EXCEPT ![s].aborted = TRUE]
    <2>1. SpentGrows
      BY <1>3, SpentSame, SpentFault DEF Heartbeat, WorkerInv
    <2>2. QED
      BY <1>1, <1>3, <2>1, DeafBeatStep, RelabelKeeps
  <1>4. QED
    BY <1>2, <1>3 DEF Heartbeat

LEMMA TickKeeps ==
    ASSUME WorkerInv, ExclusionInv, OwnersKnown', WorkerTick
    PROVE  ExclusionInv'
  BY TickFacts, WaitKeeps

LEMMA LeaseSlotKeeps ==
    ASSUME WorkerInv, ExclusionInv, OwnersKnown', NEW s \in Workers, NEW j \in Jobs,
           LeaseSlot(s, j)
    PROVE  ExclusionInv'
  <1>1. UNCHANGED <<run, admin>> /\ SpentGrows
    BY SpentSame DEF LeaseSlot, WorkerInv
  <1>2. /\ slot'[s].at = "granted" /\ \A t \in Workers : t # s => slot'[t] = slot[t]
        /\ job[j].status = "QUEUED" /\ job'[j].status = "RUNNING"
        /\ \A k \in Jobs \ {j} : job'[k] = job[k]
    BY LeaseSlotFacts
  <1>3. \A k \in Jobs : /\ Active(k)' => Active(k)
                        /\ job'[k].status = "SUCCEEDED" => job[k].status = "SUCCEEDED"
    BY <1>2 DEF Active
  <1>4. QED
    BY <1>1, <1>2, <1>3, KeepsExclusion

(* A process ends with its slots.                                          *)
LEMMA DieKeeps ==
    ASSUME WorkerInv, ExclusionInv, OwnersKnown', NEW p \in Procs, Crash(p) \/ CycleThrows(p)
    PROVE  ExclusionInv'
  <1>1. SlotsShrink /\ SpentGrows
    BY CrashStep, CycleThrowsStep
  <1>2. UNCHANGED <<job, run, admin>>
    BY DEF Crash, CycleThrows
  <1>3. \A s \in Workers : slot'[s].at \in {"notify", "check"} => slot'[s] = slot[s]
    BY <1>1 DEF SlotsShrink, Busy
  <1>4. \A j \in Jobs : Active(j)' => Active(j)
    BY <1>2 DEF Active
  <1>5. QED
    BY <1>1, <1>2, <1>3, <1>4, KeepsExclusion

(* A job that is reported to have succeeded has its run SUCCEEDED.         *)
LEMMA ReportKeeps ==
    ASSUME WorkerInv, ExclusionInv, OwnersKnown', NEW s \in Workers, Busy(s), Reports(s),
           SlotsShrink, SpentGrows, UNCHANGED <<run, admin>>,
           slot'[s].at \in {"free", "report"}
    PROVE  ExclusionInv'
  <1>1. PICK j \in Jobs : j = slot[s].lease.job
    BY BusySlot
  <1>2. CASE UNCHANGED queueVars
    <2>1. UNCHANGED job
      BY <1>2 DEF queueVars
    <2>3. \A t \in Workers : slot'[t].at \in {"notify", "check"} => slot'[t] = slot[t]
      BY DEF SlotsShrink, Busy
    <2>4. \A k \in Jobs : Active(k)' => Active(k)
      BY <2>1 DEF Active
    <2>5. QED
      BY <2>1, <2>3, <2>4, KeepsExclusion
  <1>3. CASE ~UNCHANGED queueVars
    <2>1. /\ Owns(slot[s].lease) /\ \A k \in Jobs \ {j} : job'[k] = job[k]
          /\ job'[j].status = "SUCCEEDED" => slot[s].at = "check"
          /\ job'[j].status \in {"QUEUED", "SUCCEEDED", "FAILED"}
      BY <1>1, <1>3, VerdictFacts
    <2>2. Active(j) /\ job[j].worker = s /\ job[j].status = "RUNNING"
      BY <1>1, <2>1, OwnedJob
    <2>4. \A t \in Workers : slot'[t].at \in {"notify", "check"} => slot'[t] = slot[t]
      BY DEF SlotsShrink, Busy
    <2>5. \A k \in Jobs : Active(k)' => Active(k)
      BY <2>1, <2>2 DEF Active
    <2>6. /\ Calm' => Calm
          /\ spent["routeFaults"] > 0 => spent'["routeFaults"] > 0
      BY CalmBefore
    <2>7. OneActiveJob'
      BY <2>5, <2>6 DEF ExclusionInv, OneActiveJob
    <2>8. MeasuredKnown'
      BY <2>4, <2>6 DEF ExclusionInv, MeasuredKnown, TheRun
    <2>9. SuccessKnown'
      <3> SUFFICES ASSUME Calm', NEW k \in Jobs, job'[k].status = "SUCCEEDED"
                   PROVE  /\ run[RunOf[k]].status = "SUCCEEDED"
                          /\ \A i \in Jobs : RunOf[i] = RunOf[k] => ~Active(i)'
                          /\ \A a \in Admins : admin[a].at = "enqueue" =>
                                admin[a].run # RunOf[k]
        BY DEF SuccessKnown
      <3>1. CASE k # j
        <4>1. job[k].status = "SUCCEEDED"
          BY <2>1, <3>1
        <4>2. QED
          BY <2>5, <2>6, <4>1 DEF ExclusionInv, SuccessKnown
      <3>2. CASE k = j
        <4>1. run[RunOf[j]].status = "SUCCEEDED"
          BY <1>1, <2>1, <2>6, <3>2 DEF ExclusionInv, MeasuredKnown, TheRun
        <4>2. \A i \in Jobs : RunOf[i] = RunOf[j] => ~Active(i)'
          <5>1. ~Active(j)'
            BY <3>2 DEF Active
          <5>2. QED
            BY <2>2, <2>5, <5>1 DEF ExclusionInv, OneActiveJob
        <4>3. \A a \in Admins : admin[a].at = "enqueue" => admin[a].run # RunOf[j]
          BY <2>2 DEF ExclusionInv, OneActiveJob
        <4>4. QED
          BY <3>2, <4>1, <4>2, <4>3
      <3>3. QED
        BY <3>1, <3>2
    <2>10. QED
      BY <2>7, <2>8, <2>9 DEF ExclusionInv
  <1>4. QED
    BY <1>2, <1>3

(* A call of the handler changes the run of its own job only, and nobody   *)
(* else is at work on that run or done with it.                            *)
LEMMA HandlerKeeps ==
    ASSUME WorkerInv, ExclusionInv, OwnersKnown', NEW s \in Workers,
           NEW place \in Places, HandlerMoves(s, place)
    PROVE  ExclusionInv'
  <1>1. SpentGrows /\ SlotsStay
    BY HandlerStep
  <1>2. /\ UNCHANGED <<job, admin>> /\ Busy(s) /\ slot[s].at # "report"
        /\ slot[s].at \in {"load", "mark", "fetch", "measure", "notify", "failrun"}
        /\ \A r \in Runs : r # TheRun(s) => run'[r] = run[r]
        /\ place = "notify" => run'[TheRun(s)].status = "SUCCEEDED"
        /\ place = "check" => slot[s].at = "notify" /\ UNCHANGED run
    BY DEF HandlerMoves, Busy
  <1>3. /\ slot'[s].at = place /\ slot'[s].lease = slot[s].lease
        /\ \A t \in Workers : t # s => slot'[t] = slot[t]
    BY ProcTypes, GotoFacts DEF HandlerMoves
  <1>4. (Calm' => Calm) /\ (spent["routeFaults"] > 0 => spent'["routeFaults"] > 0)
    BY <1>1, CalmBefore
  <1>6. OneActiveJob'
    BY <1>2, <1>4 DEF ExclusionInv, OneActiveJob, Active
  <1>7. MeasuredKnown'
    <2> SUFFICES ASSUME Calm', NEW t \in Workers, slot'[t].at \in {"notify", "check"}
                 PROVE  run'[TheRun(t)'].status = "SUCCEEDED"
      BY DEF MeasuredKnown
    <2>1. CASE t # s
      <3>1. slot'[t] = slot[t] /\ Busy(t) /\ slot[t].at # "report" /\ TheRun(t)' = TheRun(t)
        BY <1>3, <2>1 DEF Busy, TheRun
      <3>2. TheRun(t) # TheRun(s)
        BY <1>2, <1>4, <2>1, <3>1, NoRival DEF Calm
      <3>3. TheRun(t) \in Runs /\ run[TheRun(t)].status = "SUCCEEDED"
        BY <1>4, <3>1, BusySlot DEF ExclusionInv, MeasuredKnown
      <3>4. QED
        BY <1>2, <3>1, <3>2, <3>3
    <2>2. CASE t = s
      <3>1. TheRun(s)' = TheRun(s) /\ place \in {"notify", "check"}
        BY <1>3, <2>2 DEF TheRun
      <3>2. CASE place = "notify"
        BY <1>2, <2>2, <3>1, <3>2
      <3>3. CASE place = "check"
        BY <1>2, <1>4, <2>2, <3>1, <3>3 DEF ExclusionInv, MeasuredKnown
      <3>4. QED
        BY <3>1, <3>2, <3>3
    <2>3. QED
      BY <2>1, <2>2
  <1>8. SuccessKnown'
    <2> SUFFICES ASSUME Calm', NEW j \in Jobs, job[j].status = "SUCCEEDED"
                 PROVE  /\ run'[RunOf[j]].status = "SUCCEEDED"
                        /\ \A k \in Jobs : RunOf[k] = RunOf[j] => ~Active(k)
                        /\ \A a \in Admins : admin[a].at = "enqueue" =>
                              admin[a].run # RunOf[j]
      BY <1>2 DEF SuccessKnown, Active
    <2>1. /\ run[RunOf[j]].status = "SUCCEEDED" /\ RunOf[j] \in Runs
          /\ \A k \in Jobs : RunOf[k] = RunOf[j] => ~Active(k)
          /\ \A a \in Admins : admin[a].at = "enqueue" => admin[a].run # RunOf[j]
      BY <1>4, JobTypes DEF ExclusionInv, SuccessKnown
    <2>2. RunOf[j] # TheRun(s)
      <3>1. Owns(slot[s].lease)
        BY <1>2, <1>4 DEF ExclusionInv, OwnersKnown, Calm
      <3>2. Active(slot[s].lease.job) /\ slot[s].lease.job \in Jobs
        BY <1>2, <3>1, OwnedJob, BusySlot
      <3>3. QED
        BY <2>1, <3>2 DEF TheRun
    <2>3. QED
      BY <1>2, <2>1, <2>2
  <1>9. QED
    BY <1>6, <1>7, <1>8 DEF ExclusionInv

-----------------------------------------------------------------------------
(* No worker leaves a run behind.  While nothing disturbs them, slots      *)
(* start with a signal that is not aborted, and a run that is not settled  *)
(* has a job that will see to it: one whose holder, if it has one, is not  *)
(* yet at its end.  This too needs nothing of the retry requests.          *)

Finishing(s) == slot[s].at \in {"notify", "check", "report"}

Open(j) == Active(j) /\ \A s \in Workers :
              slot[s].lease.job = j /\ Owns(slot[s].lease) => ~Finishing(s)

(* A request that is about to insert a job, or to take its reset back.     *)
Pending(a) == admin[a].at \in {"enqueue", "undo"}

Expected(r) ==
    \/ \E j \in Jobs : RunOf[j] = r /\ Open(j)
    \/ \E a \in Admins : admin[a].run = r /\ Pending(a)
    \/ CutOff(r)

RunsExpected == \A r \in Runs : HasJob(r) /\ ~Settled(r) => Expected(r)

StartsCalm ==
    /\ \A p \in Procs : ~stopping[p]
    /\ \A s \in Workers : /\ slot[s].at \in {"granted", "leased"} => ~slot[s].aborted
                          /\ slot[s].at = "granted" => ~slot[s].beating

CalmInv == StartsCalm /\ RunsExpected

(* Requests go on with their run, and those cut off are remembered.        *)
RequestsKept ==
    \A a \in Admins : /\ Pending(a) => Pending(a)' /\ admin'[a].run = admin[a].run
                      /\ admin[a].cut \subseteq admin'[a].cut

(* Nothing has happened but kills, and errors of the retry route.          *)
LEMMA NothingSpent ==
    ASSUME WorkerInv, SpentGrows, ~Disturbed, ~Disturbed'
    PROVE  NoStall /\ ~Fault /\ ~Spend("shutdowns", ShutdownBound)
  <1>1. \A b \in Budgets : spent[b] \in Nat /\ spent'[b] \in Nat
    BY DEF WorkerInv, TypeOK, SpentGrows
  <1>2. \A b \in Budgets \ {"crashes", "routeFaults"} : spent[b] = 0 /\ spent'[b] = 0
    BY <1>1 DEF Disturbed
  <1>3. ASSUME NEW b \in Budgets \ {"crashes", "routeFaults"}, NEW limit, Spend(b, limit) PROVE FALSE
    <2>1. spent'[b] = spent[b] + 1
      BY <1>3, SpendFacts DEF WorkerInv, TypeOK
    <2>2. QED
      BY <1>2, <2>1
  <1>4. QED
    BY <1>2, <1>3 DEF NoStall, Fault, Budgets

LEMMA GrowsAlways == WorkerInv /\ [Next]_vars => SpentGrows
<1> SUFFICES ASSUME WorkerInv, [Next]_vars PROVE SpentGrows
  OBVIOUS
<1>1. CASE UNCHANGED spent
  BY <1>1, SpentSame DEF WorkerInv
<1>2. CASE Fault \/ RouteFault
  BY <1>2, SpentFault DEF WorkerInv
<1>3. CASE \/ \E p \in Procs : Shutdown(p) \/ Crash(p) \/ CycleThrows(p)
           \/ \E s \in Workers : ReportFailureThrows(s)
  BY <1>3, ShutdownStep, CrashStep, CycleThrowsStep, ReportFailureThrowsStep DEF RelabelMoves
<1>4. CASE WorkerTick
  BY <1>4, TickFacts
<1>5. ASSUME NEW s \in Workers, SlotStep(s) \/ Heartbeat(s) \/ JobTimeout(s)
      PROVE  UNCHANGED spent \/ Fault
  BY <1>5
  DEF SlotStep, LoadRun, MarkRunRunning, FetchSite, PersistResults, NotifyOwner,
      MarkRunFailed, ReportSuccess, ReportFailure, Heartbeat, JobTimeout
<1>6. ASSUME NEW a \in Admins,
             RouteCalls(a) \/ \E r \in Runs : RetryCheck(a, r)
      PROVE  UNCHANGED spent \/ RouteFault
  BY <1>6 DEF RouteCalls, RetryReset, RetryEnqueue, RetryUndo, RetryDies, RetryCheck
<1>7. ASSUME NEW p \in Procs, ProcStep(p) PROVE UNCHANGED spent
  BY <1>7 DEF ProcStep, StartCycle, AskNext, StartBatch, EndBatch, StopLoop, Restart
<1>8. ASSUME NEW s \in Workers, LeaseNothing(s) \/ \E j \in Jobs : LeaseSlot(s, j)
      PROVE  UNCHANGED spent
  BY <1>8 DEF LeaseNothing, LeaseSlot
<1>9. CASE UNCHANGED vars
  BY <1>1, <1>9 DEF vars
<1>10. QED
  BY <1>1, <1>2, <1>3, <1>4, <1>5, <1>6, <1>7, <1>8, <1>9 DEF Next, RouteCalls

(* A job stays open unless its holder comes to its end: a lease that was   *)
(* lost is not owned again.                                                *)
LEMMA OpenStays ==
    ASSUME WorkerInv, [Next]_vars, NEW j \in Jobs, Open(j), Active(j)',
           \A s \in Workers : Finishing(s)' /\ slot'[s].lease.job = j =>
              Finishing(s) /\ slot'[s].lease = slot[s].lease
    PROVE  Open(j)'
  <1>1. ASSUME NEW s \in Workers, slot'[s].lease.job = j, Owns(slot[s].lease)', Finishing(s)',
               slot'[s].lease = slot[s].lease
        PROVE  FALSE
    <2>1. Finishing(s) /\ slot[s].lease.job = j
      BY <1>1
    <2>2. slot[s].lease \in issued
      BY <2>1, BusySlot DEF Finishing, Busy
    <2>3. Owns(slot[s].lease)
      BY <1>1, <2>2, UsesQueue, StepKeepsStale DEF WorkerInv
    <2>4. QED
      BY <2>1, <2>3 DEF Open
  <1>2. ASSUME NEW s \in Workers, slot'[s].lease.job = j, Finishing(s)'
        PROVE  ~(Owns(slot[s].lease)')
    BY <1>1, <1>2
  <1>3. QED
    BY <1>2 DEF Open

(* Steps that change no run and insert no job.                             *)
LEMMA ExpectedStays ==
    ASSUME WorkerInv, RunsExpected, UNCHANGED run,
           \A j \in Jobs : job[j].status = "ABSENT" => job'[j].status = "ABSENT",
           \A j \in Jobs : Open(j) => Open(j)',
           RequestsKept
    PROVE  RunsExpected'
  <1>1. ASSUME NEW r \in Runs, HasJob(r)', ~Settled(r)' PROVE Expected(r)'
    <2>1. HasJob(r) /\ ~Settled(r)
      BY <1>1 DEF HasJob, Settled
    <2>2. Expected(r)
      BY <2>1 DEF RunsExpected
    <2>3. CASE \E j \in Jobs : RunOf[j] = r /\ Open(j)
      BY <2>3 DEF Expected
    <2>4. CASE \E a \in Admins : admin[a].run = r /\ Pending(a)
      BY <2>4 DEF Expected, RequestsKept
    <2>5. CASE CutOff(r)
      BY <2>5 DEF Expected, RequestsKept, CutOff
    <2>6. QED
      BY <2>2, <2>3, <2>4, <2>5 DEF Expected
  <1>2. QED
    BY <1>1 DEF RunsExpected

(* Slots that move on before the handler, or not at all.                   *)
LEMMA RelabelExpected ==
    ASSUME WorkerInv, [Next]_vars, CalmInv, RelabelMoves,
           \A s \in Workers : slot'[s].at = "report" => slot[s].at = "report",
           RequestsKept
    PROVE  RunsExpected'
  <1>1. UNCHANGED <<job, run>>
    BY DEF RelabelMoves
  <1>2. \A s \in Workers : Finishing(s)' => Finishing(s) /\ slot'[s].lease = slot[s].lease
    BY DEF RelabelMoves, Finishing
  <1>3. ASSUME NEW j \in Jobs, Open(j) PROVE Open(j)'
    <2>1. Active(j)'
      BY <1>1, <1>3 DEF Open, Active
    <2>2. QED
      BY <1>2, <1>3, <2>1, OpenStays
  <1>4. QED
    BY <1>1, <1>3, ExpectedStays DEF CalmInv

LEMMA CalmRows ==
    ASSUME StartsCalm, \A p \in Procs : ~stopping'[p],
           \A s \in Workers :
              \/ slot'[s] = slot[s]
              \/ slot'[s].at \notin {"granted", "leased"}
              \/ /\ slot'[s].at = slot[s].at /\ slot'[s].aborted = slot[s].aborted
                 /\ slot'[s].beating = slot[s].beating
              \/ slot'[s].at = "leased" /\ ~slot'[s].aborted
              \/ ~slot'[s].aborted /\ ~slot'[s].beating
    PROVE  StartsCalm'
  <1>1. ASSUME NEW s \in Workers
        PROVE  /\ slot'[s].at \in {"granted", "leased"} => ~slot'[s].aborted
               /\ slot'[s].at = "granted" => ~slot'[s].beating
    BY DEF StartsCalm
  <1>2. QED
    BY <1>1 DEF StartsCalm

(* While nothing is disturbed no slot begins aborted: no signal came, its  *)
(* time is not up, and its lease is not lost.                              *)
LEMMA StartsStep ==
    ASSUME WorkerInv, OwnersKnown, StartsCalm, [Next]_vars, ~Disturbed, ~Disturbed'
    PROVE  StartsCalm'
<1>0. /\ NoStall /\ ~Fault /\ ~Spend("shutdowns", ShutdownBound)
      /\ slot \in [Workers -> SlotRows] /\ stopping \in [Procs -> BOOLEAN]
      /\ \A p \in Procs : ~stopping[p]
  BY NothingSpent, GrowsAlways, ProcTypes DEF ProcsTyped, StartsCalm
<1>1. CASE UNCHANGED <<slot, stopping>>
  BY <1>0, <1>1, CalmRows
<1>2. ASSUME NEW p \in Procs, EndBatch(p) \/ StopLoop(p) \/ Restart(p) \/ StartCycle(p)
      PROVE  StartsCalm'
  <2>1. UNCHANGED slot /\ (stopping' = stopping \/ stopping' = [stopping EXCEPT ![p] = FALSE])
    BY <1>2 DEF EndBatch, StopLoop, Restart, StartCycle
  <2>2. \A q \in Procs : ~stopping'[q]
    BY <1>0, <2>1
  <2>3. QED
    BY <2>1, <2>2, CalmRows
<1>3. ASSUME NEW p \in Procs, AskNext(p) PROVE StartsCalm'
  <2>1. UNCHANGED stopping /\ \A s \in Workers : slot'[s] = IF s[1] = p THEN Begun(s) ELSE slot[s]
    BY <1>3 DEF AskNext
  <2>2. \A s \in Workers : \/ Begun(s) = slot[s]
                           \/ Begun(s).at = "leased" /\ ~Begun(s).aborted
    BY <1>0, BegunFacts, SlotParts
  <2>3. QED
    BY <1>0, <2>1, <2>2, CalmRows
<1>4. ASSUME NEW p \in Procs, StartBatch(p) PROVE StartsCalm'
  <2>1. /\ UNCHANGED stopping
        /\ \A s \in Workers : slot'[s] = IF s[1] = p THEN Started(Begun(s)) ELSE slot[s]
    BY <1>4 DEF StartBatch
  <2>2. ASSUME NEW s \in Workers
        PROVE  Started(Begun(s)).at \notin {"granted", "leased"}
    <3>1. Begun(s) \in SlotRows /\ Begun(s).at # "granted"
      BY <1>0, BegunFacts
    <3>2. QED
      BY <3>1, StartedFacts
  <2>3. QED
    BY <1>0, <2>1, <2>2, CalmRows
<1>5. ASSUME NEW p \in Procs, Crash(p) PROVE StartsCalm'
  <2>1. UNCHANGED stopping /\ \A s \in Workers : slot'[s] = FreeSlot \/ slot'[s] = slot[s]
    BY <1>5 DEF Crash, Die
  <2>2. FreeSlot.at = "free"
    BY FreeRow
  <2>3. QED
    BY <1>0, <2>1, <2>2, CalmRows
<1>6. ASSUME NEW s \in Workers, NEW j \in Jobs, LeaseSlot(s, j) PROVE StartsCalm'
  <2>1. PICK row : row = Granted(s, j, job[j].attempt + 1)
    OBVIOUS
  <2>2. ~row.aborted /\ ~row.beating
    BY <2>1 DEF Granted
  <2>3. UNCHANGED stopping /\ \A t \in Workers : slot'[t] = slot[t] \/ slot'[t] = row
    BY <1>0, <1>6, <2>1 DEF LeaseSlot
  <2>4. QED
    BY <1>0, <2>2, <2>3, CalmRows
<1>7. ASSUME NEW s \in Workers, SlotStep(s) PROVE StartsCalm'
  <2>1. CASE \/ LoadRun(s) \/ MarkRunRunning(s) \/ FetchSite(s)
             \/ PersistResults(s) \/ NotifyOwner(s) \/ MarkRunFailed(s)
    <3>1. PICK place \in Places : HandlerMoves(s, place)
      BY <2>1, HandlerEffects
    <3>2. /\ \A t \in Workers : t # s => slot'[t] = slot[t]
          /\ slot'[s].at = place /\ place \notin {"granted", "leased"} /\ UNCHANGED stopping
      BY <1>0, <3>1, GotoFacts DEF HandlerMoves
    <3>3. QED
      BY <1>0, <3>2, CalmRows
  <2>2. CASE ReportSuccess(s) \/ ReportFailure(s)
    <3>1. SlotsShrink /\ UNCHANGED stopping
      BY <2>2, ReportsShrink DEF ReportSuccess, ReportFailure
    <3>2. \A t \in Workers : slot'[t] = slot[t] \/ slot'[t].at \in {"free", "report"}
      BY <3>1 DEF SlotsShrink, Busy
    <3>3. QED
      BY <1>0, <3>1, <3>2, CalmRows
  <2>3. QED
    BY <1>7, <2>1, <2>2 DEF SlotStep
<1>8. ASSUME NEW s \in Workers, Heartbeat(s) PROVE StartsCalm'
  <2>1. CASE UNCHANGED slot
    BY <1>1, <1>8, <2>1 DEF Heartbeat
  <2>2. CASE ~UNCHANGED slot
    <3>1. Busy(s) /\ ~Owns(slot[s].lease) /\ slot' = [slot EXCEPT ![s].aborted = TRUE]
          /\ UNCHANGED stopping
      BY <1>0, <1>8, <2>2 DEF Heartbeat
    <3>2. slot[s].at = "report"
      BY <1>0, <3>1 DEF OwnersKnown
    <3>3. PICK row : row = [slot[s] EXCEPT !.aborted = TRUE]
      OBVIOUS
    <3>4. row.at = "report"
      BY <1>0, <3>2, <3>3, SignalRow
    <3>5. slot' = [slot EXCEPT ![s] = row]
      BY <3>1, <3>3
    <3>6. \A t \in Workers : slot'[t] = slot[t] \/ slot'[t].at = "report"
      BY <1>0, <3>4, <3>5
    <3>7. QED
      BY <1>0, <3>1, <3>6, CalmRows
  <2>3. QED
    BY <2>1, <2>2
<1>9. ASSUME NEW s \in Workers, JobTimeout(s) PROVE StartsCalm'
  <2>1. PICK row : row = [[slot[s] EXCEPT !.beating = FALSE] EXCEPT !.aborted = TRUE]
    OBVIOUS
  <2>2. row.at = slot[s].at
    BY <1>0, <2>1 DEF SlotRows
  <2>3. slot[s].at \notin {"granted", "leased"}
    BY <1>9 DEF JobTimeout, StartsCalm, Disturbed
  <2>4. slot' = [slot EXCEPT ![s] = row] /\ UNCHANGED stopping
    BY <1>9, <2>1 DEF JobTimeout
  <2>5. \A t \in Workers : slot'[t] = slot[t] \/ slot'[t].at \notin {"granted", "leased"}
    BY <1>0, <2>2, <2>3, <2>4
  <2>6. QED
    BY <1>0, <2>4, <2>5, CalmRows
<1>10. CASE WorkerTick
  <2>1. ASSUME NEW s \in Workers
        PROVE  /\ slot'[s].at = slot[s].at /\ slot'[s].aborted = slot[s].aborted
               /\ slot'[s].beating = slot[s].beating
    <3>1. PICK row : row = [slot[s] EXCEPT !.left = @ - 1]
      OBVIOUS
    <3>2. row.at = slot[s].at /\ row.aborted = slot[s].aborted /\ row.beating = slot[s].beating
      BY <1>0, <3>1 DEF SlotRows
    <3>3. slot'[s] = slot[s] \/ slot'[s] = row
      BY <1>10, <3>1 DEF WorkerTick
    <3>4. QED
      BY <3>2, <3>3
  <2>2. UNCHANGED stopping
    BY <1>10 DEF WorkerTick
  <2>3. QED
    BY <1>0, <2>1, <2>2, CalmRows
<1>11. QED
  BY <1>0, <1>1, <1>2, <1>3, <1>4, <1>5, <1>6, <1>7, <1>8, <1>9, <1>10
  DEF Next, ProcStep, vars, Shutdown, CycleThrows, LeaseNothing, ReportFailureThrows,
      RetryCheck, RetryReset, RetryEnqueue, RetryUndo, RetryDies

(* Calls of the handler that throw nothing and change no run.              *)
LEMMA SilentExpected ==
    ASSUME WorkerInv, [Next]_vars, CalmInv, ~Fault, NEW s \in Workers,
           LoadRun(s) \/ FetchSite(s) \/ NotifyOwner(s)
    PROVE  RunsExpected'
  <1>1. PICK place \in Places : /\ Goto(s, place)
                                /\ Finishing(s) \/ place \notin {"notify", "check", "report"}
    BY DEF LoadRun, FetchSite, NotifyOwner, Finishing, Places
  <1>2. /\ slot'[s].at = place /\ slot'[s].lease = slot[s].lease
        /\ \A t \in Workers : t # s => slot'[t] = slot[t]
        /\ UNCHANGED <<job, run, admin>>
    BY <1>1, ProcTypes, GotoFacts DEF LoadRun, FetchSite, NotifyOwner
  <1>3. \A t \in Workers : Finishing(t)' => Finishing(t) /\ slot'[t].lease = slot[t].lease
    BY <1>1, <1>2 DEF Finishing
  <1>4. ASSUME NEW j \in Jobs, Open(j) PROVE Open(j)'
    <2>1. Active(j)'
      BY <1>2, <1>4 DEF Open, Active
    <2>2. QED
      BY <1>3, <1>4, <2>1, OpenStays
  <1>5. QED
    BY <1>2, <1>4, ExpectedStays DEF CalmInv, RequestsKept, Pending

(* Calls that write to the run of the slot concern no other run.           *)
LEMMA WriteExpected ==
    ASSUME WorkerInv, [Next]_vars, CalmInv, NEW s \in Workers, NEW place \in Places,
           HandlerMoves(s, place),
           Settled(TheRun(s))' \/ Expected(TheRun(s))'
    PROVE  RunsExpected'
  <1>1. PICK q \in Runs : q = TheRun(s)
    BY BusySlot DEF HandlerMoves, Busy
  <1>2. /\ UNCHANGED <<job, admin>> /\ slot'[s].lease = slot[s].lease
        /\ \A t \in Workers : t # s => slot'[t] = slot[t]
        /\ \A r \in Runs : r # q => run'[r] = run[r]
    BY <1>1, ProcTypes, GotoFacts DEF HandlerMoves
  <1>3. TheRun(s)' = q
    BY <1>1, <1>2 DEF TheRun
  <1>4. Settled(q)' \/ Expected(q)'
    BY <1>3 DEF Settled, Expected, Pending, CutOff
  <1>5. ASSUME NEW r \in Runs, r # q, HasJob(r)', ~Settled(r)' PROVE Expected(r)'
    <2>1. HasJob(r) /\ ~Settled(r)
      BY <1>2, <1>5 DEF HasJob, Settled
    <2>2. Expected(r)
      BY <2>1 DEF CalmInv, RunsExpected
    <2>3. ASSUME NEW j \in Jobs, RunOf[j] = r, Open(j) PROVE Open(j)'
      <3>1. j # slot[s].lease.job
        BY <1>1, <1>5, <2>3 DEF TheRun
      <3>2. \A t \in Workers : Finishing(t)' /\ slot'[t].lease.job = j =>
               Finishing(t) /\ slot'[t].lease = slot[t].lease
        BY <1>2, <3>1 DEF Finishing
      <3>3. Active(j)'
        BY <1>2, <2>3 DEF Open, Active
      <3>4. QED
        BY <2>3, <3>2, <3>3, OpenStays
    <2>4. QED
      BY <1>2, <2>2, <2>3 DEF Expected, Pending, CutOff
  <1>6. QED
    BY <1>4, <1>5 DEF RunsExpected

(* A handler that begins is not yet at its end, and nobody else has its    *)
(* job.                                                                    *)
LEMMA MarkExpected ==
    ASSUME WorkerInv, OwnersKnown, NoStall, ~Fault, [Next]_vars, CalmInv, NEW s \in Workers,
           MarkRunRunning(s)
    PROVE  RunsExpected'
  <1>1. Goto(s, "fetch") /\ Busy(s) /\ slot[s].at # "report" /\ UNCHANGED job
    BY DEF MarkRunRunning, Busy
  <1>2. PICK j \in Jobs : j = slot[s].lease.job
    BY <1>1, BusySlot
  <1>3. Owns(slot[s].lease) /\ Active(j) /\ job[j].worker = s
    BY <1>1, <1>2, OwnedJob DEF OwnersKnown
  <1>4. /\ slot'[s].at = "fetch" /\ slot'[s].lease = slot[s].lease
        /\ \A t \in Workers : t # s => slot'[t] = slot[t]
    BY <1>1, ProcTypes, GotoFacts DEF Places
  <1>5. ASSUME NEW t \in Workers, slot'[t].lease.job = j, Owns(slot[t].lease)', Finishing(t)'
        PROVE  FALSE
    <2>1. t # s /\ slot'[t] = slot[t]
      BY <1>4, <1>5 DEF Finishing
    <2>2. Busy(t) /\ Owns(slot[t].lease)
      BY <1>1, <1>5, <2>1 DEF Finishing, Busy, Owns
    <2>3. job[j].worker = t
      BY <1>5, <2>1, <2>2, OwnedJob
    <2>4. QED
      BY <1>3, <2>1, <2>3
  <1>6. Open(j)'
    BY <1>1, <1>3, <1>5 DEF Open, Active
  <1>7. TheRun(s)' = RunOf[j] /\ TheRun(s) = RunOf[j]
    BY <1>2, <1>4 DEF TheRun
  <1>8. Expected(TheRun(s))'
    BY <1>6, <1>7 DEF Expected
  <1>9. PICK place \in Places : HandlerMoves(s, place)
    BY HandlerEffects
  <1>10. QED
    BY <1>8, <1>9, WriteExpected

(* The handler's last write settles the run.                               *)
LEMMA SettleExpected ==
    ASSUME WorkerInv, ~Fault, [Next]_vars, CalmInv, NEW s \in Workers,
           PersistResults(s) \/ MarkRunFailed(s)
    PROVE  RunsExpected'
  <1>1. Busy(s) /\ (Persisted(TheRun(s)) \/ RunBecomes(TheRun(s), "FAILED", TRUE))
    BY DEF PersistResults, MarkRunFailed, Busy
  <1>2. PICK q \in Runs : q = TheRun(s)
    BY <1>1, BusySlot
  <1>3. run \in [Runs -> RunRows]
    BY DEF WorkerInv, TypeOK, RunRows
  <1>4. run'[q].status \in {"SUCCEEDED", "FAILED"}
    BY <1>1, <1>2, <1>3, PersistedFacts, RunBecomesFacts DEF RunStatuses
  <1>5. PICK place \in Places : HandlerMoves(s, place)
    BY HandlerEffects
  <1>6. slot'[s].lease = slot[s].lease
    BY <1>5, ProcTypes, GotoFacts DEF HandlerMoves
  <1>7. Settled(TheRun(s))'
    BY <1>2, <1>4, <1>6 DEF Settled, TheRun
  <1>8. QED
    BY <1>5, <1>7, WriteExpected

(* A slot that reports was at its end: another job is open, if any.        *)
LEMMA ReportExpected ==
    ASSUME WorkerInv, [Next]_vars, CalmInv, NEW s \in Workers,
           ReportSuccess(s) \/ ReportFailure(s)
    PROVE  RunsExpected'
  <1>1. /\ Reports(s) /\ SlotsShrink /\ Busy(s) /\ UNCHANGED <<run, admin>>
        /\ slot'[s].at \in {"free", "report"}
    BY ReportsShrink
  <1>2. Finishing(s)
    BY DEF ReportSuccess, ReportFailure, Finishing
  <1>3. PICK k \in Jobs : k = slot[s].lease.job
    BY <1>1, BusySlot
  <1>4. ASSUME NEW j \in Jobs
        PROVE  job'[j] = job[j] \/ (j = k /\ Owns(slot[s].lease) /\ job[j].status # "ABSENT")
    <2>1. CASE UNCHANGED queueVars
      BY <2>1 DEF queueVars
    <2>2. CASE ~UNCHANGED queueVars
      <3>1. Owns(slot[s].lease) /\ \A i \in Jobs \ {k} : job'[i] = job[i]
        BY <1>1, <1>3, <2>2, VerdictFacts
      <3>2. job[k].status = "RUNNING"
        BY <1>1, <1>3, <3>1, OwnedJob
      <3>3. QED
        BY <3>1, <3>2
    <2>3. QED
      BY <2>1, <2>2
  <1>5. ASSUME NEW j \in Jobs, Open(j) PROVE Open(j)'
    <2>1. job'[j] = job[j]
      BY <1>2, <1>3, <1>4, <1>5 DEF Open
    <2>2. \A t \in Workers : Finishing(t)' =>
             /\ slot'[t].lease = slot[t].lease
             /\ Finishing(t) \/ t # s
      BY <1>1, <1>2 DEF SlotsShrink, Finishing, Busy
    <2>3. ASSUME NEW t \in Workers, t # s PROVE slot'[t] = slot[t] \/ ~Finishing(t)'
      <3>1. CASE slot' = [slot EXCEPT ![s] = FreeSlot] \/ Goto(s, "report")
        BY <2>3, <3>1, ProcTypes DEF Goto
      <3>2. QED
        BY <3>1 DEF ReportSuccess, ReportFailure
    <2>4. \A t \in Workers : Finishing(t)' => Finishing(t) /\ slot'[t].lease = slot[t].lease
      BY <2>2, <2>3 DEF Finishing
    <2>5. Active(j)'
      BY <1>5, <2>1 DEF Open, Active
    <2>6. QED
      BY <1>5, <2>4, <2>5, OpenStays
  <1>6. \A j \in Jobs : job[j].status = "ABSENT" => job'[j].status = "ABSENT"
    BY <1>4
  <1>7. QED
    BY <1>1, <1>5, <1>6, ExpectedStays DEF CalmInv, RequestsKept, Pending

(* The retry route: a run that is reset gets a job, or the request is      *)
(* remembered as cut off.                                                  *)
LEMMA ResetExpected ==
    ASSUME WorkerInv, [Next]_vars, CalmInv, NEW a \in Admins, RetryReset(a)
    PROVE  RunsExpected'
  <1>1. PICK q \in Runs : q = admin[a].run
    BY AdminFacts
  <1>2. UNCHANGED <<job, slot>> /\ admin[a].at = "reset"
    BY DEF RetryReset
  <1>3. RequestsKept
    BY <1>2, RouteMoves DEF RouteCalls, RequestsKept, Pending
  <1>4. \A j \in Jobs : Open(j) => Open(j)'
    BY <1>2 DEF Open, Active, Owns, Finishing
  <1>5. CASE UNCHANGED run
    BY <1>2, <1>3, <1>4, <1>5, ExpectedStays DEF CalmInv
  <1>6. CASE ~UNCHANGED run
    <2>1. Continue(a, "enqueue") \/ BreakOff(a)
      BY <1>6 DEF RetryReset
    <2>2. \A r \in Runs : r # q => run'[r] = run[r]
      BY <1>1, RouteRuns
    <2>3. Expected(q)'
      <3>1. CASE Continue(a, "enqueue")
        BY <1>1, <3>1, ContinueFacts DEF Expected, Pending
      <3>2. CASE BreakOff(a)
        BY <1>1, <3>2, BreakOffFacts DEF Expected, CutOff
      <3>3. QED
        BY <2>1, <3>1, <3>2
    <2>4. ASSUME NEW r \in Runs, r # q, HasJob(r)', ~Settled(r)' PROVE Expected(r)'
      <3>1. HasJob(r) /\ ~Settled(r)
        BY <1>2, <2>2, <2>4 DEF HasJob, Settled
      <3>2. Expected(r)
        BY <3>1 DEF CalmInv, RunsExpected
      <3>3. QED
        BY <1>3, <1>4, <3>2 DEF Expected, RequestsKept, CutOff
    <2>5. QED
      BY <2>3, <2>4 DEF RunsExpected
  <1>7. QED
    BY <1>5, <1>6

LEMMA InsertExpected ==
    ASSUME WorkerInv, [Next]_vars, CalmInv, NEW a \in Admins, RetryEnqueue(a)
    PROVE  RunsExpected'
  <1>1. UNCHANGED <<run, slot>> /\ admin[a].at = "enqueue"
    BY DEF RetryEnqueue
  <1>2. Continue(a, "idle") \/ Continue(a, "undo")
    BY DEF RetryEnqueue
  <1>3. /\ \A b \in Admins : admin[b].cut \subseteq admin'[b].cut
        /\ \A b \in Admins : b # a => admin'[b] = admin[b]
    BY RouteMoves DEF RouteCalls
  <1>4. CASE UNCHANGED queueVars
    <2>1. UNCHANGED job /\ Continue(a, "undo")
      <3>1. \A k \in Jobs : ~EnqueueJob(k)
        <4> SUFFICES ASSUME NEW k \in Jobs, EnqueueJob(k) PROVE FALSE
          OBVIOUS
        <4>1. job[k].status = "ABSENT" /\ job'[k].status = "QUEUED"
          BY EnqueueFacts
        <4>2. QED
          BY <1>4, <4>1 DEF queueVars
      <3>2. QED
        BY <1>4, <3>1 DEF RetryEnqueue, queueVars
    <2>2. RequestsKept
      BY <1>3, <2>1, ContinueFacts DEF RequestsKept, Pending
    <2>3. \A j \in Jobs : Open(j) => Open(j)'
      BY <1>1, <2>1 DEF Open, Active, Owns, Finishing
    <2>4. QED
      BY <1>1, <2>1, <2>2, <2>3, ExpectedStays DEF CalmInv
  <1>5. ASSUME NEW k \in Jobs, RunOf[k] = admin[a].run, EnqueueJob(k) PROVE RunsExpected'
    <2>1. /\ job[k].status = "ABSENT" /\ job'[k].status = "QUEUED"
          /\ \A j \in Jobs \ {k} : job'[j] = job[j]
      BY <1>5, EnqueueFacts
    <2>2. Open(k)'
      BY <2>1 DEF Open, Active, Owns
    <2>3. ASSUME NEW j \in Jobs, Open(j) PROVE Open(j)'
      <3>1. j # k
        BY <2>1, <2>3 DEF Open, Active
      <3>2. Active(j)'
        BY <2>1, <2>3, <3>1 DEF Open, Active
      <3>3. QED
        BY <1>1, <2>3, <3>2, OpenStays DEF Finishing
    <2>4. ASSUME NEW r \in Runs, RunOf[k] # r, HasJob(r)', ~Settled(r)' PROVE Expected(r)'
      <3>1. HasJob(r) /\ ~Settled(r)
        BY <1>1, <2>1, <2>4 DEF HasJob, Settled
      <3>2. Expected(r)
        BY <3>1 DEF CalmInv, RunsExpected
      <3>3. \A b \in Admins : admin[b].run = r => b # a
        BY <1>5, <2>4
      <3>4. CASE \E b \in Admins : admin[b].run = r /\ Pending(b)
        BY <1>3, <3>3, <3>4 DEF Expected, Pending
      <3>5. CASE CutOff(r)
        BY <1>3, <3>5 DEF Expected, CutOff
      <3>6. CASE \E j \in Jobs : RunOf[j] = r /\ Open(j)
        BY <2>3, <3>6 DEF Expected
      <3>7. QED
        BY <3>2, <3>4, <3>5, <3>6 DEF Expected
    <2>5. \A r \in Runs : RunOf[k] = r => Expected(r)'
      BY <2>2 DEF Expected
    <2>6. QED
      BY <2>4, <2>5 DEF RunsExpected
  <1>6. QED
    BY <1>4, <1>5 DEF RetryEnqueue

LEMMA UndoExpected ==
    ASSUME WorkerInv, [Next]_vars, CalmInv, NEW a \in Admins, RetryUndo(a)
    PROVE  RunsExpected'
  <1>1. PICK q \in Runs : q = admin[a].run
    BY AdminFacts
  <1>2. /\ UNCHANGED <<job, slot>> /\ RunBecomes(q, "FAILED", TRUE)
        /\ \A b \in Admins : b # a => admin'[b] = admin[b]
        /\ \A b \in Admins : admin[b].cut \subseteq admin'[b].cut
    BY <1>1, RouteMoves DEF RetryUndo, RouteCalls
  <1>3. run'[q].status = "FAILED" /\ \A r \in Runs : r # q => run'[r] = run[r]
    BY <1>2, AdminFacts, RunBecomesFacts DEF RunStatuses
  <1>4. ASSUME NEW r \in Runs, HasJob(r)', ~Settled(r)' PROVE Expected(r)'
    <2>1. r # q
      BY <1>3, <1>4 DEF Settled
    <2>2. HasJob(r) /\ ~Settled(r)
      BY <1>2, <1>3, <1>4, <2>1 DEF HasJob, Settled
    <2>3. Expected(r)
      BY <2>2 DEF CalmInv, RunsExpected
    <2>4. \A j \in Jobs : Open(j) => Open(j)'
      BY <1>2 DEF Open, Active, Owns, Finishing
    <2>5. \A b \in Admins : admin[b].run = r => b # a
      BY <1>1, <2>1
    <2>6. CASE \E b \in Admins : admin[b].run = r /\ Pending(b)
      BY <1>2, <2>5, <2>6 DEF Expected, Pending
    <2>7. CASE CutOff(r)
      BY <1>2, <2>7 DEF Expected, CutOff
    <2>8. QED
      BY <2>3, <2>4, <2>6, <2>7 DEF Expected
  <1>5. QED
    BY <1>4 DEF RunsExpected

LEMMA DiesExpected ==
    ASSUME WorkerInv, [Next]_vars, CalmInv, NEW a \in Admins, RetryDies(a)
    PROVE  RunsExpected'
  <1>1. UNCHANGED <<job, run, slot>> /\ BreakOff(a)
    BY DEF RetryDies
  <1>2. /\ admin'[a].cut = admin[a].cut \cup {admin[a].run}
        /\ \A b \in Admins : b # a => admin'[b] = admin[b]
    BY <1>1, BreakOffFacts
  <1>3. ASSUME NEW r \in Runs, HasJob(r)', ~Settled(r)' PROVE Expected(r)'
    <2>1. Expected(r)
      BY <1>1, <1>3 DEF CalmInv, RunsExpected, HasJob, Settled
    <2>2. \A j \in Jobs : Open(j) => Open(j)'
      BY <1>1 DEF Open, Active, Owns, Finishing
    <2>3. CASE \E b \in Admins : admin[b].run = r /\ Pending(b)
      <3>1. PICK b \in Admins : admin[b].run = r /\ Pending(b)
        BY <2>3
      <3>2. CASE b = a
        BY <1>2, <3>1, <3>2 DEF Expected, CutOff
      <3>3. CASE b # a
        BY <1>2, <3>1, <3>3 DEF Expected, Pending
      <3>4. QED
        BY <3>2, <3>3
    <2>4. CASE CutOff(r)
      BY <1>2, <2>4 DEF Expected, CutOff
    <2>5. QED
      BY <2>1, <2>2, <2>3, <2>4 DEF Expected
  <1>4. QED
    BY <1>3 DEF RunsExpected

(* Steps of the queue that end no job: recycling, leasing, beats, time.    *)
LEMMA TableExpected ==
    ASSUME WorkerInv, [Next]_vars, CalmInv, UNCHANGED <<run, admin>>,
           \A j \in Jobs : /\ job[j].status = "ABSENT" => job'[j].status = "ABSENT"
                           /\ Active(j) => Active(j)',
           \A s \in Workers : Finishing(s)' =>
              slot'[s].at = slot[s].at /\ slot'[s].lease = slot[s].lease
    PROVE  RunsExpected'
  <1>1. \A s \in Workers : Finishing(s)' => Finishing(s) /\ slot'[s].lease = slot[s].lease
    BY DEF Finishing
  <1>2. ASSUME NEW j \in Jobs, Open(j) PROVE Open(j)'
    <2>1. Active(j)'
      BY <1>2 DEF Open
    <2>2. QED
      BY <1>1, <1>2, <2>1, OpenStays
  <1>3. QED
    BY <1>2, ExpectedStays DEF CalmInv, RequestsKept, Pending

LEMMA ExpectedStep ==
    ASSUME WorkerInv, OwnersKnown, CalmInv, [Next]_vars, ~Disturbed, ~Disturbed'
    PROVE  RunsExpected'
<1>0. /\ NoStall /\ ~Fault /\ ~Spend("shutdowns", ShutdownBound)
      /\ \A s \in Workers : slot[s].at = "leased" => ~slot[s].aborted
  BY NothingSpent, GrowsAlways DEF CalmInv, StartsCalm
<1>1. ASSUME NEW p \in Procs, StartCycle(p) PROVE RunsExpected'
  <2>1. UNCHANGED <<run, admin, slot>>
    BY <1>1 DEF StartCycle
  <2>2. \A j \in Jobs : /\ job[j].status = "ABSENT" => job'[j].status = "ABSENT"
                        /\ Active(j) => Active(j)'
    BY <1>1, RecycleFacts DEF StartCycle, queueVars, Active
  <2>3. QED
    BY <2>1, <2>2, TableExpected
<1>2. ASSUME NEW p \in Procs,
             AskNext(p) \/ StartBatch(p) \/ EndBatch(p) \/ StopLoop(p) \/ Restart(p)
      PROVE  RunsExpected'
  <2>1. RelabelMoves /\ UNCHANGED admin
    BY <1>2, AskNextStep, StartBatchStep, LoopStep
    DEF AskNext, StartBatch, EndBatch, StopLoop, Restart
  <2>2. ASSUME NEW s \in Workers, slot'[s].at = "report" PROVE slot[s].at = "report"
    <3>1. CASE UNCHANGED slot
      BY <2>2, <3>1
    <3>2. CASE AskNext(p)
      <4>1. slot'[s] = Begun(s) \/ slot'[s] = slot[s]
        BY <3>2 DEF AskNext
      <4>2. Begun(s) = slot[s] \/ Begun(s).at = "leased"
        BY BegunFacts
      <4>3. QED
        BY <2>2, <4>1, <4>2
    <3>3. CASE StartBatch(p)
      <4>1. slot'[s] = Started(Begun(s)) \/ slot'[s] = slot[s]
        BY <3>3 DEF StartBatch
      <4>2. PICK row \in SlotRows : row = Begun(s)
        BY BegunFacts
      <4>3. row = slot[s] \/ (row.at = "leased" /\ ~row.aborted)
        BY <4>2, BegunFacts, SlotParts DEF CalmInv, StartsCalm
      <4>4. row.at = "leased" => ~row.aborted
        BY <1>0, <4>3
      <4>5. Started(row).at = "report" => row.at = "report"
        <5>1. CASE row.at = "leased"
          <6>1. PICK next : next = [row EXCEPT !.at = "load"]
            OBVIOUS
          <6>2. next.at = "load"
            BY <4>2, <6>1 DEF SlotRows
          <6>3. Started(row) = next
            BY <4>4, <5>1, <6>1 DEF Started
          <6>4. QED
            BY <6>2, <6>3
        <5>2. CASE row.at # "leased"
          BY <5>2 DEF Started
        <5>3. QED
          BY <5>1, <5>2
      <4>6. QED
        BY <2>2, <4>1, <4>2, <4>3, <4>5
    <3>4. QED
      BY <1>2, <3>1, <3>2, <3>3 DEF EndBatch, StopLoop, Restart
  <2>3. QED
    BY <2>1, <2>2, RelabelExpected DEF RequestsKept, Pending
<1>3. ASSUME NEW p \in Procs, Crash(p) PROVE RunsExpected'
  <2>1. UNCHANGED <<job, run, admin>>
    BY <1>3 DEF Crash
  <2>2. \A s \in Workers : slot'[s] = FreeSlot \/ slot'[s] = slot[s]
    BY <1>3 DEF Crash, Die
  <2>3. \A s \in Workers : Finishing(s)' => slot'[s] = slot[s]
    BY <2>2, FreeRow DEF Finishing
  <2>4. QED
    BY <2>1, <2>3, TableExpected DEF Active
<1>4. ASSUME NEW s \in Workers, NEW j \in Jobs, LeaseSlot(s, j) PROVE RunsExpected'
  <2>1. UNCHANGED <<run, admin>>
    BY <1>4 DEF LeaseSlot
  <2>2. /\ slot'[s].at = "granted" /\ \A t \in Workers : t # s => slot'[t] = slot[t]
        /\ job[j].status = "QUEUED" /\ job'[j].status = "RUNNING"
        /\ \A k \in Jobs \ {j} : job'[k] = job[k]
    BY <1>4, LeaseSlotFacts
  <2>3. \A t \in Workers : Finishing(t)' => slot'[t] = slot[t]
    BY <2>2 DEF Finishing
  <2>4. \A k \in Jobs : /\ job[k].status = "ABSENT" => job'[k].status = "ABSENT"
                        /\ Active(k) => Active(k)'
    BY <2>2 DEF Active
  <2>5. QED
    BY <2>1, <2>3, <2>4, TableExpected
<1>5. ASSUME NEW s \in Workers, SlotStep(s) PROVE RunsExpected'
  BY <1>0, <1>5, SilentExpected, MarkExpected, SettleExpected, ReportExpected DEF SlotStep
<1>6. ASSUME NEW s \in Workers, LeaseNothing(s) \/ JobTimeout(s) PROVE RunsExpected'
  <2>1. RelabelMoves /\ UNCHANGED admin
    BY <1>6, LeaseNothingStep, JobTimeoutStep DEF LeaseNothing, JobTimeout
  <2>2. \A t \in Workers : slot'[t].at = slot[t].at
    <3>1. PICK row : row = [[slot[s] EXCEPT !.beating = FALSE] EXCEPT !.aborted = TRUE]
      OBVIOUS
    <3>2. row.at = slot[s].at
      BY <3>1, ProcTypes DEF SlotRows
    <3>3. UNCHANGED slot \/ slot' = [slot EXCEPT ![s] = row]
      BY <1>6, <3>1 DEF LeaseNothing, JobTimeout
    <3>4. QED
      BY <3>2, <3>3, ProcTypes
  <2>3. QED
    BY <2>1, <2>2, RelabelExpected DEF RequestsKept, Pending
<1>7. ASSUME NEW s \in Workers, Heartbeat(s) PROVE RunsExpected'
  <2>1. UNCHANGED <<run, admin>> /\ Busy(s)
    BY <1>7 DEF Heartbeat
  <2>2. \A t \in Workers : slot'[t].at = slot[t].at /\ slot'[t].lease = slot[t].lease
    <3>1. PICK row : row = [slot[s] EXCEPT !.aborted = TRUE]
      OBVIOUS
    <3>2. row.at = slot[s].at /\ row.lease = slot[s].lease
      BY <3>1, ProcTypes, SignalRow
    <3>3. UNCHANGED slot \/ slot' = [slot EXCEPT ![s] = row]
      BY <1>7, <3>1 DEF Heartbeat
    <3>4. QED
      BY <3>2, <3>3, ProcTypes
  <2>3. \A k \in Jobs : job'[k].status = job[k].status
    <3>1. CASE UNCHANGED queueVars
      BY <3>1 DEF queueVars
    <3>2. CASE HeartbeatJobLease(slot[s].lease)
      <4>1. PICK j \in Jobs : j = slot[s].lease.job
        BY <2>1, BusySlot
      <4>2. job'[j].status = job[j].status /\ \A k \in Jobs \ {j} : job'[k] = job[k]
        BY <2>1, <3>2, <4>1, BeatFacts
      <4>3. QED
        BY <4>2
    <3>3. QED
      BY <1>7, <3>1, <3>2 DEF Heartbeat
  <2>4. QED
    BY <2>1, <2>2, <2>3, TableExpected DEF Active
<1>8. CASE WorkerTick
  <2>1. /\ UNCHANGED <<run, admin>> /\ \A j \in Jobs : job'[j].status = job[j].status
        /\ \A s \in Workers : slot'[s].at = slot[s].at /\ slot'[s].lease = slot[s].lease
    BY <1>8, TickFacts
  <2>2. QED
    BY <2>1, TableExpected DEF Active
<1>9. ASSUME NEW a \in Admins, NEW r \in Runs, RetryCheck(a, r) PROVE RunsExpected'
  <2>1. UNCHANGED <<job, slot, run>>
    BY <1>9 DEF RetryCheck
  <2>2. RequestsKept
    BY <1>9, CheckFacts DEF RequestsKept, Pending
  <2>3. \A j \in Jobs : Open(j) => Open(j)'
    BY <2>1 DEF Open, Active, Owns, Finishing
  <2>4. QED
    BY <2>1, <2>2, <2>3, ExpectedStays DEF CalmInv
<1>10. ASSUME NEW a \in Admins, RouteCalls(a)
       PROVE  RunsExpected'
  BY <1>10, ResetExpected, InsertExpected, UndoExpected, DiesExpected DEF RouteCalls
<1>11. CASE UNCHANGED vars
  BY <1>11, TableExpected DEF vars, Active
<1>12. QED
  BY <1>0, <1>1, <1>2, <1>3, <1>4, <1>5, <1>6, <1>7, <1>8, <1>9, <1>10, <1>11
  DEF Next, ProcStep, Shutdown, CycleThrows, ReportFailureThrows, RouteCalls

LEMMA CalmInit == Init => CalmInv
<1> SUFFICES ASSUME Init PROVE CalmInv
  OBVIOUS
<1>1. \A s \in Workers : slot[s] = FreeSlot
  BY DEF Init
<1>2. StartsCalm
  BY <1>1, FreeRow DEF Init, StartsCalm
<1>3. ASSUME NEW r \in Runs, HasJob(r) PROVE Expected(r)
  <2>1. PICK j \in Jobs : RunOf[j] = r /\ job[j].status # "ABSENT"
    BY <1>3 DEF HasJob
  <2>2. job[j].status = "QUEUED"
    BY <2>1 DEF Init, Absent
  <2>3. \A s \in Workers : ~Finishing(s)
    BY <1>1, FreeRow DEF Finishing
  <2>4. QED
    BY <2>1, <2>2, <2>3 DEF Expected, Open, Active
<1>4. QED
  BY <1>2, <1>3 DEF CalmInv, RunsExpected

(* As long as nothing happens but kills, and errors and ends of retry      *)
(* requests, a run that is QUEUED or RUNNING has a job that will see to    *)
(* it, or a request at work on it, unless a request for it was cut off     *)
(* between its reset and its enqueue: wherever a process is killed,        *)
(* however often its jobs are taken up again, and with any number of       *)
(* requests at once.  Nothing but such a request leaves a run behind.      *)
THEOREM NobodyLeavesRunsBehind == Spec => ([]~Disturbed => []NoRunLeftBehind)
<1>1. WorkerInv /\ OwnersKnown /\ CalmInv /\ [Next]_vars /\ ~Disturbed /\ ~Disturbed'
        => CalmInv'
  BY StartsStep, ExpectedStep DEF CalmInv
<1>2. CalmInv => NoRunLeftBehind
  BY DEF CalmInv, RunsExpected, Expected, Open, Pending, NoRunLeftBehind, SeenTo
<1>3. QED
  BY WorkerInvariant, OwnersInvariant, CalmInit, <1>1, <1>2, PTL DEF Spec

-----------------------------------------------------------------------------
(* The retry route, one request at a time.                                 *)

LEMMA RetryCheckKeeps ==
    ASSUME WorkerInv, ExclusionInv, OwnersKnown', NEW a \in Admins, NEW r \in Runs,
           RetryCheck(a, r)
    PROVE  ExclusionInv'
  <1>1. /\ UNCHANGED <<job, run, slot, spent>> /\ \A j \in Jobs : RunOf[j] = r => ~Active(j)
    BY DEF RetryCheck
  <1>2. /\ admin'[a].at = "reset" /\ admin'[a].run = r
        /\ \A b \in Admins : b # a => admin'[b] = admin[b]
    BY CheckFacts
  <1>4. OneActiveJob'
    BY <1>1, <1>2 DEF ExclusionInv, OneActiveJob, Active
  <1>5. MeasuredKnown'
    BY <1>1 DEF ExclusionInv, MeasuredKnown, Calm, NoStall, TheRun
  <1>6. SuccessKnown'
    BY <1>1, <1>2 DEF ExclusionInv, SuccessKnown, Calm, NoStall, Active
  <1>7. QED
    BY <1>4, <1>5, <1>6 DEF ExclusionInv

LEMMA RouteFaultSpent ==
    ASSUME WorkerInv, RouteFault
    PROVE  spent'["routeFaults"] > 0 /\ ~Calm'
  <1>1. spent["routeFaults"] \in Nat /\ spent \in [Budgets -> Nat] /\ "routeFaults" \in Budgets
    BY DEF WorkerInv, TypeOK, Budgets
  <1>2. spent'["routeFaults"] = spent["routeFaults"] + 1
    BY <1>1, SpendFacts DEF RouteFault
  <1>3. QED
    BY <1>1, <1>2 DEF Calm

(* After an error of the route only the jobs matter.                       *)
LEMMA FaultKeeps ==
    ASSUME WorkerInv, ExclusionInv, OwnersKnown', NEW a \in Admins, UNCHANGED job,
           spent'["routeFaults"] > 0, ~Calm', admin'[a].at = "idle",
           \A b \in Admins : b # a => admin'[b] = admin[b]
    PROVE  ExclusionInv'
  <1>1. OneActiveJob'
    BY DEF ExclusionInv, OneActiveJob, Active
  <1>2. QED
    BY <1>1 DEF ExclusionInv, MeasuredKnown, SuccessKnown

LEMMA RetryResetKeeps ==
    ASSUME WorkerInv, ExclusionInv, OwnersKnown', NEW a \in Admins, RetryReset(a)
    PROVE  ExclusionInv'
  <1>1. UNCHANGED <<job, slot>> /\ admin[a].at = "reset"
    BY DEF RetryReset
  <1>2. PICK r \in Runs : r = admin[a].run
    BY AdminFacts
  <1>3. \A j \in Jobs : RunOf[j] = r => ~Active(j)
    BY <1>1, <1>2 DEF ExclusionInv, OneActiveJob
  <1>4. \A b \in Admins : b # a => admin'[b] = admin[b]
    BY RouteMoves DEF RouteCalls
  <1>5. CASE /\ run[r].status = "FAILED" /\ RunBecomes(r, "QUEUED", FALSE)
             /\ Continue(a, "enqueue") /\ UNCHANGED spent
    <2>1. admin'[a].at = "enqueue" /\ admin'[a].run = r
      BY <1>2, <1>5, ContinueFacts
    <2>5. \A q \in Runs : q # r => run'[q] = run[q]
      BY <1>2, RouteRuns
    <2>6. OneActiveJob'
      BY <1>1, <1>3, <1>4, <1>5, <2>1 DEF ExclusionInv, OneActiveJob, Active
    <2>7. MeasuredKnown'
      <3> SUFFICES ASSUME Calm, NEW t \in Workers, slot[t].at \in {"notify", "check"}
                   PROVE  run'[TheRun(t)].status = "SUCCEEDED"
        BY <1>1, <1>5 DEF MeasuredKnown, Calm, NoStall, TheRun
      <3>1. Busy(t) /\ Owns(slot[t].lease)
        BY DEF ExclusionInv, OwnersKnown, Calm, Busy
      <3>2. Active(slot[t].lease.job) /\ slot[t].lease.job \in Jobs /\ TheRun(t) \in Runs
        BY <3>1, OwnedJob, BusySlot
      <3>3. TheRun(t) # r
        BY <1>3, <3>2 DEF TheRun
      <3>4. QED
        BY <2>5, <3>2, <3>3 DEF ExclusionInv, MeasuredKnown
    <2>8. SuccessKnown'
      <3> SUFFICES ASSUME Calm, NEW j \in Jobs, job[j].status = "SUCCEEDED"
                   PROVE  /\ run'[RunOf[j]].status = "SUCCEEDED"
                          /\ \A k \in Jobs : RunOf[k] = RunOf[j] => ~Active(k)
                          /\ \A b \in Admins : admin'[b].at = "enqueue" =>
                                admin'[b].run # RunOf[j]
        BY <1>1, <1>5 DEF SuccessKnown, Calm, NoStall, Active
      <3>1. /\ run[RunOf[j]].status = "SUCCEEDED" /\ RunOf[j] \in Runs
            /\ \A k \in Jobs : RunOf[k] = RunOf[j] => ~Active(k)
            /\ \A b \in Admins : admin[b].at = "enqueue" => admin[b].run # RunOf[j]
        BY JobTypes DEF ExclusionInv, SuccessKnown
      <3>2. RunOf[j] # r
        BY <1>5, <3>1
      <3>3. QED
        BY <1>4, <2>1, <2>5, <3>1, <3>2
    <2>9. QED
      BY <2>6, <2>7, <2>8 DEF ExclusionInv
  <1>6. CASE Continue(a, "idle") /\ UNCHANGED <<run, spent>>
    <2>1. admin'[a].at = "idle"
      BY <1>6, ContinueFacts
    <2>2. OneActiveJob'
      BY <1>1, <1>4, <1>6, <2>1 DEF ExclusionInv, OneActiveJob, Active
    <2>3. MeasuredKnown'
      BY <1>1, <1>6 DEF ExclusionInv, MeasuredKnown, Calm, NoStall, TheRun
    <2>4. SuccessKnown'
      BY <1>1, <1>4, <1>6, <2>1 DEF ExclusionInv, SuccessKnown, Calm, NoStall, Active
    <2>5. QED
      BY <2>2, <2>3, <2>4 DEF ExclusionInv
  <1>7. CASE (Continue(a, "idle") \/ BreakOff(a)) /\ RouteFault
    <2>1. admin'[a].at = "idle"
      BY <1>7, ContinueFacts, BreakOffFacts
    <2>2. QED
      BY <1>1, <1>4, <1>7, <2>1, RouteFaultSpent, FaultKeeps
  <1>8. QED
    BY <1>2, <1>5, <1>6, <1>7 DEF RetryReset

LEMMA RetryDiesKeeps ==
    ASSUME WorkerInv, ExclusionInv, OwnersKnown', NEW a \in Admins, RetryDies(a)
    PROVE  ExclusionInv'
  <1>1. UNCHANGED job /\ BreakOff(a) /\ RouteFault
    BY DEF RetryDies
  <1>2. QED
    BY <1>1, BreakOffFacts, RouteFaultSpent, FaultKeeps

LEMMA RetryUndoKeeps ==
    ASSUME WorkerInv, ExclusionInv, OwnersKnown', NEW a \in Admins, RetryUndo(a)
    PROVE  ExclusionInv'
  <1>1. UNCHANGED <<job, spent>> /\ Continue(a, "idle") /\ admin[a].at = "undo"
    BY DEF RetryUndo
  <1>2. spent'["routeFaults"] > 0 /\ spent'["routeFaults"] \in Nat
    BY <1>1 DEF ExclusionInv, OneActiveJob, WorkerInv, TypeOK, Budgets
  <1>3. ~Calm'
    BY <1>2 DEF Calm
  <1>4. QED
    BY <1>1, <1>2, <1>3, ContinueFacts, FaultKeeps

LEMMA RetryEnqueueKeeps ==
    ASSUME OneAdmin, WorkerInv, ExclusionInv, OwnersKnown', NEW a \in Admins, RetryEnqueue(a)
    PROVE  ExclusionInv'
  <1>1. UNCHANGED <<run, slot>> /\ admin[a].at = "enqueue"
    BY DEF RetryEnqueue
  <1>2. SpentGrows
    BY RouteMoves DEF RouteCalls
  <1>3. (Calm' => Calm) /\ (spent["routeFaults"] > 0 => spent'["routeFaults"] > 0)
    BY <1>2, CalmBefore
  <1>4. \/ admin'[a].at = "idle"
        \/ admin'[a].at = "undo" /\ spent'["routeFaults"] > 0
    <2>1. CASE Continue(a, "idle")
      BY <2>1, ContinueFacts
    <2>2. CASE Continue(a, "undo") /\ RouteFault
      BY <2>2, ContinueFacts, RouteFaultSpent
    <2>3. QED
      BY <2>1, <2>2 DEF RetryEnqueue
  <1>5. \A b \in Admins : b = a
    BY DEF OneAdmin
  <1>6. PICK r : r = admin[a].run /\ \A j \in Jobs : RunOf[j] = r => ~Active(j)
    BY <1>1 DEF ExclusionInv, OneActiveJob
  <1>7. CASE UNCHANGED queueVars
    <2>1. UNCHANGED job
      BY <1>7 DEF queueVars
    <2>3. OneActiveJob'
      BY <1>4, <1>5, <2>1 DEF ExclusionInv, OneActiveJob, Active
    <2>4. MeasuredKnown'
      BY <1>1, <1>3 DEF ExclusionInv, MeasuredKnown, TheRun
    <2>5. SuccessKnown'
      BY <1>1, <1>3, <1>4, <1>5, <2>1 DEF ExclusionInv, SuccessKnown, Active
    <2>6. QED
      BY <2>3, <2>4, <2>5 DEF ExclusionInv
  <1>8. ASSUME NEW j \in Jobs, RunOf[j] = r, EnqueueJob(j) PROVE ExclusionInv'
    <2>1. /\ job[j].status = "ABSENT" /\ job'[j].status = "QUEUED"
          /\ \A k \in Jobs \ {j} : job'[k] = job[k]
      BY <1>8, EnqueueFacts
    <2>3. \A k \in Jobs : Active(k)' => Active(k) \/ k = j
      BY <2>1 DEF Active
    <2>4. OneActiveJob'
      BY <1>4, <1>5, <1>6, <1>8, <2>3 DEF ExclusionInv, OneActiveJob
    <2>5. MeasuredKnown'
      BY <1>1, <1>3 DEF ExclusionInv, MeasuredKnown, TheRun
    <2>6. SuccessKnown'
      <3> SUFFICES ASSUME Calm, NEW k \in Jobs, job'[k].status = "SUCCEEDED"
                   PROVE  /\ run[RunOf[k]].status = "SUCCEEDED"
                          /\ \A i \in Jobs : RunOf[i] = RunOf[k] => ~Active(i)'
        BY <1>1, <1>3, <1>4, <1>5 DEF SuccessKnown
      <3>1. job[k].status = "SUCCEEDED"
        BY <2>1
      <3>2. /\ run[RunOf[k]].status = "SUCCEEDED" /\ RunOf[k] # r
            /\ \A i \in Jobs : RunOf[i] = RunOf[k] => ~Active(i)
        BY <1>1, <1>6, <3>1 DEF ExclusionInv, SuccessKnown
      <3>3. QED
        BY <1>8, <2>3, <3>2
    <2>7. QED
      BY <2>4, <2>5, <2>6 DEF ExclusionInv
  <1>9. QED
    BY <1>6, <1>7, <1>8 DEF RetryEnqueue

-----------------------------------------------------------------------------
LEMMA ExclusionInit == Init => ExclusionInv
<1> SUFFICES ASSUME Init PROVE ExclusionInv
  OBVIOUS
<1>1. \A s \in Workers : slot[s].at = "free"
  BY FreeRow DEF Init
<1>2. \A a \in Admins : admin[a].at = "idle"
  BY DEF Init, IdleAdmin
<1>3. \A j \in Jobs : /\ job[j].status \in {"QUEUED", "ABSENT"}
                      /\ Active(j) => j \in FirstJobs
  BY DEF Init, Absent, Active
<1>4. OneActiveJob
  BY <1>2, <1>3, RunsAssumption DEF OneActiveJob
<1>5. QED
  BY <1>1, <1>3, <1>4 DEF ExclusionInv, OwnersKnown, MeasuredKnown, SuccessKnown, Busy

LEMMA ExclusionStep ==
    ASSUME OneAdmin
    PROVE  WorkerInv /\ ExclusionInv /\ [Next]_vars => ExclusionInv'
<1> SUFFICES ASSUME WorkerInv, ExclusionInv, [Next]_vars PROVE ExclusionInv'
  OBVIOUS
<1>0. OwnersKnown'
  BY OwnersInductive DEF ExclusionInv
<1>1. ASSUME NEW p \in Procs, ProcStep(p) \/ Shutdown(p) PROVE ExclusionInv'
  <2>1. CASE StartCycle(p)
    BY <1>0, <2>1, StartCycleKeeps
  <2>2. CASE AskNext(p) \/ StartBatch(p) \/ EndBatch(p) \/ StopLoop(p) \/ Restart(p) \/ Shutdown(p)
    <3>1. RelabelMoves
      BY <2>2, AskNextStep, StartBatchStep, LoopStep, ShutdownStep
    <3>2. UNCHANGED admin
      BY <2>2 DEF AskNext, StartBatch, EndBatch, StopLoop, Restart, Shutdown
    <3>3. QED
      BY <1>0, <3>1, <3>2, RelabelKeeps
  <2>3. QED
    BY <1>1, <2>1, <2>2 DEF ProcStep
<1>2. ASSUME NEW p \in Procs, Crash(p) \/ CycleThrows(p) PROVE ExclusionInv'
  BY <1>0, <1>2, DieKeeps
<1>3. ASSUME NEW s \in Workers, NEW j \in Jobs, LeaseSlot(s, j) PROVE ExclusionInv'
  BY <1>0, <1>3, LeaseSlotKeeps
<1>4. ASSUME NEW s \in Workers, LeaseNothing(s) \/ JobTimeout(s) PROVE ExclusionInv'
  <2>1. RelabelMoves
    BY <1>4, LeaseNothingStep, JobTimeoutStep
  <2>2. UNCHANGED admin
    BY <1>4 DEF LeaseNothing, JobTimeout
  <2>3. QED
    BY <1>0, <2>1, <2>2, RelabelKeeps
<1>5. ASSUME NEW s \in Workers, SlotStep(s) \/ ReportFailureThrows(s) PROVE ExclusionInv'
  <2>1. CASE \/ LoadRun(s) \/ MarkRunRunning(s) \/ FetchSite(s)
             \/ PersistResults(s) \/ NotifyOwner(s) \/ MarkRunFailed(s)
    <3>1. PICK place \in Places : HandlerMoves(s, place)
      BY <2>1, HandlerEffects
    <3>2. QED
      BY <1>0, <3>1, HandlerKeeps
  <2>2. CASE ReportSuccess(s) \/ ReportFailure(s) \/ ReportFailureThrows(s)
    BY <1>0, <2>2, ReportsShrink, ReportKeeps
  <2>3. QED
    BY <1>5, <2>1, <2>2 DEF SlotStep
<1>6. ASSUME NEW s \in Workers, Heartbeat(s) PROVE ExclusionInv'
  BY <1>0, <1>6, BeatKeeps
<1>7. CASE WorkerTick
  BY <1>0, <1>7, TickKeeps
<1>8. ASSUME NEW a \in Admins, NEW r \in Runs, RetryCheck(a, r) PROVE ExclusionInv'
  BY <1>0, <1>8, RetryCheckKeeps
<1>9. ASSUME NEW a \in Admins, RouteCalls(a)
      PROVE  ExclusionInv'
  BY <1>0, <1>9, RetryResetKeeps, RetryEnqueueKeeps, RetryUndoKeeps, RetryDiesKeeps
  DEF RouteCalls
<1>10. CASE UNCHANGED vars
  <2>1. RelabelMoves /\ UNCHANGED admin
    BY <1>10, SlotsSame, SpentSame DEF vars, WorkerInv
  <2>2. QED
    BY <1>0, <2>1, RelabelKeeps
<1>11. QED
  BY <1>1, <1>2, <1>3, <1>4, <1>5, <1>6, <1>7, <1>8, <1>9, <1>10 DEF Next, RouteCalls

(* ExclusionInv holds as long as one retry request is under way at a time. *)
THEOREM ExclusionInvariant ==
    ASSUME OneAdmin
    PROVE  Spec => []ExclusionInv
  BY WorkerInvariant, ExclusionInit, ExclusionStep, PTL DEF Spec

(* With one retry request at a time, two slots never work on one run, for  *)
(* any processes, crashes and database errors, unless a lease ran out      *)
(* under a live slot.                                                      *)
THEOREM RunsWorkedOnByOne ==
    ASSUME OneAdmin
    PROVE  Spec => []NoOverlapUnlessStalled
<1>1. WorkerInv /\ ExclusionInv => NoOverlapUnlessStalled
  <2> SUFFICES ASSUME WorkerInv, ExclusionInv, NoStall, NEW s \in Workers, NEW t \in Workers,
                      InHandler(s), InHandler(t), TheRun(s) = TheRun(t)
               PROVE  s = t
    BY DEF NoOverlapUnlessStalled, NoStall
  <2>1. /\ Busy(s) /\ slot[s].at # "report" /\ Busy(t) /\ slot[t].at # "report"
    BY DEF InHandler, Busy
  <2>2. QED
    BY <2>1, NoRival
<1> QED BY WorkerInvariant, ExclusionInvariant, <1>1, PTL

(* With one retry request at a time, the run of a SUCCEEDED job stays      *)
(* SUCCEEDED, unless a lease ran out under a live slot or a call of the    *)
(* retry route threw.                                                      *)
THEOREM SuccessIsKept ==
    ASSUME OneAdmin
    PROVE  Spec => []SuccessSticksUnlessStalled
<1>1. ExclusionInv => SuccessSticksUnlessStalled
  BY DEF ExclusionInv, SuccessKnown, SuccessSticksUnlessStalled, Calm, NoStall
<1> QED BY ExclusionInvariant, <1>1, PTL

-----------------------------------------------------------------------------
(* The clock of a lease: it outlives its heartbeats for every set of       *)
(* timeouts.                                                               *)

(* The numbers of heartbeatTiming: an interval between one and ten         *)
(* seconds, and an extension of at least three intervals.                  *)
LEMMA ThreeBeats ==
    ASSUME NEW t \in Nat \ {0}
    PROVE  /\ HeartbeatIntervalMs(t) \in Nat
           /\ HeartbeatIntervalMs(t) >= 1000 /\ HeartbeatIntervalMs(t) <= 10000
           /\ HeartbeatExtensionMs(t) \in Nat
           /\ HeartbeatExtensionMs(t) >= 3 * HeartbeatIntervalMs(t)
           /\ t >= 3000 => t >= 3 * HeartbeatIntervalMs(t)
  BY DEF HeartbeatIntervalMs, HeartbeatExtensionMs, Larger, Smaller

(* The clock has its types for any timeouts and any number of skipped      *)
(* beats; in particular nothing is sent after the timeout.                 *)
THEOREM ClockTypesKept == ClockSpec => []ClockTypeOK
  <1>1. ClockInit => ClockTypeOK
    BY TimeoutsAssumption, SkipAssumption DEF ClockInit, ClockTypeOK
  <1>2. ClockTypeOK /\ [ClockNext]_clockVars => ClockTypeOK'
    <2> SUFFICES ASSUME ClockTypeOK, [ClockNext]_clockVars PROVE ClockTypeOK'
      OBVIOUS
    <2>1. /\ timeoutMs \in Nat \ {0} /\ timeoutMs \in Timeouts /\ timeoutMs' = timeoutMs
          /\ now \in 0 .. timeoutMs /\ leaseEnd \in Nat /\ skipped \in 0 .. SkipBound
      BY TimeoutsAssumption
      DEF ClockTypeOK, ClockNext, Beat, SkipBeat, TimeOut, Reported, clockVars
    <2>a. timeoutMs \in Nat \ {0}
      BY <2>1
    <2>b. HeartbeatIntervalMs(timeoutMs) \in Nat /\ HeartbeatExtensionMs(timeoutMs) \in Nat
      BY <2>a, ThreeBeats
    <2>2. PICK i \in Nat : i = Interval
      BY <2>b DEF Interval
    <2>3. PICK e \in Nat : e = Extension
      BY <2>b DEF Extension
    <2>4. CASE Beat
      <3>1. now' = now + i /\ now' < timeoutMs /\ leaseEnd' = now' + e /\ skipped' = 0
        <4>1. Extension' = Extension
          BY <2>1 DEF Extension
        <4>2. QED
          BY <2>2, <2>3, <2>4, <4>1 DEF Beat
      <3>2. QED
        BY <2>1, <3>1, SkipAssumption DEF ClockTypeOK
    <2>5. CASE SkipBeat
      <3>1. /\ now' = now + i /\ now' < timeoutMs /\ leaseEnd' = leaseEnd
            /\ skipped' = skipped + 1 /\ skipped < SkipBound
        BY <2>2, <2>5 DEF SkipBeat
      <3>2. QED
        BY <2>1, <3>1, SkipAssumption DEF ClockTypeOK
    <2>6. CASE TimeOut
      BY <2>1, <2>6 DEF TimeOut, ClockTypeOK
    <2>7. CASE Reported \/ UNCHANGED clockVars
      BY <2>1, <2>7 DEF Reported, clockVars, ClockTypeOK
    <2>8. QED
      BY <2>4, <2>5, <2>6, <2>7 DEF ClockNext
  <1>3. QED
    BY <1>1, <1>2, PTL DEF ClockSpec

-----------------------------------------------------------------------------
(* What is left of the lease, in intervals: three at a beat, one less for  *)
(* each beat skipped, and one less at the timeout.                         *)
Left(n) ==
    /\ now < timeoutMs => leaseEnd - now >= n * Interval
    /\ now >= timeoutMs => leaseEnd - now >= (n - 1) * Interval

Remaining ==
    timeoutMs >= 3000 =>
       /\ skipped = 0 => Left(3)
       /\ skipped = 1 => Left(2)
       /\ skipped = 2 => Left(1)

LEMMA ClockNumbers ==
    ASSUME ClockTypeOK
    PROVE  /\ timeoutMs \in Nat \ {0} /\ now \in Nat /\ now <= timeoutMs
           /\ leaseEnd \in Nat /\ skipped \in Nat
           /\ Interval \in Nat /\ Interval >= 1000 /\ Extension \in Nat
           /\ Extension >= 3 * Interval
           /\ timeoutMs >= 3000 => timeoutMs >= 3 * Interval
  <1>1. timeoutMs \in Nat \ {0}
    BY TimeoutsAssumption DEF ClockTypeOK
  <1>2. /\ HeartbeatIntervalMs(timeoutMs) \in Nat /\ HeartbeatIntervalMs(timeoutMs) >= 1000
        /\ HeartbeatExtensionMs(timeoutMs) \in Nat
        /\ HeartbeatExtensionMs(timeoutMs) >= 3 * HeartbeatIntervalMs(timeoutMs)
        /\ timeoutMs >= 3000 => timeoutMs >= 3 * HeartbeatIntervalMs(timeoutMs)
    BY <1>1, ThreeBeats
  <1>3. /\ Interval \in Nat /\ Interval >= 1000 /\ Extension \in Nat
        /\ Extension >= 3 * Interval
        /\ timeoutMs >= 3000 => timeoutMs >= 3 * Interval
    BY <1>2 DEF Interval, Extension
  <1>4. QED
    BY <1>1, <1>3, SkipAssumption DEF ClockTypeOK

LEMMA InitRemaining == ClockTypeOK /\ ClockInit => Remaining
  BY ClockNumbers DEF ClockInit, Remaining, Left

(* The same in numbers the provers can do without the definitions.         *)
LEMMA RemainingNumbers ==
    ASSUME ClockTypeOK, Remaining, timeoutMs >= 3000
    PROVE  \E i \in Nat :
              /\ i = Interval /\ i >= 1000
              /\ skipped = 0 /\ now < timeoutMs => leaseEnd - now >= 3 * i
              /\ skipped = 1 /\ now < timeoutMs => leaseEnd - now >= 2 * i
              /\ skipped = 2 /\ now < timeoutMs => leaseEnd - now >= i
              /\ skipped = 0 /\ now >= timeoutMs => leaseEnd - now >= 2 * i
              /\ skipped = 1 /\ now >= timeoutMs => leaseEnd - now >= i
              /\ skipped = 2 /\ now >= timeoutMs => leaseEnd - now >= 0
  <1>1. PICK i \in Nat : i = Interval /\ i >= 1000
    BY ClockNumbers
  <1>2. now \in Nat /\ leaseEnd \in Nat
    BY ClockNumbers
  <1>3. (skipped = 0 => Left(3)) /\ (skipped = 1 => Left(2)) /\ (skipped = 2 => Left(1))
    BY DEF Remaining
  <1>4. skipped = 0 => /\ now < timeoutMs => leaseEnd - now >= 3 * i
                       /\ now >= timeoutMs => leaseEnd - now >= 2 * i
    BY <1>1, <1>2, <1>3 DEF Left
  <1>5. skipped = 1 => /\ now < timeoutMs => leaseEnd - now >= 2 * i
                       /\ now >= timeoutMs => leaseEnd - now >= i
    BY <1>1, <1>2, <1>3 DEF Left
  <1>6. skipped = 2 => /\ now < timeoutMs => leaseEnd - now >= i
                       /\ now >= timeoutMs => leaseEnd - now >= 0
    BY <1>1, <1>2, <1>3 DEF Left
  <1>7. QED
    BY <1>1, <1>4, <1>5, <1>6

LEMMA StepRemaining == ClockTypeOK /\ Remaining /\ [ClockNext]_clockVars => Remaining'
  <1> SUFFICES ASSUME ClockTypeOK, Remaining, [ClockNext]_clockVars, timeoutMs' >= 3000
               PROVE  /\ skipped' = 0 => Left(3)'
                      /\ skipped' = 1 => Left(2)'
                      /\ skipped' = 2 => Left(1)'
    BY DEF Remaining
  <1>1. timeoutMs' = timeoutMs /\ Interval' = Interval
    BY DEF ClockNext, Beat, SkipBeat, TimeOut, Reported, clockVars, Interval
  <1>2. PICK i \in Nat :
              /\ i = Interval /\ i >= 1000
              /\ skipped = 0 /\ now < timeoutMs => leaseEnd - now >= 3 * i
              /\ skipped = 1 /\ now < timeoutMs => leaseEnd - now >= 2 * i
              /\ skipped = 2 /\ now < timeoutMs => leaseEnd - now >= i
              /\ skipped = 0 /\ now >= timeoutMs => leaseEnd - now >= 2 * i
              /\ skipped = 1 /\ now >= timeoutMs => leaseEnd - now >= i
              /\ skipped = 2 /\ now >= timeoutMs => leaseEnd - now >= 0
    BY <1>1, RemainingNumbers
  <1>e. PICK e \in Nat : e = Extension /\ e >= 3 * i
    BY <1>2, ClockNumbers
  <1>3. /\ timeoutMs \in Nat /\ now \in Nat /\ leaseEnd \in Nat /\ skipped \in Nat
        /\ i \in Nat /\ i >= 1000 /\ e \in Nat
    BY <1>2, <1>e, ClockNumbers
  <1>l. /\ Left(3)' <=> /\ now' < timeoutMs => leaseEnd' - now' >= 3 * i
                        /\ now' >= timeoutMs => leaseEnd' - now' >= (3 - 1) * i
        /\ Left(2)' <=> /\ now' < timeoutMs => leaseEnd' - now' >= 2 * i
                        /\ now' >= timeoutMs => leaseEnd' - now' >= (2 - 1) * i
        /\ Left(1)' <=> /\ now' < timeoutMs => leaseEnd' - now' >= 1 * i
                        /\ now' >= timeoutMs => leaseEnd' - now' >= (1 - 1) * i
    BY <1>1, <1>2 DEF Left
  <1>5. CASE Beat
    <2>1. /\ now' = now + i /\ leaseEnd' = now' + e /\ skipped' = 0 /\ now + i < timeoutMs
      BY <1>2, <1>e, <1>1, <1>5 DEF Beat
    <2>2. leaseEnd' - now' >= 3 * i /\ now' < timeoutMs /\ now' \in Nat
      BY <1>3, <1>e, <2>1
    <2>3. QED
      BY <1>3, <1>l, <2>1, <2>2
  <1>6. CASE SkipBeat
    <2>1. /\ now' = now + i /\ now + i < timeoutMs /\ leaseEnd' = leaseEnd
          /\ skipped' = skipped + 1
      BY <1>2, <1>6 DEF SkipBeat
    <2>2. now < timeoutMs /\ now' < timeoutMs /\ now' \in Nat
      BY <1>3, <2>1
    <2>3. /\ skipped' = 1 => leaseEnd' - now' >= 2 * i
          /\ skipped' = 2 => leaseEnd' - now' >= i
          /\ skipped' # 0
      BY <1>2, <1>3, <2>1, <2>2
    <2>4. QED
      BY <1>3, <1>l, <2>1, <2>2, <2>3
  <1>7. CASE TimeOut
    <2>1. /\ now < timeoutMs /\ now + i >= timeoutMs /\ now' = timeoutMs
          /\ leaseEnd' = leaseEnd /\ skipped' = skipped
      BY <1>2, <1>7 DEF TimeOut
    <2>2. /\ skipped' = 0 => leaseEnd' - now' >= 2 * i
          /\ skipped' = 1 => leaseEnd' - now' >= i
          /\ skipped' = 2 => leaseEnd' - now' >= 0
      BY <1>2, <1>3, <2>1
    <2>3. QED
      BY <1>3, <1>l, <2>1, <2>2
  <1>8. CASE Reported \/ UNCHANGED clockVars
    <2>1. UNCHANGED <<timeoutMs, now, leaseEnd, skipped>>
      BY <1>8 DEF Reported, clockVars
    <2>2. QED
      BY <1>2, <1>3, <1>l, <2>1
  <1>9. QED
    BY <1>5, <1>6, <1>7, <1>8 DEF ClockNext

(* For every set of timeouts, and however many beats are skipped: what is  *)
(* left of a lease of three seconds or more.                               *)
THEOREM RemainingHolds == ClockSpec => []Remaining
  BY ClockTypesKept, InitRemaining, StepRemaining, PTL DEF ClockSpec

(* A lease of three seconds or more runs out before the timeout only when  *)
(* three beats in a row have been skipped, and at the timeout only when    *)
(* two have.                                                               *)
THEOREM LapsesAfterSkips ==
    ClockSpec => [](timeoutMs >= 3000 /\ leaseEnd <= now =>
                       skipped >= IF now < timeoutMs THEN 3 ELSE 2)
  <1>1. ClockTypeOK /\ Remaining =>
           (timeoutMs >= 3000 /\ leaseEnd <= now =>
               skipped >= IF now < timeoutMs THEN 3 ELSE 2)
    <2> SUFFICES ASSUME ClockTypeOK, Remaining, timeoutMs >= 3000, leaseEnd <= now
                 PROVE  skipped >= IF now < timeoutMs THEN 3 ELSE 2
      OBVIOUS
    <2>1. timeoutMs \in Nat /\ now \in Nat /\ leaseEnd \in Nat /\ skipped \in Nat
      BY ClockNumbers
    <2>2. skipped # 0 /\ skipped # 1 /\ (now < timeoutMs => skipped # 2)
      <3>1. PICK i \in Nat :
                  /\ i = Interval /\ i >= 1000
                  /\ skipped = 0 /\ now < timeoutMs => leaseEnd - now >= 3 * i
                  /\ skipped = 1 /\ now < timeoutMs => leaseEnd - now >= 2 * i
                  /\ skipped = 2 /\ now < timeoutMs => leaseEnd - now >= i
                  /\ skipped = 0 /\ now >= timeoutMs => leaseEnd - now >= 2 * i
                  /\ skipped = 1 /\ now >= timeoutMs => leaseEnd - now >= i
        BY RemainingNumbers
      <3>3. QED
        BY <2>1, <3>1
    <2>3. QED
      BY <2>1, <2>2
  <1>2. QED
    BY <1>1, ClockTypesKept, RemainingHolds, PTL

(* For every set of timeouts: while no two beats in a row are skipped, a   *)
(* lease of three seconds or more never lapses before the timeout, and a   *)
(* failure can still be reported for one further interval.                 *)
THEOREM LeaseOutlives ==
    ASSUME SkipBound <= 1 PROVE ClockSpec => []LeaseOutlivesBeats
  <1>1. ClockTypeOK /\ Remaining => LeaseOutlivesBeats
    <2> SUFFICES ASSUME ClockTypeOK, Remaining, timeoutMs >= 3000
                 PROVE  leaseEnd - now >= Interval
      BY DEF LeaseOutlivesBeats
    <2>1. timeoutMs \in Nat /\ now \in Nat /\ leaseEnd \in Nat
      BY ClockNumbers
    <2>2. skipped = 0 \/ skipped = 1
      BY SkipAssumption DEF ClockTypeOK
    <2>3. QED
      <3>1. PICK i \in Nat :
                  /\ i = Interval /\ i >= 1000
                  /\ skipped = 0 /\ now < timeoutMs => leaseEnd - now >= 3 * i
                  /\ skipped = 1 /\ now < timeoutMs => leaseEnd - now >= 2 * i
                  /\ skipped = 0 /\ now >= timeoutMs => leaseEnd - now >= 2 * i
                  /\ skipped = 1 /\ now >= timeoutMs => leaseEnd - now >= i
        BY RemainingNumbers
      <3>3. leaseEnd - now >= i
        BY <2>1, <2>2, <3>1
      <3>4. QED
        BY <3>1, <3>3
  <1>2. QED
    BY <1>1, ClockTypesKept, RemainingHolds, PTL
=============================================================================
