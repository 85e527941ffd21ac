----------------------- MODULE ScheduledAuditsProofs -----------------------
(***************************************************************************)
(* What AuditEnqueue and ScheduledAudits keep, for any schedules, clients, *)
(* passes, limits and days of any calendar.                                *)
(*                                                                         *)
(* The invariant is ScheduleInv.  Its first half is about the runs alone:  *)
(* they are only added to (RunsGrow) or age (RunsKept).  The second half   *)
(* is about the schedules: who holds one knows that it is due, and is the  *)
(* only one, so that a schedule and the runs with its keys move together.  *)
(***************************************************************************)
EXTENDS ScheduledAudits, FiniteSetTheorems, TLAPS

-----------------------------------------------------------------------------
(* The calendar.                                                           *)
LEMMA MonthFacts ==
    ASSUME NEW m \in Months
    PROVE  /\ MonthStart[m] \in Nat /\ MonthStart[m + 1] \in Nat
           /\ DaysIn(m) \in 28 .. 31 /\ m \in Nat \ {0} /\ m + 1 <= Len(MonthStart)
           /\ MonthStart[m + 1] = MonthStart[m] + DaysIn(m)
  <1>1. /\ m \in 1 .. Len(MonthStart) /\ m + 1 \in 1 .. Len(MonthStart) /\ m \in Nat \ {0}
        /\ MonthStart \in Seq(Nat)
    BY CalendarAssumption DEF Months
  <1>2. MonthStart[m] \in Nat /\ MonthStart[m + 1] \in Nat
    BY <1>1
  <1>3. DaysIn(m) \in 28 .. 31
    BY CalendarAssumption DEF Months, DaysIn
  <1>4. QED
    BY <1>1, <1>2, <1>3 DEF DaysIn

LEMMA MonthsInOrder ==
    ASSUME NEW m \in Months, NEW n \in Months, NEW a \in DaysOf(m), NEW b \in DaysOf(n), a <= b
    PROVE  m <= n
  <1> SUFFICES ASSUME m > n PROVE FALSE
    BY MonthFacts
  <1>1. MonthStart[n + 1] <= MonthStart[m]
    BY MonthFacts, CalendarAssumption
  <1>2. a > MonthStart[m] /\ b <= MonthStart[n + 1] /\ a \in Nat /\ b \in Nat
    BY MonthFacts DEF DaysOf
  <1>3. QED
    BY <1>1, <1>2, MonthFacts

LEMMA MonthKnown ==
    ASSUME NEW m \in Months, NEW day \in DaysOf(m)
    PROVE  MonthOf(day) = m /\ day \in Nat \ {0}
  <1>1. MonthOf(day) \in Months /\ day \in DaysOf(MonthOf(day))
    BY DEF MonthOf
  <1>2. day \in Nat \ {0}
    BY MonthFacts DEF DaysOf
  <1>3. MonthOf(day) <= m /\ m <= MonthOf(day)
    BY <1>1, <1>2, MonthsInOrder
  <1>4. QED
    BY <1>1, <1>2, <1>3, MonthFacts

LEMMA DayKnown ==
    ASSUME NEW day \in Days
    PROVE  /\ day \in Nat \ {0} /\ MonthOf(day) \in Months /\ MonthOf(day) + 1 \in Months
           /\ day \in DaysOf(MonthOf(day)) /\ MonthStart[MonthOf(day)] \in Nat
           /\ MonthStart[MonthOf(day)] < day /\ DayOfMonth(day) \in Nat \ {0}
  <1>1. PICK m \in 1 .. (Len(MonthStart) - 2) : day \in DaysOf(m)
    BY DaysAssumption
  <1>2. m \in Months /\ m + 1 \in Months
    BY <1>1, CalendarAssumption DEF Months
  <1>3. MonthOf(day) = m /\ day \in Nat \ {0}
    BY <1>1, <1>2, MonthKnown
  <1>4. MonthStart[m] < day
    BY <1>1, <1>2, MonthFacts DEF DaysOf
  <1>5. QED
    BY <1>1, <1>2, <1>3, <1>4, MonthFacts DEF DayOfMonth

LEMMA MonthsStartInOrder ==
    ASSUME NEW a \in Days, NEW b \in Days, a <= b
    PROVE  MonthStart[MonthOf(a)] <= MonthStart[MonthOf(b)]
  <1>0. /\ MonthOf(a) \in Months /\ a \in DaysOf(MonthOf(a))
        /\ MonthOf(b) \in Months /\ b \in DaysOf(MonthOf(b))
    BY DayKnown
  <1>1. MonthOf(a) <= MonthOf(b)
    BY <1>0, MonthsInOrder
  <1>2. MonthOf(a) \in 1 .. Len(MonthStart) /\ MonthOf(b) \in 1 .. Len(MonthStart)
    BY <1>0, MonthFacts
  <1>3. QED
    BY <1>1, <1>2, CalendarAssumption

-----------------------------------------------------------------------------
(* The runs.                                                               *)

Projects == {sub.project : sub \in Submissions}
Keys     == {sub.key : sub \in Submissions}
              \cup ({"SCHEDULED_AUDIT"} \X Schedules \X Nat)
RunRows  == [day : Days, project : Projects, key : Keys, limit : Int,
             status : RunStatuses, job : JobStates, finishedOn : Days \cup {0}]

RunsTyped == runs \in Seq(RunRows) /\ today \in Days

(* Jobs end after they began, and a deleted one has been over for long.    *)
RunsDated ==
    \A n \in DOMAIN runs :
       /\ runs[n].job = "active" <=> runs[n].finishedOn = 0
       /\ runs[n].job = "deleted" => runs[n].finishedOn + CleanupAge < today

RunsInv == RunsTyped /\ RunsDated /\ KeysRemembered /\ WithinQuota /\ NoOverlapUnlessRetried

(* The runs of the month of run n up to it, which WithinQuota counts.      *)
Used(n) == {k \in 1 .. n : /\ runs[k].project # NoProject
                           /\ MonthOfRun(k) = MonthOfRun(n)}

LEMMA RunTypes ==
    ASSUME RunsTyped
    PROVE  /\ Len(runs) \in Nat /\ DOMAIN runs = 1 .. Len(runs) /\ today \in Nat \ {0}
           /\ \A n \in DOMAIN runs : /\ runs[n] \in RunRows /\ runs[n].day \in Days
                                     /\ runs[n].finishedOn \in Nat /\ runs[n].limit \in Int
                                     /\ runs[n].status \in RunStatuses
                                     /\ runs[n].job \in JobStates
  <1>1. /\ Len(runs) \in Nat /\ DOMAIN runs = 1 .. Len(runs)
        /\ \A n \in DOMAIN runs : runs[n] \in RunRows
    BY DEF RunsTyped
  <1>2. \A day \in Days : day \in Nat \ {0}
    BY DayKnown
  <1>3. today \in Nat \ {0}
    BY <1>2 DEF RunsTyped
  <1>4. ASSUME NEW n \in DOMAIN runs PROVE runs[n].finishedOn \in Nat
    <2>1. runs[n].finishedOn \in Days \cup {0}
      BY <1>1 DEF RunRows
    <2>2. QED
      BY <2>1, <1>2
  <1>5. QED
    BY <1>1, <1>3, <1>4 DEF RunRows

(* Runs age: they keep what they are, become active never again, and their *)
(* jobs end and are deleted in their time.                                 *)
RunsKept ==
    /\ runs' \in Seq(RunRows) /\ Len(runs') = Len(runs)
    /\ today' \in Days /\ today <= today'
    /\ \A n \in DOMAIN runs :
          /\ runs'[n].day = runs[n].day /\ runs'[n].project = runs[n].project
          /\ runs'[n].key = runs[n].key /\ runs'[n].limit = runs[n].limit
          /\ runs'[n].status = "active" => runs[n].status = "active"
          /\ runs'[n].job = "active" <=> runs'[n].finishedOn = 0
          /\ runs[n].job = "deleted" =>
                runs'[n].job = "deleted" /\ runs'[n].finishedOn = runs[n].finishedOn
          /\ runs'[n].job = "deleted" => runs'[n].finishedOn + CleanupAge < today

LEMMA KeptStep == ASSUME RunsInv, RunsKept PROVE RunsInv'
  <1>1. /\ RunsTyped' /\ RunsTyped /\ DOMAIN runs' = DOMAIN runs /\ DOMAIN runs = 1 .. Len(runs)
        /\ today \in Nat /\ today' \in Nat /\ Len(runs) \in Nat
        /\ \A n \in DOMAIN runs : runs'[n].finishedOn \in Nat /\ runs'[n].day \in Nat
    <2>1. RunsTyped' /\ RunsTyped
      BY DEF RunsInv, RunsTyped, RunsKept
    <2>2. runs' \in Seq(RunRows) /\ Len(runs') = Len(runs) /\ runs \in Seq(RunRows)
      BY <2>1 DEF RunsKept, RunsTyped
    <2>3. DOMAIN runs' = DOMAIN runs /\ DOMAIN runs = 1 .. Len(runs) /\ Len(runs) \in Nat
      BY <2>2
    <2>4. ASSUME NEW n \in DOMAIN runs PROVE runs'[n].finishedOn \in Nat /\ runs'[n].day \in Nat
      <3>1. runs'[n] \in RunRows
        BY <2>2, <2>3
      <3>2. runs'[n].finishedOn \in Days \cup {0} /\ runs'[n].day \in Days
        BY <3>1 DEF RunRows
      <3>3. \A day \in Days : day \in Nat
        BY DayKnown
      <3>4. QED
        BY <3>2, <3>3
    <2>5. today \in Nat /\ today' \in Nat
      BY DayKnown, <2>1 DEF RunsTyped
    <2>6. QED
      BY <2>1, <2>3, <2>4, <2>5
  <1>2. RunsDated'
    BY <1>1 DEF RunsDated, RunsKept, CleanupAge
  <1>3. KeysRemembered'
    BY <1>1 DEF RunsInv, KeysRemembered, RunsKept
  <1>4. NoOverlapUnlessRetried'
    BY <1>1 DEF RunsInv, NoOverlapUnlessRetried, RunsKept
  <1>5. WithinQuota'
    <2> SUFFICES ASSUME NEW n \in DOMAIN runs, runs[n].project # NoProject
                 PROVE  Cardinality(Used(n)') <= runs[n].limit
      BY <1>1 DEF WithinQuota, RunsKept, Used
    <2>1. Used(n)' = Used(n)
      <3>1. \A k \in 1 .. n : k \in DOMAIN runs
        BY <1>1
      <3>2. QED
        BY <1>1, <3>1 DEF Used, RunsKept, MonthOfRun
    <2>2. Cardinality(Used(n)) <= runs[n].limit
      BY DEF RunsInv, WithinQuota, Used
    <2>3. QED
      BY <2>1, <2>2
  <1>6. QED
    BY <1>1, <1>2, <1>3, <1>4, <1>5 DEF RunsInv

(* A run is added: not beyond the limit as of "now", not with a key that   *)
(* is remembered, and not by a schedule next to one that is active.        *)
RunsGrow(sub, limit, now) ==
    /\ runs' = Append(runs, NewRun(sub, limit))
    /\ sub.key \in Keys /\ sub.project \in Projects /\ limit \in Int
    /\ now \in Days /\ now <= today /\ UNCHANGED today
    /\ ~Remembered(sub.key)
    /\ ~LimitReached(sub, limit, now)
    /\ sub.key[1] = "SCHEDULED_AUDIT" =>
          \A n \in DOMAIN runs : runs[n].project = sub.project => runs[n].status # "active"

LEMMA GrowStep ==
    ASSUME RunsInv, NEW sub, NEW limit, NEW now, RunsGrow(sub, limit, now)
    PROVE  RunsInv'
  <1>1. PICK new : new = NewRun(sub, limit)
    OBVIOUS
  <1>2. /\ new.day = today /\ new.project = sub.project /\ new.key = sub.key
        /\ new.limit = limit /\ new.status = "active" /\ new.job = "active"
        /\ new.finishedOn = 0
    BY <1>1 DEF NewRun
  <1>3. RunsTyped
    BY DEF RunsInv
  <1>4. new \in RunRows
    BY <1>1, <1>3 DEF RunRows, NewRun, RunsGrow, RunStatuses, JobStates, RunsTyped
  <1>5. DEFINE top == Len(runs) + 1
  <1>6. /\ runs' \in Seq(RunRows) /\ DOMAIN runs' = 1 .. top /\ DOMAIN runs = 1 .. Len(runs)
        /\ runs'[top] = new /\ \A n \in DOMAIN runs : runs'[n] = runs[n]
        /\ Len(runs) \in Nat /\ today' = today
    BY <1>1, <1>3, <1>4 DEF RunsTyped, RunsGrow
  <1>7. \A n \in DOMAIN runs' : n = top \/ n \in DOMAIN runs
    BY <1>6
  <1>8. RunsTyped'
    BY <1>3, <1>6 DEF RunsTyped
  <1>9. RunsDated'
    BY <1>2, <1>6, <1>7 DEF RunsInv, RunsDated
  <1>10. KeysRemembered'
    <2> SUFFICES ASSUME NEW m \in DOMAIN runs', NEW n \in DOMAIN runs', m < n,
                        runs'[m].key = runs'[n].key
                 PROVE  runs'[m].job = "deleted" /\ runs'[n].day > runs'[m].finishedOn + CleanupAge
      BY DEF KeysRemembered
    <2>1. m \in DOMAIN runs
      BY <1>6
    <2>2. CASE n = top
      <3>1. runs[m].job = "deleted"
        BY <2>1, <2>2, <1>2, <1>6 DEF RunsGrow, Remembered
      <3>2. runs[m].finishedOn + CleanupAge < today
        BY <2>1, <3>1 DEF RunsInv, RunsDated
      <3>3. today \in Nat /\ runs[m].finishedOn \in Nat
        BY <2>1, <1>3, RunTypes
      <3>4. QED
        BY <2>1, <2>2, <3>1, <3>2, <3>3, <1>2, <1>6 DEF CleanupAge
    <2>3. CASE n \in DOMAIN runs
      BY <2>1, <2>3, <1>6 DEF RunsInv, KeysRemembered
    <2>4. QED
      BY <2>2, <2>3, <1>7
  <1>11. NoOverlapUnlessRetried'
    <2> SUFFICES ASSUME NEW m \in DOMAIN runs', NEW n \in DOMAIN runs', m < n,
                        runs'[m].project = runs'[n].project,
                        runs'[n].key[1] = "SCHEDULED_AUDIT"
                 PROVE  runs'[m].status # "active"
      BY DEF NoOverlapUnlessRetried
    <2>1. m \in DOMAIN runs
      BY <1>6
    <2>2. CASE n = top
      BY <2>1, <2>2, <1>2, <1>6 DEF RunsGrow
    <2>3. CASE n \in DOMAIN runs
      BY <2>1, <2>3, <1>6 DEF RunsInv, NoOverlapUnlessRetried
    <2>4. QED
      BY <2>2, <2>3, <1>7
  <1>12. WithinQuota'
    <2> SUFFICES ASSUME NEW n \in DOMAIN runs', runs'[n].project # NoProject
                 PROVE  Cardinality(Used(n)') <= runs'[n].limit
      BY DEF WithinQuota, Used
    <2>1. CASE n \in DOMAIN runs
      <3>1. \A k \in 1 .. n : k \in DOMAIN runs
        BY <1>6, <2>1
      <3>2. Used(n)' = Used(n)
        BY <1>6, <2>1, <3>1 DEF Used, MonthOfRun
      <3>3. Cardinality(Used(n)) <= runs[n].limit
        BY <1>6, <2>1 DEF RunsInv, WithinQuota, Used
      <3>4. QED
        BY <3>2, <3>3, <2>1, <1>6
    <2>2. CASE n = top
      <3> DEFINE U == UsedSince(now)
      <3>1. U \subseteq 1 .. Len(runs) /\ IsFiniteSet(U) /\ Cardinality(U) \in Nat
        <4>1. U \subseteq 1 .. Len(runs)
          BY <1>6 DEF UsedSince
        <4>2. IsFiniteSet(1 .. Len(runs))
          BY <1>6, FS_Interval
        <4>3. QED
          BY <4>1, <4>2, FS_Subset, FS_CardinalityType
      <3>2. Cardinality(U) < limit /\ limit \in Int
        <4>1. sub.project # NoProject
          BY <2>2, <1>2, <1>6
        <4>2. ~(Cardinality(U) >= limit) /\ limit \in Int
          BY <4>1 DEF RunsGrow, LimitReached
        <4>3. QED
          BY <3>1, <4>2
      <3>3. ASSUME NEW k \in Used(n)', k # top PROVE k \in U
        <4>1. k \in DOMAIN runs /\ runs[k].project # NoProject /\ MonthOf(runs[k].day) = MonthOf(today)
          BY <2>2, <3>3, <1>2, <1>6 DEF Used, MonthOfRun
        <4>2. runs[k].day \in Days /\ today \in Days
          BY <4>1, <1>3, RunTypes DEF RunsTyped
        <4>3. MonthStart[MonthOf(today)] < runs[k].day
          BY <4>1, <4>2, DayKnown
        <4>4. /\ MonthStart[MonthOf(now)] <= MonthStart[MonthOf(today)]
              /\ MonthStart[MonthOf(now)] \in Nat /\ MonthStart[MonthOf(today)] \in Nat
              /\ runs[k].day \in Nat
          BY <4>2, MonthsStartInOrder, DayKnown DEF RunsGrow
        <4>5. QED
          BY <4>1, <4>3, <4>4 DEF UsedSince
      <3>4. Used(n)' \subseteq U \cup {top}
        BY <3>3
      <3>5. IsFiniteSet(U \cup {top}) /\ Cardinality(U \cup {top}) <= Cardinality(U) + 1
            /\ Cardinality(U \cup {top}) \in Nat
        <4>1. IsFiniteSet(U)
          BY <3>1
        <4>2. IsFiniteSet(U \cup {top})
          BY <4>1, FS_AddElement
        <4>3. \/ Cardinality(U \cup {top}) = Cardinality(U)
              \/ Cardinality(U \cup {top}) = Cardinality(U) + 1
          <5> HIDE DEF U, top
          <5>1. QED
            BY <4>1, FS_AddElement
        <4>4. QED
          BY <3>1, <4>2, <4>3
      <3>6. Cardinality(Used(n)') <= Cardinality(U \cup {top}) /\ Cardinality(Used(n)') \in Nat
        BY <3>4, <3>5, FS_Subset, FS_CardinalityType
      <3>7. QED
        BY <2>2, <3>1, <3>2, <3>5, <3>6, <1>2, <1>6
    <2>3. QED
      BY <2>1, <2>2, <1>7
  <1>13. QED
    BY <1>8, <1>9, <1>10, <1>11, <1>12 DEF RunsInv

-----------------------------------------------------------------------------
(* Schedules, passes and requests.                                         *)

RequestsKnown ==
    /\ request \in [Clients -> [at : {"idle", "submit"},
                                sub : Submissions \cup {NoSubmission}, limit : Int]]
    /\ \A q \in Clients : request[q].at = "submit" => request[q].sub \in Submissions

PassRows == [now : Days \cup {0}, left : 0 .. MaxSchedules,
             excluded : SUBSET Schedules, holds : Schedules \cup {NoSchedule}]

(* Whoever holds a schedule is alone, and found it due in the past.        *)
PassesKnow ==
    /\ pass \in [Passes -> PassRows]
    /\ \A p \in Passes : pass[p].now <= today
    /\ \A p \in Passes : pass[p].holds # NoSchedule =>
          /\ pass[p].now # 0 /\ pass[p].left # 0
          /\ Due(pass[p].holds, pass[p].now)
    /\ \A o, p \in Passes :
          pass[o].holds = pass[p].holds /\ pass[p].holds # NoSchedule => o = p

ScheduleRows == [state : ScheduleStates, created : Days \cup {0}, next : Nat]

(* The next occurrence follows those that have runs, and is in a month of  *)
(* the calendar.                                                           *)
SchedulesKnow ==
    /\ schedule \in [Schedules -> ScheduleRows]
    /\ \A s \in Schedules : Created(s) =>
          /\ schedule[s].created \in Days
          /\ schedule[s].next = NthOccurrence(s, Cardinality(RunsOf(s)) + 1)
          /\ ScheduleFor[s].frequency = "MONTHLY" =>
                MonthOf(schedule[s].created) + Cardinality(RunsOf(s)) + 1 \in Months
    /\ \A s \in Schedules : ~Created(s) => RunsOf(s) = {}
    /\ \A s \in Schedules : \A n \in RunsOf(s) :
          /\ runs[n].key[3] < schedule[s].next /\ runs[n].key[3] <= runs[n].day
          /\ runs[n].key[3] = NthOccurrence(s, Cardinality(RunsUpTo(s, n)))

CountersTyped == subs \in Seq(SubRows) /\ failures \in 0 .. FailBound

ScheduleInv ==
    RunsInv /\ RequestsKnown /\ PassesKnow /\ SchedulesKnow /\ CountersTyped

LEMMA RunsOfFinite ==
    ASSUME RunsTyped, NEW s
    PROVE  IsFiniteSet(RunsOf(s)) /\ Cardinality(RunsOf(s)) \in Nat
  <1>1. RunsOf(s) \subseteq 1 .. Len(runs) /\ Len(runs) \in Nat
    BY RunTypes DEF RunsOf
  <1>2. IsFiniteSet(1 .. Len(runs))
    BY <1>1, FS_Interval
  <1>3. QED
    BY <1>1, <1>2, FS_Subset, FS_CardinalityType

(* The same runs belong to the same schedules.                             *)
SameOccurrences ==
    \A s \in Schedules : /\ RunsOf(s)' = RunsOf(s)
                         /\ \A n \in RunsOf(s) : /\ runs'[n].key = runs[n].key
                                                 /\ runs'[n].day = runs[n].day

LEMMA KeptOccurrences == ASSUME RunsTyped, RunsKept PROVE SameOccurrences
  <1>1. DOMAIN runs' = DOMAIN runs
    BY DEF RunsTyped, RunsKept
  <1>2. \A s \in Schedules : RunsOf(s)' = RunsOf(s)
    BY <1>1 DEF RunsOf, RunsKept
  <1>3. \A s \in Schedules : RunsOf(s) \subseteq DOMAIN runs
    BY DEF RunsOf
  <1>4. QED
    BY <1>2, <1>3 DEF SameOccurrences, RunsKept

LEMMA SameSchedules ==
    ASSUME SchedulesKnow, SameOccurrences, UNCHANGED schedule
    PROVE  SchedulesKnow'
  <1>1. \A s \in Schedules : \A n : RunsUpTo(s, n)' = RunsUpTo(s, n)
    BY DEF SameOccurrences, RunsUpTo
  <1>2. \A s \in Schedules : \A n : NthOccurrence(s, n)' = NthOccurrence(s, n)
    BY DEF NthOccurrence
  <1>3. \A s \in Schedules : Created(s)' = Created(s)
    BY DEF Created
  <1>4. QED
    BY <1>1, <1>2, <1>3 DEF SchedulesKnow, SameOccurrences

(* Nothing a schedule knows of changes, but it may be later.               *)
Aside == SameOccurrences /\ today <= today'

(* Steps of everything but schedules and passes.                           *)
LEMMA OutsideStep ==
    ASSUME ScheduleInv, UNCHANGED <<schedule, pass, failures>>,
           RunsInv', RequestsKnown', subs' \in Seq(SubRows), today <= today', SameOccurrences
    PROVE  ScheduleInv' /\ Aside
  <1>1. today \in Nat /\ today' \in Nat
    BY DayKnown DEF ScheduleInv, RunsInv, RunsTyped
  <1>2. \A p \in Passes : pass[p].now \in Nat
    <2>1. \A p \in Passes : pass[p].now \in Days \cup {0}
      BY DEF ScheduleInv, PassesKnow, PassRows
    <2>2. \A day \in Days : day \in Nat
      BY DayKnown
    <2>3. QED
      BY <2>1, <2>2
  <1>3. PassesKnow'
    BY <1>1, <1>2 DEF ScheduleInv, PassesKnow, Due, Enabled
  <1>4. SchedulesKnow'
    BY SameSchedules DEF ScheduleInv
  <1>5. QED
    BY <1>3, <1>4 DEF ScheduleInv, CountersTyped, Aside

(* Nothing happens to the runs.                                            *)
LEMMA SameRunsStep ==
    ASSUME ScheduleInv, UNCHANGED <<today, runs>>
    PROVE  RunsInv' /\ SameOccurrences
  <1>1. RunsTyped' /\ RunsDated'
    BY DEF ScheduleInv, RunsInv, RunsTyped, RunsDated
  <1>2. KeysRemembered' /\ NoOverlapUnlessRetried'
    BY DEF ScheduleInv, RunsInv, KeysRemembered, NoOverlapUnlessRetried
  <1>3. WithinQuota'
    BY DEF ScheduleInv, RunsInv, WithinQuota, MonthOfRun
  <1>4. SameOccurrences
    BY DEF SameOccurrences, RunsOf
  <1>5. QED
    BY <1>1, <1>2, <1>3, <1>4 DEF RunsInv

LEMMA KeptRunsStep ==
    ASSUME ScheduleInv, RunsKept, UNCHANGED <<schedule, pass, failures, subs, request>>
    PROVE  ScheduleInv' /\ Aside
  <1>1. RunsInv' /\ SameOccurrences
    BY KeptStep, KeptOccurrences DEF ScheduleInv, RunsInv
  <1>2. RequestsKnown' /\ subs' \in Seq(SubRows)
    BY DEF ScheduleInv, RequestsKnown, CountersTyped
  <1>3. today <= today'
    BY DEF RunsKept
  <1>4. QED
    BY <1>1, <1>2, <1>3, OutsideStep

-----------------------------------------------------------------------------
(* Runs and their jobs.                                                    *)

LEMMA RewrittenRun ==
    ASSUME RunsInv, NEW n \in DOMAIN runs, NEW status \in RunStatuses,
           NEW job \in JobStates, NEW finishedOn \in Days \cup {0},
           UNCHANGED today, runs[n].job # "deleted",
           status = "active" => runs[n].status = "active",
           job = "active" <=> finishedOn = 0, job # "deleted",
           runs' = [runs EXCEPT ![n] = Rewritten(runs[n], status, job, finishedOn)]
    PROVE  RunsKept
  <1>1. PICK row : row = Rewritten(runs[n], status, job, finishedOn)
    OBVIOUS
  <1>2. /\ row.day = runs[n].day /\ row.project = runs[n].project /\ row.key = runs[n].key
        /\ row.limit = runs[n].limit /\ row.status = status /\ row.job = job
        /\ row.finishedOn = finishedOn
    BY <1>1 DEF Rewritten
  <1>3. RunsTyped /\ runs[n] \in RunRows
    BY RunTypes DEF RunsInv
  <1>4. row \in RunRows
    BY <1>1, <1>3 DEF Rewritten, RunRows
  <1>5. /\ runs' \in Seq(RunRows) /\ Len(runs') = Len(runs) /\ DOMAIN runs = 1 .. Len(runs)
        /\ runs'[n] = row /\ \A k \in DOMAIN runs : k # n => runs'[k] = runs[k]
    BY <1>1, <1>3, <1>4 DEF RunsTyped
  <1>6. today' \in Days /\ today <= today'
    BY <1>3, RunTypes DEF RunsTyped
  <1>7. ASSUME NEW k \in DOMAIN runs
        PROVE  /\ runs'[k].day = runs[k].day /\ runs'[k].project = runs[k].project
               /\ runs'[k].key = runs[k].key /\ runs'[k].limit = runs[k].limit
               /\ runs'[k].status = "active" => runs[k].status = "active"
               /\ runs'[k].job = "active" <=> runs'[k].finishedOn = 0
               /\ runs[k].job = "deleted" =>
                     runs'[k].job = "deleted" /\ runs'[k].finishedOn = runs[k].finishedOn
               /\ runs'[k].job = "deleted" => runs'[k].finishedOn + CleanupAge < today
    <2>1. CASE k = n
      BY <2>1, <1>2, <1>5
    <2>2. CASE k # n
      BY <2>2, <1>5 DEF RunsInv, RunsDated
    <2>3. QED
      BY <2>1, <2>2
  <1>8. QED
    BY <1>5, <1>6, <1>7 DEF RunsKept

LEMMA JobStep ==
    ASSUME ScheduleInv, UNCHANGED <<schedule, pass, failures>>, NEW n \in DOMAIN runs,
           AttemptEnds(n) \/ NextAttempt(n) \/ JobEnds(n)
    PROVE  ScheduleInv' /\ Aside
  <1>1. /\ runs[n].job = "active" /\ UNCHANGED <<today, subs, request>>
        /\ runs[n].job \in JobStates /\ runs[n].status \in RunStatuses
        /\ runs[n].finishedOn = 0 /\ today \in Days /\ today # 0 /\ RunsInv
    <2>1. runs[n].job = "active" /\ UNCHANGED <<today, subs, request>>
      BY DEF AttemptEnds, NextAttempt, JobEnds, RunBecomes
    <2>2. RunsInv /\ runs[n].finishedOn = 0 /\ today \in Days
      BY <2>1 DEF ScheduleInv, RunsInv, RunsDated, RunsTyped
    <2>3. QED
      BY <2>1, <2>2, RunTypes, DayKnown DEF RunsInv
  <1>2. CASE AttemptEnds(n)
    <2>1. runs' = [runs EXCEPT ![n] = Rewritten(runs[n], "attempted", "active", 0)]
      BY <1>1, <1>2 DEF AttemptEnds, RunBecomes
    <2>2. RunsKept
      BY <1>1, <2>1, RewrittenRun DEF RunStatuses, JobStates
    <2>3. QED
      BY <1>1, <2>2, KeptRunsStep
  <1>3. CASE NextAttempt(n)
    <2>1. runs' = [runs EXCEPT ![n] = Rewritten(runs[n], "retried", "active", 0)]
      BY <1>1, <1>3 DEF NextAttempt, RunBecomes
    <2>2. RunsKept
      BY <1>1, <2>1, RewrittenRun DEF RunStatuses, JobStates
    <2>3. QED
      BY <1>1, <2>2, KeptRunsStep
  <1>4. CASE JobEnds(n)
    <2>1. PICK status \in {"settled", runs[n].status} :
             runs' = [runs EXCEPT ![n] = Rewritten(runs[n], status, "finished", today)]
      BY <1>4 DEF JobEnds
    <2>2. status \in RunStatuses /\ (status = "active" => runs[n].status = "active")
      BY <1>1, <2>1 DEF RunStatuses
    <2>3. RunsKept
      BY <1>1, <2>1, <2>2, RewrittenRun DEF JobStates
    <2>4. QED
      BY <1>1, <2>3, KeptRunsStep
  <1>5. QED
    BY <1>2, <1>3, <1>4

LEMMA CleanupStep ==
    ASSUME ScheduleInv, UNCHANGED <<schedule, pass, failures>>, CleanupStaleJobs
    PROVE  ScheduleInv' /\ Aside
  <1> DEFINE Deleted(row) == Rewritten(row, row.status, "deleted", row.finishedOn)
  <1>1. /\ RunsInv /\ RunsTyped /\ Len(runs) \in Nat /\ DOMAIN runs = 1 .. Len(runs)
        /\ \A n \in DOMAIN runs : runs[n] \in RunRows /\ runs[n].finishedOn \in Nat
        /\ today \in Nat /\ today \in Days
    BY RunTypes DEF ScheduleInv, RunsInv, RunsTyped
  <1>2. \A row \in RunRows :
           /\ Deleted(row) \in RunRows
           /\ Deleted(row).day = row.day /\ Deleted(row).project = row.project
           /\ Deleted(row).key = row.key /\ Deleted(row).limit = row.limit
           /\ Deleted(row).status = row.status /\ Deleted(row).job = "deleted"
           /\ Deleted(row).finishedOn = row.finishedOn
    BY DEF Rewritten, RunRows, JobStates
  <1> HIDE DEF Deleted
  <1>3. /\ runs' = [n \in DOMAIN runs |-> IF Stale(runs[n]) THEN Deleted(runs[n]) ELSE runs[n]]
        /\ UNCHANGED <<today, subs, request>>
    BY DEF CleanupStaleJobs, Deleted
  <1>4. runs' \in Seq(RunRows) /\ Len(runs') = Len(runs)
    <2>1. PICK f : f = runs'
      OBVIOUS
    <2>2. f \in [1 .. Len(runs) -> RunRows]
      BY <2>1, <1>1, <1>2, <1>3
    <2>3. f \in Seq(RunRows) /\ Len(f) = Len(runs)
      BY <2>2, <1>1
    <2>4. QED
      BY <2>1, <2>3
  <1>5. ASSUME NEW k \in DOMAIN runs
        PROVE  /\ runs'[k].day = runs[k].day /\ runs'[k].project = runs[k].project
               /\ runs'[k].key = runs[k].key /\ runs'[k].limit = runs[k].limit
               /\ runs'[k].status = "active" => runs[k].status = "active"
               /\ runs'[k].job = "active" <=> runs'[k].finishedOn = 0
               /\ runs[k].job = "deleted" =>
                     runs'[k].job = "deleted" /\ runs'[k].finishedOn = runs[k].finishedOn
               /\ runs'[k].job = "deleted" => runs'[k].finishedOn + CleanupAge < today
    <2>1. CASE Stale(runs[k])
      BY <2>1, <1>1, <1>2, <1>3 DEF Stale, RunsInv, RunsDated, CleanupAge
    <2>2. CASE ~Stale(runs[k])
      <3>1. runs'[k] = runs[k]
        BY <2>2, <1>3
      <3>2. QED
        BY <3>1 DEF ScheduleInv, RunsInv, RunsDated
    <2>3. QED
      BY <2>1, <2>2
  <1>6. RunsKept
    BY <1>1, <1>3, <1>4, <1>5 DEF RunsKept
  <1>7. QED
    BY <1>3, <1>6, KeptRunsStep

LEMMA DayStep ==
    ASSUME ScheduleInv, UNCHANGED <<schedule, pass, failures>>, DayPasses
    PROVE  ScheduleInv' /\ Aside
  <1>1. today' \in Days /\ today' > today /\ UNCHANGED <<subs, runs, request>>
    BY DEF DayPasses
  <1>2. RunsInv /\ RunsTyped /\ today \in Days /\ today \in Nat /\ today' \in Nat
    BY <1>1, DayKnown DEF ScheduleInv, RunsInv, RunsTyped
  <1>3. ASSUME NEW n \in DOMAIN runs, runs[n].job = "deleted"
        PROVE  runs[n].finishedOn + CleanupAge < today
    BY <1>3 DEF ScheduleInv, RunsInv, RunsDated
  <1>4. RunsKept
    BY <1>1, <1>2, <1>3 DEF RunsKept, RunsInv, RunsDated, RunsTyped
  <1>5. QED
    BY <1>1, <1>4, KeptRunsStep

(* Only subscriptions change.                                              *)
LEMMA SubsStep ==
    ASSUME ScheduleInv, UNCHANGED <<schedule, pass, failures, today, runs, request>>,
           subs' \in Seq(SubRows)
    PROVE  ScheduleInv' /\ Aside
  <1>1. RunsInv' /\ SameOccurrences
    BY SameRunsStep
  <1>2. RequestsKnown'
    BY DEF ScheduleInv, RequestsKnown
  <1>3. today \in Nat
    BY DayKnown DEF ScheduleInv, RunsInv, RunsTyped
  <1>4. QED
    BY <1>1, <1>2, <1>3, OutsideStep

LEMMA SubscribeStep ==
    ASSUME ScheduleInv, UNCHANGED <<schedule, pass, failures>>, Subscribe
    PROVE  ScheduleInv' /\ Aside
  <1>1. PICK plan \in OnSale :
          subs' = Append(subs, [plan |-> plan, until |-> OneMonthAfter(today),
                                status |-> "ACTIVE"])
    BY DEF Subscribe
  <1>2. today \in Days
    BY DEF ScheduleInv, RunsInv, RunsTyped
  <1>3. OneMonthAfter(today) \in Nat
    BY <1>2, DayKnown, MonthFacts DEF OneMonthAfter
  <1>4. [plan |-> plan, until |-> OneMonthAfter(today), status |-> "ACTIVE"] \in SubRows
    BY <1>3, PlanAssumption DEF SubRows, SubStatuses
  <1>5. subs' \in Seq(SubRows)
    BY <1>1, <1>4 DEF ScheduleInv, CountersTyped
  <1>6. QED
    BY <1>5, SubsStep DEF Subscribe

LEMMA ExpireStep ==
    ASSUME ScheduleInv, UNCHANGED <<schedule, pass, failures>>, ExpireSubscriptions
    PROVE  ScheduleInv' /\ Aside
  <1> DEFINE Kept(n) == [plan |-> subs[n].plan, until |-> subs[n].until,
                         status |-> IF subs[n].until < today THEN "PAST_DUE"
                                                             ELSE subs[n].status]
  <1>1. subs \in Seq(SubRows)
    BY DEF ScheduleInv, CountersTyped
  <1>2. DOMAIN subs = 1 .. Len(subs) /\ Len(subs) \in Nat
    BY <1>1
  <1>3. ASSUME NEW n \in DOMAIN subs PROVE Kept(n) \in SubRows
    <2>1. subs[n] \in SubRows
      BY <1>1, <1>2, <1>3
    <2>2. QED
      BY <2>1 DEF SubRows, SubStatuses
  <1>4. subs' = [n \in 1 .. Len(subs) |-> Kept(n)]
    BY <1>2 DEF ExpireSubscriptions
  <1>5. subs' \in Seq(SubRows)
    BY <1>2, <1>3, <1>4
  <1>6. QED
    BY <1>5, SubsStep DEF ExpireSubscriptions

-----------------------------------------------------------------------------
(* Requests of clients.                                                    *)

LEMMA PlanType == ASSUME ScheduleInv, NEW now PROVE SubscriptionPlan(now) \in Plans
  <1>1. subs \in Seq(SubRows)
    BY DEF ScheduleInv, CountersTyped
  <1>2. \A n \in DOMAIN subs : subs[n] \in SubRows
    BY <1>1
  <1>3. \A n \in DOMAIN subs : subs[n].plan \in Plans
    BY <1>2 DEF SubRows
  <1>4. QED
    BY <1>3, PlanAssumption DEF SubscriptionPlan

LEMMA LimitType == ASSUME ScheduleInv, NEW now PROVE MonthlyAuditLimit(now) \in Int
  BY PlanType, PlanAssumption DEF MonthlyAuditLimit

LEMMA AskStep ==
    ASSUME ScheduleInv, UNCHANGED <<schedule, pass, failures>>,
           NEW q \in Clients, NEW sub \in Submissions, AskForAudit(q, sub)
    PROVE  ScheduleInv' /\ Aside
  <1>1. UNCHANGED <<today, subs, runs>>
    BY DEF AskForAudit
  <1>2. RunsInv' /\ SameOccurrences
    BY <1>1, SameRunsStep
  <1>3. PICK limit : limit = IF sub.project = NoProject THEN NoLimit ELSE MonthlyAuditLimit(today)
    OBVIOUS
  <1>4. limit \in Int
    BY <1>3, LimitType DEF NoLimit
  <1>5. PICK row : row = [at |-> "submit", sub |-> sub, limit |-> limit]
    OBVIOUS
  <1>6. /\ row \in [at : {"idle", "submit"}, sub : Submissions \cup {NoSubmission}, limit : Int]
        /\ row.sub = sub
    BY <1>4, <1>5
  <1>7. request' = [request EXCEPT ![q] = row]
    BY <1>3, <1>5 DEF AskForAudit
  <1>8. RequestsKnown'
    BY <1>6, <1>7 DEF ScheduleInv, RequestsKnown
  <1>9. today \in Nat /\ subs' \in Seq(SubRows)
    BY <1>1, DayKnown DEF ScheduleInv, RunsInv, RunsTyped, CountersTyped
  <1>10. QED
    BY <1>1, <1>2, <1>8, <1>9, OutsideStep

LEMMA RequestEnds ==
    ASSUME RequestsKnown, NEW q \in Clients, request' = [request EXCEPT ![q] = Idle]
    PROVE  RequestsKnown'
  <1>1. Idle \in [at : {"idle", "submit"}, sub : Submissions \cup {NoSubmission}, limit : Int]
        /\ Idle.at = "idle"
    BY DEF Idle, NoLimit
  <1>2. QED
    BY <1>1 DEF RequestsKnown

(* A client's run is of no schedule.                                       *)
LEMMA SubmitStep ==
    ASSUME ScheduleInv, UNCHANGED <<schedule, pass, failures>>,
           NEW q \in Clients, EnqueueAuditAtomically(q)
    PROVE  ScheduleInv' /\ Aside
  <1> DEFINE sub == request[q].sub
             limit == request[q].limit
  <1>1. /\ request[q].at = "submit" /\ Enqueue(sub, limit, today)
        /\ request' = [request EXCEPT ![q] = Idle] /\ UNCHANGED <<today, subs>>
    BY DEF EnqueueAuditAtomically
  <1>2. sub \in Submissions /\ limit \in Int
    BY <1>1 DEF ScheduleInv, RequestsKnown
  <1>3. today \in Days /\ today \in Nat /\ subs \in Seq(SubRows) /\ RunsInv /\ RunsTyped
    BY DayKnown DEF ScheduleInv, RunsInv, RunsTyped, CountersTyped
  <1>4. RequestsKnown'
    BY <1>1, RequestEnds DEF ScheduleInv
  <1>5. CASE UNCHANGED runs
    <2>1. RunsInv' /\ SameOccurrences
      BY <1>1, <1>5, SameRunsStep
    <2>2. QED
      BY <1>1, <1>3, <1>4, <2>1, OutsideStep
  <1>6. CASE ~UNCHANGED runs
    <2>1. sub.key \in Keys /\ sub.project \in Projects /\ sub.key[1] # "SCHEDULED_AUDIT"
      BY <1>2, KeyAssumption DEF Keys, Projects
    <2>2. RunsGrow(sub, limit, today)
      BY <1>1, <1>2, <1>3, <1>6, <2>1 DEF RunsGrow, Enqueue
    <2>3. RunsInv'
      BY <1>3, <2>2, GrowStep
    <2>4. PICK new : new = NewRun(sub, limit)
      OBVIOUS
    <2>5. new.key[1] # "SCHEDULED_AUDIT"
      BY <2>1, <2>4 DEF NewRun
    <2>6. /\ runs' = Append(runs, new) /\ Len(runs) \in Nat
          /\ DOMAIN runs = 1 .. Len(runs) /\ DOMAIN runs' = 1 .. (Len(runs) + 1)
          /\ runs'[Len(runs) + 1] = new /\ \A n \in DOMAIN runs : runs'[n] = runs[n]
      BY <1>3, <2>2, <2>4 DEF RunsGrow, RunsTyped
    <2>7. \A n \in DOMAIN runs' : n = Len(runs) + 1 \/ n \in DOMAIN runs
      BY <2>6
    <2>8. \A n \in DOMAIN runs : n \in DOMAIN runs'
      BY <2>6
    <2>9. SameOccurrences
      <3>1. ASSUME NEW s \in Schedules PROVE RunsOf(s)' = RunsOf(s)
        BY <2>5, <2>6, <2>7, <2>8 DEF RunsOf
      <3>2. \A s \in Schedules : RunsOf(s) \subseteq DOMAIN runs
        BY DEF RunsOf
      <3>3. QED
        BY <3>1, <3>2, <2>6 DEF SameOccurrences
    <2>10. QED
      BY <1>1, <1>3, <1>4, <2>3, <2>9, OutsideStep
  <1>7. QED
    BY <1>5, <1>6

LEMMA RequestFailsStep ==
    ASSUME ScheduleInv, UNCHANGED <<schedule, pass, failures>>,
           NEW q \in Clients, RequestFails(q)
    PROVE  ScheduleInv' /\ Aside
  <1>1. /\ request' = [request EXCEPT ![q] = Idle] /\ UNCHANGED <<today, subs, runs>>
    BY DEF RequestFails
  <1>2. RunsInv' /\ SameOccurrences
    BY <1>1, SameRunsStep
  <1>3. RequestsKnown'
    BY <1>1, RequestEnds DEF ScheduleInv
  <1>4. today \in Nat /\ subs' \in Seq(SubRows)
    BY <1>1, DayKnown DEF ScheduleInv, RunsInv, RunsTyped, CountersTyped
  <1>5. QED
    BY <1>1, <1>2, <1>3, <1>4, OutsideStep

-----------------------------------------------------------------------------
(* Passes that leave the tables alone.                                     *)

LEMMA PassOnlyStep ==
    ASSUME ScheduleInv, UNCHANGED <<enqueueVars, schedule>>, failures' \in 0 .. FailBound,
           PassesKnow'
    PROVE  ScheduleInv'
  <1>1. UNCHANGED <<today, subs, runs, request>>
    BY DEF enqueueVars
  <1>2. RunsInv' /\ SameOccurrences
    BY <1>1, SameRunsStep
  <1>3. SchedulesKnow'
    BY <1>2, SameSchedules DEF ScheduleInv
  <1>4. RequestsKnown' /\ CountersTyped'
    BY <1>1 DEF ScheduleInv, RequestsKnown, CountersTyped
  <1>5. QED
    BY <1>2, <1>3, <1>4 DEF ScheduleInv

(* A pass becomes something that holds no schedule.                        *)
LEMMA PassLetsGo ==
    ASSUME ScheduleInv, NEW p \in Passes, NEW row \in PassRows, row.holds = NoSchedule,
           row.now <= today, pass' = [pass EXCEPT ![p] = row], UNCHANGED today,
           \A s \in Schedules : (\E o \in Passes : o # p /\ pass[o].holds = s)
                                   => schedule'[s] = schedule[s]
    PROVE  PassesKnow'
  <1>1. /\ pass' \in [Passes -> PassRows] /\ pass'[p] = row
        /\ \A o \in Passes : o # p => pass'[o] = pass[o]
    BY DEF ScheduleInv, PassesKnow
  <1>2. \A o \in Passes : pass'[o].now <= today
    BY <1>1 DEF ScheduleInv, PassesKnow
  <1>3. ASSUME NEW o \in Passes, pass'[o].holds # NoSchedule
        PROVE  /\ pass'[o].now # 0 /\ pass'[o].left # 0
               /\ Due(pass[o].holds, pass[o].now)' /\ o # p
    <2>1. o # p /\ pass'[o] = pass[o]
      BY <1>1, <1>3
    <2>2. Due(pass[o].holds, pass[o].now) /\ pass[o].now # 0 /\ pass[o].left # 0
          /\ pass[o].holds \in Schedules
      BY <1>3, <2>1 DEF ScheduleInv, PassesKnow, PassRows
    <2>3. schedule'[pass[o].holds] = schedule[pass[o].holds]
      BY <2>1, <2>2
    <2>4. QED
      BY <2>1, <2>2, <2>3 DEF Due, Enabled
  <1>4. \A o, r \in Passes : pass'[o].holds = pass'[r].holds /\ pass'[r].holds # NoSchedule => o = r
    BY <1>1, <1>3 DEF ScheduleInv, PassesKnow
  <1>5. QED
    BY <1>1, <1>2, <1>3, <1>4 DEF PassesKnow

LEMMA AtRestKnown == /\ AtRest \in PassRows /\ AtRest.holds = NoSchedule /\ AtRest.now = 0
  BY PassAssumption DEF AtRest, PassRows

LEMMA NowBefore ==
    ASSUME ScheduleInv
    PROVE  /\ today \in Days /\ today \in Nat /\ today # 0
           /\ \A p \in Passes : pass[p].now \in Nat /\ pass[p].now <= today /\ pass[p] \in PassRows
  <1>1. today \in Days
    BY DEF ScheduleInv, RunsInv, RunsTyped
  <1>2. \A day \in Days : day \in Nat \ {0}
    BY DayKnown
  <1>3. \A p \in Passes : pass[p] \in PassRows /\ pass[p].now <= today
    BY DEF ScheduleInv, PassesKnow
  <1>4. ASSUME NEW p \in Passes PROVE pass[p].now \in Nat
    <2>1. pass[p].now \in Days \cup {0}
      BY <1>3 DEF PassRows
    <2>2. QED
      BY <2>1, <1>2
  <1>5. QED
    BY <1>1, <1>2, <1>3, <1>4

LEMMA RestStep ==
    ASSUME ScheduleInv, NEW p \in Passes, EndPass(p) \/ PassDies(p)
    PROVE  ScheduleInv'
  <1>1. UNCHANGED <<enqueueVars, schedule>> /\ pass' = [pass EXCEPT ![p] = AtRest]
    BY DEF EndPass, PassDies
  <1>2. failures' \in 0 .. FailBound
    BY PassAssumption DEF EndPass, PassDies, ScheduleInv, CountersTyped
  <1>3. PassesKnow'
    <2>1. UNCHANGED <<today, schedule>> /\ AtRest.now <= today
      BY <1>1, AtRestKnown, NowBefore DEF enqueueVars
    <2>2. \A s \in Schedules : schedule'[s] = schedule[s]
      BY <2>1
    <2>3. AtRest \in PassRows /\ AtRest.holds = NoSchedule
      BY AtRestKnown
    <2>4. QED
      BY <1>1, <2>1, <2>2, <2>3, PassLetsGo
  <1>4. QED
    BY <1>1, <1>2, <1>3, PassOnlyStep

LEMMA StartStep ==
    ASSUME ScheduleInv, NEW p \in Passes, StartPass(p)
    PROVE  ScheduleInv'
  <1>1. PICK row : row = [now |-> today, left |-> MaxSchedules, excluded |-> {},
                          holds |-> NoSchedule]
    OBVIOUS
  <1>2. row.holds = NoSchedule /\ row.now = today
    BY <1>1
  <1>3. row \in PassRows
    BY <1>1, NowBefore, PassAssumption DEF PassRows
  <1>4. /\ UNCHANGED <<enqueueVars, schedule, failures>>
        /\ pass' = [pass EXCEPT ![p] = row]
    BY <1>1 DEF StartPass
  <1>5. PassesKnow'
    <2>1. UNCHANGED <<today, schedule>> /\ row.now <= today
      BY <1>2, <1>4, NowBefore DEF enqueueVars
    <2>2. \A s \in Schedules : schedule'[s] = schedule[s]
      BY <2>1
    <2>3. QED
      BY <1>2, <1>3, <1>4, <2>1, <2>2, PassLetsGo
  <1>6. QED
    BY <1>4, <1>5, PassOnlyStep DEF ScheduleInv, CountersTyped

(* What is claimed is due and nobody else's.                               *)
LEMMA ClaimStep ==
    ASSUME ScheduleInv, NEW p \in Passes, ClaimOne(p)
    PROVE  ScheduleInv'
  <1>1. PICK s \in Claimable(p) : pass' = [pass EXCEPT ![p].holds = s]
    BY DEF ClaimOne
  <1>2. /\ s \in Schedules /\ Due(s, pass[p].now) /\ \A o \in Passes : pass[o].holds # s
        /\ pass[p].now # 0 /\ pass[p].left > 0
        /\ UNCHANGED <<enqueueVars, schedule, failures>>
    BY <1>1 DEF Claimable, ClaimOne, Between, Working
  <1>3. pass \in [Passes -> PassRows] /\ pass[p].left \in Nat
    BY PassAssumption DEF ScheduleInv, PassesKnow, PassRows
  <1>4. /\ pass' \in [Passes -> PassRows]
        /\ pass'[p].holds = s /\ pass'[p].now = pass[p].now /\ pass'[p].left = pass[p].left
        /\ \A o \in Passes : o # p => pass'[o] = pass[o]
    BY <1>1, <1>2, <1>3 DEF PassRows
  <1>5. UNCHANGED <<today, schedule>> /\ \A o \in Passes : pass'[o].now <= today
    BY <1>2, <1>4 DEF enqueueVars, ScheduleInv, PassesKnow
  <1>6. ASSUME NEW o \in Passes, pass'[o].holds # NoSchedule
        PROVE  /\ pass'[o].now # 0 /\ pass'[o].left # 0
               /\ Enabled(pass'[o].holds) /\ schedule[pass'[o].holds].next <= pass'[o].now
    <2>1. CASE o = p
      BY <2>1, <1>2, <1>3, <1>4 DEF Due
    <2>2. CASE o # p
      BY <2>2, <1>4, <1>6 DEF ScheduleInv, PassesKnow, Due
    <2>3. QED
      BY <2>1, <2>2
  <1>7. ASSUME NEW o \in Passes, NEW r \in Passes, pass'[o].holds = pass'[r].holds,
               pass'[r].holds # NoSchedule
        PROVE  o = r
    BY <1>2, <1>4, <1>7 DEF ScheduleInv, PassesKnow
  <1>8. PassesKnow'
    BY <1>4, <1>5, <1>6, <1>7 DEF PassesKnow, Due, Enabled
  <1>9. QED
    BY <1>2, <1>8, PassOnlyStep DEF ScheduleInv, CountersTyped

-----------------------------------------------------------------------------
(* Occurrences.  A month has one day for a schedule, and the next month's  *)
(* is later.                                                               *)

LEMMA MonthlyDay ==
    ASSUME NEW created \in Days, NEW n \in Nat, MonthOf(created) + n \in Months
    PROVE  /\ NthAfter("MONTHLY", created, n) \in DaysOf(MonthOf(created) + n)
           /\ NthAfter("MONTHLY", created, n) = AnchoredIn(MonthOf(created) + n, created)
  <1> DEFINE m == MonthOf(created) + n
  <1>1. /\ MonthStart[m] \in Nat /\ DaysIn(m) \in 28 .. 31
        /\ MonthStart[m + 1] = MonthStart[m] + DaysIn(m) /\ MonthStart[m + 1] \in Nat
    BY MonthFacts
  <1>2. DayOfMonth(created) \in Nat \ {0}
    BY DayKnown
  <1>3. NthAfter("MONTHLY", created, n) =
           MonthStart[m] + (IF DayOfMonth(created) < DaysIn(m) THEN DayOfMonth(created)
                                                               ELSE DaysIn(m))
    BY DEF NthAfter
  <1> HIDE DEF m
  <1>4. QED
    BY <1>1, <1>2, <1>3 DEF AnchoredIn, DaysOf, m

(* The next run computed from the n-th occurrence of a schedule is its     *)
(* next occurrence by definition, and later; after a short month the day   *)
(* comes back to that of the anchor.                                       *)
THEOREM NthNext ==
    ASSUME NEW created \in Days, NEW n \in Nat \ {0}, NEW now \in Days,
           NEW frequency \in Frequencies,
           NthAfter(frequency, created, n) <= now,
           frequency = "MONTHLY" => MonthOf(created) + n \in Months
    PROVE  /\ NextScheduledRun(frequency, NthAfter(frequency, created, n), created)
                = NthAfter(frequency, created, n + 1)
           /\ NthAfter(frequency, created, n) \in Nat
           /\ NthAfter(frequency, created, n + 1) \in Nat
           /\ NthAfter(frequency, created, n) < NthAfter(frequency, created, n + 1)
           /\ frequency = "MONTHLY" => MonthOf(created) + n + 1 \in Months
  <1>1. created \in Nat \ {0} /\ MonthOf(created) \in Nat
    BY DayKnown, MonthFacts
  <1>2. CASE frequency = "WEEKLY"
    BY <1>1, <1>2 DEF NextScheduledRun, NthAfter
  <1>3. CASE frequency = "MONTHLY"
    <2> DEFINE m == MonthOf(created) + n
               due == NthAfter(frequency, created, n)
    <2>1. m \in Months /\ due \in DaysOf(m)
      BY <1>3, MonthlyDay
    <2>2. MonthOf(due) = m /\ due \in Nat
      BY <2>1, MonthKnown
    <2>3. m <= MonthOf(now) /\ MonthOf(now) \in Months /\ MonthOf(now) + 1 \in Months
      BY <2>1, DayKnown, MonthsInOrder
    <2>4. m + 1 \in Months
      BY <2>1, <2>3, CalendarAssumption DEF Months
    <2>5. /\ NthAfter(frequency, created, n + 1) \in DaysOf(m + 1)
          /\ NthAfter(frequency, created, n + 1) = AnchoredIn(m + 1, created)
      <3>1. n + 1 \in Nat /\ MonthOf(created) + (n + 1) = m + 1
        BY <1>1
      <3>2. QED
        BY <3>1, <2>4, <1>3, MonthlyDay
    <2>6. NextScheduledRun(frequency, due, created) = AnchoredIn(m + 1, created)
      BY <1>3, <2>2 DEF NextScheduledRun
    <2>7. due < NthAfter(frequency, created, n + 1) /\ NthAfter(frequency, created, n + 1) \in Nat
      BY <2>1, <2>2, <2>4, <2>5, MonthFacts DEF DaysOf
    <2>8. MonthOf(created) + n + 1 \in Months
      BY <2>4
    <2>9. QED
      BY <1>3, <2>2, <2>5, <2>6, <2>7, <2>8
  <1>4. QED
    BY <1>2, <1>3 DEF Frequencies

LEMMA NthFirst ==
    ASSUME NEW created \in Days, NEW frequency \in Frequencies
    PROVE  /\ FirstScheduledRun(frequency, created) = NthAfter(frequency, created, 1)
           /\ FirstScheduledRun(frequency, created) \in Nat
           /\ MonthOf(created) + 1 \in Months
  <1>1. created \in Nat \ {0} /\ MonthOf(created) + 1 \in Months
    BY DayKnown
  <1>2. CASE frequency = "WEEKLY"
    BY <1>1, <1>2 DEF FirstScheduledRun, NextScheduledRun, NthAfter
  <1>3. CASE frequency = "MONTHLY"
    <2>1. /\ NthAfter(frequency, created, 1) \in DaysOf(MonthOf(created) + 1)
          /\ NthAfter(frequency, created, 1) = AnchoredIn(MonthOf(created) + 1, created)
      BY <1>1, <1>3, MonthlyDay
    <2>2. NthAfter(frequency, created, 1) \in Nat
      BY <1>1, <2>1, MonthKnown
    <2>3. QED
      BY <1>1, <1>3, <2>1, <2>2 DEF FirstScheduledRun, NextScheduledRun
  <1>4. QED
    BY <1>2, <1>3 DEF Frequencies

-----------------------------------------------------------------------------
(* One schedule changes.                                                   *)

(* What has to be known of its row and of the runs it has then.            *)
RowKnown(s, row, n) ==
    /\ row \in ScheduleRows
    /\ row.state \in {"enabled", "disabled"} =>
          /\ row.created \in Days
          /\ row.next = NthAfter(ScheduleFor[s].frequency, row.created, n + 1)
          /\ ScheduleFor[s].frequency = "MONTHLY" => MonthOf(row.created) + n + 1 \in Months

LEMMA RowStep ==
    ASSUME ScheduleInv, NEW s \in Schedules, NEW row,
           schedule' = [schedule EXCEPT ![s] = row],
           RowKnown(s, row, Cardinality(RunsOf(s)')),
           row.state \notin {"enabled", "disabled"} => RunsOf(s)' = {},
           \A n \in RunsOf(s)' :
              /\ runs'[n].key[3] < row.next /\ runs'[n].key[3] <= runs'[n].day
              /\ runs'[n].key[3] = NthAfter(ScheduleFor[s].frequency, row.created,
                                            Cardinality(RunsUpTo(s, n)')),
           \A t \in Schedules \ {s} :
              /\ RunsOf(t)' = RunsOf(t)
              /\ \A n \in RunsOf(t) : /\ runs'[n].key = runs[n].key
                                      /\ runs'[n].day = runs[n].day
    PROVE  SchedulesKnow'
  <1>1. /\ schedule' \in [Schedules -> ScheduleRows] /\ schedule'[s] = row
        /\ \A t \in Schedules \ {s} : schedule'[t] = schedule[t]
    BY DEF ScheduleInv, SchedulesKnow, RowKnown
  <1>2. ASSUME NEW t \in Schedules, Created(t)'
        PROVE  /\ schedule'[t].created \in Days
               /\ schedule'[t].next = NthAfter(ScheduleFor[t].frequency, schedule'[t].created,
                                               Cardinality(RunsOf(t)') + 1)
               /\ ScheduleFor[t].frequency = "MONTHLY" =>
                     MonthOf(schedule'[t].created) + Cardinality(RunsOf(t)') + 1 \in Months
    <2>1. CASE t = s
      BY <2>1, <1>1, <1>2 DEF Created, RowKnown
    <2>2. CASE t # s
      <3>1. Created(t) /\ schedule'[t] = schedule[t] /\ RunsOf(t)' = RunsOf(t)
        BY <2>2, <1>1, <1>2 DEF Created
      <3>2. QED
        BY <3>1 DEF ScheduleInv, SchedulesKnow, NthOccurrence
    <2>3. QED
      BY <2>1, <2>2
  <1>3. ASSUME NEW t \in Schedules, ~Created(t)' PROVE RunsOf(t)' = {}
    <2>1. CASE t = s
      BY <2>1, <1>1, <1>3 DEF Created
    <2>2. CASE t # s
      BY <2>2, <1>1, <1>3 DEF ScheduleInv, SchedulesKnow, Created
    <2>3. QED
      BY <2>1, <2>2
  <1>4. ASSUME NEW t \in Schedules, NEW n \in RunsOf(t)'
        PROVE  /\ runs'[n].key[3] < schedule'[t].next /\ runs'[n].key[3] <= runs'[n].day
               /\ runs'[n].key[3] = NthAfter(ScheduleFor[t].frequency, schedule'[t].created,
                                             Cardinality(RunsUpTo(t, n)'))
    <2>1. CASE t = s
      BY <2>1, <1>1, <1>4
    <2>2. CASE t # s
      <3>1. /\ RunsOf(t)' = RunsOf(t) /\ runs'[n].key = runs[n].key
            /\ runs'[n].day = runs[n].day /\ schedule'[t] = schedule[t]
        BY <2>2, <1>1, <1>4
      <3>2. RunsUpTo(t, n)' = RunsUpTo(t, n)
        BY <3>1 DEF RunsUpTo
      <3>3. QED
        BY <3>1, <3>2, <1>4 DEF ScheduleInv, SchedulesKnow, NthOccurrence
    <2>3. QED
      BY <2>1, <2>2
  <1>5. QED
    BY <1>1, <1>2, <1>3, <1>4 DEF SchedulesKnow, NthOccurrence

-----------------------------------------------------------------------------
(* Passes that hold a schedule.                                            *)

LEMMA Held ==
    ASSUME ScheduleInv, NEW p \in Passes, pass[p].holds # NoSchedule
    PROVE  /\ pass[p].holds \in Schedules /\ Due(pass[p].holds, pass[p].now)
           /\ pass[p].now \in Days /\ pass[p].now \in Nat /\ pass[p].now <= today
           /\ pass[p].left \in 1 .. MaxSchedules
  <1>1. pass[p] \in PassRows /\ pass[p].now # 0 /\ pass[p].left # 0
        /\ Due(pass[p].holds, pass[p].now)
    BY DEF ScheduleInv, PassesKnow
  <1>2. pass[p].holds \in Schedules /\ pass[p].now \in Days
    BY <1>1 DEF PassRows
  <1>3. pass[p].left \in 1 .. MaxSchedules
    BY <1>1, PassAssumption DEF PassRows
  <1>4. QED
    BY <1>1, <1>2, <1>3, NowBefore

(* The schedule it held may have changed, the others have not.             *)
LEMMA GoOnKnown ==
    ASSUME ScheduleInv, NEW p \in Passes, pass[p].holds # NoSchedule, GoOn(p),
           UNCHANGED today,
           \A s \in Schedules : s # pass[p].holds => schedule'[s] = schedule[s]
    PROVE  PassesKnow'
  <1>1. PICK row : row = [now |-> pass[p].now, left |-> pass[p].left - 1,
                          excluded |-> pass[p].excluded \cup {pass[p].holds},
                          holds |-> NoSchedule]
    OBVIOUS
  <1>2. row.holds = NoSchedule /\ row.now = pass[p].now
    BY <1>1
  <1>3. pass[p].left - 1 \in 0 .. MaxSchedules
    BY Held, PassAssumption
  <1>4. pass[p].excluded \cup {pass[p].holds} \in SUBSET Schedules
    BY Held, NowBefore DEF PassRows
  <1>5. row \in PassRows
    BY <1>1, <1>3, <1>4, Held DEF PassRows
  <1>6. pass' = [pass EXCEPT ![p] = row]
    BY <1>1 DEF GoOn
  <1>7. \A s \in Schedules : (\E o \in Passes : o # p /\ pass[o].holds = s)
                                => schedule'[s] = schedule[s]
    BY DEF ScheduleInv, PassesKnow
  <1>8. row.now <= today
    BY <1>2, NowBefore
  <1>9. QED
    BY <1>2, <1>5, <1>6, <1>7, <1>8, PassLetsGo

LEMMA SkipStep ==
    ASSUME ScheduleInv, NEW p \in Passes, SkipSchedule(p) \/ ProcessingFails(p)
    PROVE  ScheduleInv'
  <1>1. /\ pass[p].holds # NoSchedule /\ GoOn(p) /\ UNCHANGED <<enqueueVars, schedule>>
    BY DEF SkipSchedule, ProcessingFails
  <1>2. failures' \in 0 .. FailBound
    BY PassAssumption DEF SkipSchedule, ProcessingFails, ScheduleInv, CountersTyped
  <1>3. UNCHANGED <<today, schedule>>
    BY <1>1 DEF enqueueVars
  <1>4. PassesKnow'
    BY <1>1, <1>3, GoOnKnown
  <1>5. QED
    BY <1>1, <1>2, <1>4, PassOnlyStep

LEMMA DisableStep ==
    ASSUME ScheduleInv, NEW p \in Passes, DisableSchedule(p)
    PROVE  ScheduleInv'
  <1>1. PICK s : s = pass[p].holds
    OBVIOUS
  <1>2. PICK row : row = [schedule[s] EXCEPT !.state = "disabled"]
    OBVIOUS
  <1>3. /\ s # NoSchedule /\ schedule' = [schedule EXCEPT ![s] = row] /\ GoOn(p)
        /\ UNCHANGED <<enqueueVars, failures>>
    BY <1>1, <1>2 DEF DisableSchedule
  <1>4. s \in Schedules /\ Created(s) /\ schedule[s] \in ScheduleRows
    BY <1>1, <1>3, Held DEF Due, Enabled, Created, ScheduleInv, SchedulesKnow
  <1>5. /\ row \in ScheduleRows /\ row.state = "disabled" /\ row.next = schedule[s].next
        /\ row.created = schedule[s].created
    BY <1>2, <1>4 DEF ScheduleRows, ScheduleStates
  <1>6. UNCHANGED <<today, subs, runs, request>>
    BY <1>3 DEF enqueueVars
  <1>7. RunsInv' /\ SameOccurrences
    BY <1>6, SameRunsStep
  <1>8. SchedulesKnow'
    <2>1. RunsOf(s)' = RunsOf(s)
      BY <1>4, <1>7 DEF SameOccurrences
    <2>2. RowKnown(s, row, Cardinality(RunsOf(s)'))
      BY <2>1, <1>4, <1>5 DEF RowKnown, ScheduleInv, SchedulesKnow, NthOccurrence
    <2>3. ASSUME NEW n \in RunsOf(s)'
          PROVE  /\ runs'[n].key[3] < row.next /\ runs'[n].key[3] <= runs'[n].day
                 /\ runs'[n].key[3] = NthAfter(ScheduleFor[s].frequency, row.created,
                                               Cardinality(RunsUpTo(s, n)'))
      <3>1. RunsUpTo(s, n)' = RunsUpTo(s, n)
        BY <2>1 DEF RunsUpTo
      <3>2. QED
        BY <2>1, <2>3, <3>1, <1>4, <1>5, <1>6 DEF ScheduleInv, SchedulesKnow, NthOccurrence
    <2>4. QED
      BY <2>2, <2>3, <1>3, <1>4, <1>5, <1>7, RowStep DEF SameOccurrences
  <1>9. PassesKnow'
    <2>1. \A t \in Schedules : t # pass[p].holds => schedule'[t] = schedule[t]
      BY <1>1, <1>3, <1>4 DEF ScheduleInv, SchedulesKnow
    <2>2. QED
      BY <2>1, <1>1, <1>3, <1>6, GoOnKnown
  <1>10. QED
    BY <1>3, <1>6, <1>7, <1>8, <1>9 DEF ScheduleInv, RequestsKnown, CountersTyped

-----------------------------------------------------------------------------
(* The route.  No pass holds a schedule that does not exist yet.           *)

LEMMA NewRowKnown ==
    ASSUME NEW s \in Schedules, NEW day \in Days
    PROVE  /\ NewRow(s, day) \in ScheduleRows /\ RowKnown(s, NewRow(s, day), 0)
           /\ NewRow(s, day).state = "enabled"
  <1>1. PICK frequency : frequency = ScheduleFor[s].frequency
    OBVIOUS
  <1>2. frequency \in Frequencies
    BY <1>1, ScheduleAssumption
  <1>3. PICK first : first = FirstScheduledRun(frequency, day)
    OBVIOUS
  <1>4. /\ first = NthAfter(frequency, day, 1) /\ first \in Nat
        /\ MonthOf(day) + 1 \in Months
    BY <1>2, <1>3, NthFirst
  <1>5. PICK row : row = NewRow(s, day)
    OBVIOUS
  <1>6. /\ row \in ScheduleRows /\ row.state = "enabled" /\ row.created = day /\ row.next = first
    BY <1>1, <1>3, <1>4, <1>5 DEF NewRow, ScheduleRows, ScheduleStates
  <1>7. MonthOf(day) + 0 + 1 = MonthOf(day) + 1 /\ 0 + 1 = 1
    BY DayKnown, MonthFacts
  <1>8. RowKnown(s, row, 0)
    BY <1>1, <1>4, <1>6, <1>7 DEF RowKnown
  <1>9. QED
    BY <1>5, <1>6, <1>8

LEMMA RouteStep ==
    ASSUME ScheduleInv, NEW s \in Schedules, CheckSchedule(s) \/ CreateSchedule(s)
    PROVE  ScheduleInv'
  <1>1. /\ schedule[s].state \in {"absent", "checked"} /\ UNCHANGED <<enqueueVars, pass, failures>>
    BY DEF CheckSchedule, CreateSchedule
  <1>2. UNCHANGED <<today, subs, runs, request, pass, failures>>
    BY <1>1 DEF enqueueVars
  <1>3. RunsInv' /\ SameOccurrences
    BY <1>2, SameRunsStep
  <1>4. RunsOf(s)' = {} /\ schedule[s] \in ScheduleRows
    BY <1>1, <1>3 DEF SameOccurrences, ScheduleInv, SchedulesKnow, Created
  <1>5. PICK row : /\ schedule' = [schedule EXCEPT ![s] = row]
                   /\ RowKnown(s, row, Cardinality(RunsOf(s)'))
    <2>1. CASE CheckSchedule(s)
      <3>1. PICK row : row = [schedule[s] EXCEPT !.state = "checked"]
        OBVIOUS
      <3>2. row \in ScheduleRows /\ row.state = "checked"
        BY <3>1, <1>4 DEF ScheduleRows, ScheduleStates
      <3>3. schedule' = [schedule EXCEPT ![s] = row]
        BY <2>1, <3>1 DEF CheckSchedule
      <3>4. RowKnown(s, row, Cardinality(RunsOf(s)'))
        BY <3>2 DEF RowKnown
      <3>5. QED
        BY <3>3, <3>4
    <2>2. CASE CreateSchedule(s)
      <3>1. PICK row : row = NewRow(s, today)
        OBVIOUS
      <3>2. schedule' = [schedule EXCEPT ![s] = row]
        BY <2>2, <3>1 DEF CreateSchedule
      <3>3. Cardinality(RunsOf(s)') = 0
        BY <1>4, FS_EmptySet
      <3>4. today \in Days
        BY NowBefore
      <3>5. RowKnown(s, row, 0)
        BY <3>1, <3>4, NewRowKnown
      <3>6. RowKnown(s, row, Cardinality(RunsOf(s)'))
        BY <3>3, <3>5
      <3>7. QED
        BY <3>2, <3>6
    <2>3. QED
      BY <2>1, <2>2
  <1>6. SchedulesKnow'
    BY <1>3, <1>4, <1>5, RowStep DEF SameOccurrences
  <1>7. PassesKnow'
    <2>1. \A t \in Schedules : t # s => schedule'[t] = schedule[t]
      BY <1>5 DEF ScheduleInv, SchedulesKnow
    <2>2. ASSUME NEW p \in Passes, pass[p].holds # NoSchedule
          PROVE  Due(pass[p].holds, pass[p].now)'
      <3>1. pass[p].holds \in Schedules /\ Due(pass[p].holds, pass[p].now)
        BY <2>2, Held
      <3>2. pass[p].holds # s
        BY <3>1, <1>1 DEF Due, Enabled
      <3>3. QED
        BY <3>1, <3>2, <2>1, <1>2 DEF Due, Enabled
    <2>3. QED
      BY <2>2, <1>2 DEF ScheduleInv, PassesKnow
  <1>8. QED
    BY <1>2, <1>3, <1>6, <1>7 DEF ScheduleInv, RequestsKnown, CountersTyped

-----------------------------------------------------------------------------
(* The step that submits an occurrence.                                    *)

(* The run that was added, and what it says of the schedule it is for.     *)
OccurrenceAdded(s, top) ==
    /\ RunsOf(s)' = RunsOf(s) \cup {top} /\ top \notin RunsOf(s)
    /\ Cardinality(RunsOf(s)') = Cardinality(RunsOf(s)) + 1
    /\ runs'[top].key = <<"SCHEDULED_AUDIT", s, schedule[s].next>>
    /\ runs'[top].day = today
    /\ \A t \in Schedules \ {s} : RunsOf(t)' = RunsOf(t)
    /\ \A t \in Schedules : \A n \in RunsOf(t) :
          runs'[n].key = runs[n].key /\ runs'[n].day = runs[n].day

LEMMA OccurrenceStep ==
    ASSUME ScheduleInv, NEW p \in Passes, EnqueueOccurrence(p)
    PROVE  ScheduleInv' /\ \E top : OccurrenceAdded(pass[p].holds, top)
  <1>1. PICK s : s = pass[p].holds
    OBVIOUS
  <1>2. PICK now : now = pass[p].now
    OBVIOUS
  <1>3. PICK limit : limit = MonthlyAuditLimit(now)
    OBVIOUS
  <1>4. /\ s # NoSchedule /\ ~ActiveRun(s) /\ ~Refused(Occurrence(s), limit, now)
        /\ Enqueue(Occurrence(s), limit, now) /\ GoOn(p)
        /\ schedule' = [schedule EXCEPT ![s].next = Advanced(s)]
        /\ UNCHANGED <<today, subs, request, failures>>
    BY <1>1, <1>2, <1>3 DEF EnqueueOccurrence
  <1>5. /\ s \in Schedules /\ Enabled(s) /\ schedule[s].next <= now
        /\ now \in Days /\ now \in Nat /\ now <= today /\ today \in Nat /\ today \in Days
    BY <1>1, <1>2, <1>4, Held, NowBefore DEF Due
  <1>6. PICK due : due = schedule[s].next
    OBVIOUS
  <1>7. PICK count : count = Cardinality(RunsOf(s))
    OBVIOUS
  <1>8. PICK frequency : frequency = ScheduleFor[s].frequency
    OBVIOUS
  <1>9. PICK created : created = schedule[s].created
    OBVIOUS
  <1>10. RunsInv /\ RunsTyped /\ count \in Nat /\ IsFiniteSet(RunsOf(s))
    BY <1>7, RunsOfFinite DEF ScheduleInv, RunsInv
  <1>11. /\ created \in Days /\ frequency \in Frequencies /\ Created(s)
         /\ due = NthAfter(frequency, created, count + 1)
         /\ frequency = "MONTHLY" => MonthOf(created) + count + 1 \in Months
         /\ schedule[s] \in ScheduleRows /\ due <= now
    BY <1>5, <1>6, <1>7, <1>8, <1>9, ScheduleAssumption
    DEF ScheduleInv, SchedulesKnow, NthOccurrence, Enabled, Created
  <1>12. MonthOf(created) + (count + 1) = MonthOf(created) + count + 1
         /\ count + 1 \in Nat \ {0} /\ (count + 1) + 1 = count + 2
         /\ MonthOf(created) + (count + 1) + 1 = MonthOf(created) + (count + 2)
    <2>1. MonthOf(created) \in Nat
      BY <1>11, DayKnown, MonthFacts
    <2>2. QED
      BY <2>1, <1>10
  <1>13. /\ Advanced(s) = NthAfter(frequency, created, count + 2)
         /\ due \in Nat /\ Advanced(s) \in Nat /\ due < Advanced(s)
         /\ frequency = "MONTHLY" => MonthOf(created) + (count + 2) \in Months
    <2>1. Advanced(s) = NextScheduledRun(frequency, due, created)
      BY <1>6, <1>8, <1>9 DEF Advanced
    <2>2. PICK k \in Nat \ {0} : k = count + 1
      BY <1>12
    <2>3. due = NthAfter(frequency, created, k) /\ (frequency = "MONTHLY" => MonthOf(created) + k \in Months)
          /\ k + 1 = count + 2
      BY <1>11, <1>12, <2>2
    <2>4. NextScheduledRun(frequency, due, created) = NthAfter(frequency, created, k + 1)
          /\ due \in Nat /\ NthAfter(frequency, created, k + 1) \in Nat
          /\ due < NthAfter(frequency, created, k + 1)
          /\ (frequency = "MONTHLY" => MonthOf(created) + k + 1 \in Months)
      BY <1>5, <1>11, <2>3, NthNext
    <2>5. QED
      BY <1>12, <2>1, <2>2, <2>3, <2>4
  <1>14. PICK sub : sub = Occurrence(s)
    OBVIOUS
  <1>15. /\ sub.key = <<"SCHEDULED_AUDIT", s, due>> /\ sub.project = ScheduleFor[s].project
    BY <1>6, <1>14 DEF Occurrence, IdempotencyKey
  <1>16. sub.key \in Keys /\ sub.project \in Projects
    BY <1>5, <1>13, <1>15, ScheduleAssumption DEF Keys, Projects
  <1>17. ~Remembered(sub.key)
    <2> SUFFICES ASSUME NEW n \in DOMAIN runs, runs[n].key = sub.key PROVE FALSE
      BY DEF Remembered
    <2>1. n \in RunsOf(s) /\ runs[n].key[3] = due
      BY <1>15 DEF RunsOf
    <2>2. runs[n].key[3] < due
      BY <2>1, <1>5, <1>6 DEF ScheduleInv, SchedulesKnow
    <2>3. QED
      BY <2>1, <2>2, <1>13
  <1>18. RunsGrow(sub, limit, now)
    <2>1. ~LimitReached(sub, limit, now)
      BY <1>4, <1>14, <1>17 DEF Refused
    <2>2. runs' = Append(runs, NewRun(sub, limit))
      BY <1>4, <1>14, <1>17, <2>1 DEF Enqueue
    <2>3. \A n \in DOMAIN runs : runs[n].project = sub.project => runs[n].status # "active"
      BY <1>4, <1>15 DEF ActiveRun, ActiveRuns
    <2>4. limit \in Int
      BY <1>3, LimitType
    <2>5. QED
      BY <2>1, <2>2, <2>3, <2>4, <1>4, <1>5, <1>16, <1>17 DEF RunsGrow
  <1>19. RunsInv'
    BY <1>10, <1>18, GrowStep
  <1>20. PICK new : new = NewRun(sub, limit)
    OBVIOUS
  <1>21. PICK top : top = Len(runs) + 1
    OBVIOUS
  <1>22. new.key = sub.key /\ new.day = today
    BY <1>20 DEF NewRun
  <1>23. /\ DOMAIN runs = 1 .. Len(runs) /\ DOMAIN runs' = 1 .. top /\ runs'[top] = new
         /\ \A n \in DOMAIN runs : n # top /\ runs'[n] = runs[n] /\ n \in DOMAIN runs'
         /\ top \in DOMAIN runs' /\ top \notin DOMAIN runs
         /\ \A n \in DOMAIN runs' : n = top \/ n \in DOMAIN runs
    BY <1>10, <1>18, <1>20, <1>21 DEF RunsGrow, RunsTyped
  <1>24. RunsOf(s)' = RunsOf(s) \cup {top}
    BY <1>15, <1>22, <1>23 DEF RunsOf
  <1>25. Cardinality(RunsOf(s)') = count + 1
    <2>1. top \notin RunsOf(s)
      BY <1>23 DEF RunsOf
    <2>2. Cardinality(RunsOf(s) \cup {top}) = Cardinality(RunsOf(s)) + 1
      <3> HIDE DEF RunsOf
      <3>1. QED
        BY <1>10, <2>1, FS_AddElement
    <2>3. QED
      BY <1>7, <1>24, <2>2
  <1>26. \A t \in Schedules \ {s} :
            /\ RunsOf(t)' = RunsOf(t)
            /\ \A n \in RunsOf(t) : runs'[n].key = runs[n].key /\ runs'[n].day = runs[n].day
    <2> SUFFICES ASSUME NEW t \in Schedules, t # s
                 PROVE  /\ RunsOf(t)' = RunsOf(t)
                        /\ \A n \in RunsOf(t) : runs'[n].key = runs[n].key /\ runs'[n].day = runs[n].day
      OBVIOUS
    <2>1. new.key[2] # t
      BY <1>15, <1>22
    <2>2. RunsOf(t)' = RunsOf(t)
      BY <2>1, <1>23 DEF RunsOf
    <2>3. QED
      BY <2>2, <1>23 DEF RunsOf
  <1>27. PICK row : row = [schedule[s] EXCEPT !.next = Advanced(s)]
    OBVIOUS
  <1>28. /\ row \in ScheduleRows /\ row.state = "enabled" /\ row.created = created
         /\ row.next = Advanced(s) /\ schedule' = [schedule EXCEPT ![s] = row]
    BY <1>4, <1>5, <1>9, <1>11, <1>13, <1>27 DEF ScheduleRows, Enabled
  <1>29. ASSUME NEW n \in RunsOf(s)'
         PROVE  /\ runs'[n].key[3] < row.next /\ runs'[n].key[3] <= runs'[n].day
                /\ runs'[n].key[3] = NthAfter(ScheduleFor[s].frequency, row.created,
                                              Cardinality(RunsUpTo(s, n)'))
    <2>1. CASE n = top
      <3>1. RunsUpTo(s, top)' = RunsOf(s)'
        BY <1>10, <1>21, <1>23, <1>24 DEF RunsUpTo, RunsOf, RunsTyped
      <3>2. Cardinality(RunsUpTo(s, top)') = count + 1
        BY <3>1, <1>25
      <3>3. QED
        BY <2>1, <3>2, <1>5, <1>8, <1>11, <1>13, <1>15, <1>22, <1>23, <1>28
    <2>2. CASE n \in RunsOf(s)
      <3>1. n \in DOMAIN runs /\ runs'[n] = runs[n]
        BY <2>2, <1>23 DEF RunsOf
      <3>2. /\ runs[n].key[3] < due /\ runs[n].key[3] <= runs[n].day
            /\ runs[n].key[3] = NthOccurrence(s, Cardinality(RunsUpTo(s, n)))
        BY <2>2, <1>5, <1>6 DEF ScheduleInv, SchedulesKnow
      <3>3. runs[n].key \in Keys /\ runs[n].key[1] = "SCHEDULED_AUDIT"
        BY <2>2, <3>1, <1>10, RunTypes DEF RunRows, RunsOf
      <3>4. runs[n].key[3] \in Nat
        BY <3>3, KeyAssumption DEF Keys
      <3>5. RunsUpTo(s, n)' = RunsUpTo(s, n)
        <4>1. n < top
          BY <3>1, <1>10, <1>21, <1>23 DEF RunsTyped
        <4>2. top \in Nat /\ n \in Nat
          BY <3>1, <1>10, <1>21, <1>23 DEF RunsTyped
        <4>3. QED
          BY <4>1, <4>2, <1>24 DEF RunsUpTo
      <3>6. QED
        BY <3>1, <3>2, <3>4, <3>5, <1>9, <1>13, <1>28 DEF NthOccurrence
    <2>3. QED
      BY <2>1, <2>2, <1>24, <1>29
  <1>30. SchedulesKnow'
    <2>1. RowKnown(s, row, count + 1)
      BY <1>8, <1>11, <1>12, <1>13, <1>28 DEF RowKnown
    <2>2. RowKnown(s, row, Cardinality(RunsOf(s)'))
      BY <2>1, <1>25
    <2>3. row.state \in {"enabled", "disabled"}
      BY <1>28
    <2>4. QED
      BY <2>2, <2>3, <1>5, <1>26, <1>28, <1>29, RowStep
  <1>31. PassesKnow'
    <2>1. \A t \in Schedules : t # pass[p].holds => schedule'[t] = schedule[t]
      BY <1>1, <1>5, <1>28 DEF ScheduleInv, SchedulesKnow
    <2>2. QED
      BY <2>1, <1>1, <1>4, GoOnKnown
  <1>32. OccurrenceAdded(s, top)
    <2>1. \A n \in RunsOf(s) : runs'[n].key = runs[n].key /\ runs'[n].day = runs[n].day
      BY <1>23 DEF RunsOf
    <2>2. top \notin RunsOf(s)
      BY <1>23 DEF RunsOf
    <2>3. QED
      BY <2>1, <2>2, <1>6, <1>7, <1>15, <1>22, <1>23, <1>24, <1>25, <1>26 DEF OccurrenceAdded
  <1>33. ScheduleInv'
    BY <1>4, <1>19, <1>30, <1>31 DEF ScheduleInv, RequestsKnown, CountersTyped
  <1>34. QED
    BY <1>1, <1>32, <1>33

-----------------------------------------------------------------------------
(* The invariant.                                                          *)

LEMMA InitInv == Init => ScheduleInv
  <1> SUFFICES ASSUME Init PROVE ScheduleInv
    OBVIOUS
  <1>1. /\ runs = <<>> /\ today = FirstDay /\ subs = FirstSubs
        /\ request = [q \in Clients |-> Idle] /\ pass = [p \in Passes |-> AtRest]
        /\ failures = 0
    BY DEF Init, EnqueueInit
  <1>2. DOMAIN runs = {} /\ runs \in Seq(RunRows)
    BY <1>1
  <1>3. RunsInv
    BY <1>1, <1>2, DaysAssumption
    DEF RunsInv, RunsTyped, RunsDated, KeysRemembered, WithinQuota, NoOverlapUnlessRetried
  <1>4. RequestsKnown
    <2>1. Idle \in [at : {"idle", "submit"}, sub : Submissions \cup {NoSubmission}, limit : Int]
          /\ Idle.at # "submit"
      BY DEF Idle, NoLimit
    <2>2. QED
      BY <2>1, <1>1 DEF RequestsKnown
  <1>5. PassesKnow
    <2>1. AtRest \in PassRows /\ AtRest.holds = NoSchedule /\ AtRest.now <= today
      BY <1>1, AtRestKnown, DaysAssumption, DayKnown
    <2>2. QED
      BY <2>1, <1>1 DEF PassesKnow
  <1>6. SchedulesKnow
    <2>1. \A s \in Schedules : RunsOf(s) = {}
      BY <1>2 DEF RunsOf
    <2>2. \A s \in Schedules : Cardinality(RunsOf(s)) = 0
      BY <2>1, FS_EmptySet
    <2>3. ASSUME NEW s \in Schedules
          PROVE  schedule[s] \in ScheduleRows /\ RowKnown(s, schedule[s], 0)
      <3>1. schedule[s] = IF s \in FirstOnes THEN NewRow(s, FirstDay) ELSE NoRow
        BY DEF Init
      <3>2. NoRow \in ScheduleRows /\ RowKnown(s, NoRow, 0)
        BY DEF NoRow, RowKnown, ScheduleRows, ScheduleStates
      <3>3. QED
        BY <3>1, <3>2, DaysAssumption, NewRowKnown
    <2>4. schedule \in [Schedules -> ScheduleRows]
      BY <2>3 DEF Init
    <2>5. ASSUME NEW s \in Schedules, Created(s)
          PROVE  /\ schedule[s].created \in Days
                 /\ schedule[s].next = NthOccurrence(s, Cardinality(RunsOf(s)) + 1)
                 /\ ScheduleFor[s].frequency = "MONTHLY" =>
                       MonthOf(schedule[s].created) + Cardinality(RunsOf(s)) + 1 \in Months
      BY <2>2, <2>3, <2>5 DEF RowKnown, Created, NthOccurrence
    <2>6. QED
      BY <2>1, <2>4, <2>5 DEF SchedulesKnow
  <1>7. CountersTyped
    BY <1>1, PlanAssumption, PassAssumption DEF CountersTyped
  <1>8. QED
    BY <1>3, <1>4, <1>5, <1>6, <1>7 DEF ScheduleInv

LEMMA StutterStep == ASSUME ScheduleInv, UNCHANGED vars PROVE ScheduleInv'
  <1>1. UNCHANGED <<enqueueVars, schedule, pass, failures>>
    BY DEF vars
  <1>2. UNCHANGED <<today, subs, runs, request, schedule, pass, failures>>
    BY <1>1 DEF enqueueVars
  <1>3. PassesKnow'
    BY <1>2 DEF ScheduleInv, PassesKnow, Due, Enabled
  <1>4. failures' \in 0 .. FailBound
    BY <1>2 DEF ScheduleInv, CountersTyped
  <1>5. QED
    BY <1>1, <1>3, <1>4, PassOnlyStep

LEMMA NextInv == ScheduleInv /\ [Next]_vars => ScheduleInv'
  <1> SUFFICES ASSUME ScheduleInv, [Next]_vars PROVE ScheduleInv'
    OBVIOUS
  <1>1. CASE EnqueueStep /\ UNCHANGED <<schedule, pass, failures>>
    <2>1. CASE Subscribe
      BY <1>1, <2>1, SubscribeStep
    <2>2. CASE ExpireSubscriptions
      BY <1>1, <2>2, ExpireStep
    <2>3. ASSUME NEW q \in Clients,
                 \/ \E sub \in Submissions : AskForAudit(q, sub)
                 \/ EnqueueAuditAtomically(q)
                 \/ RequestFails(q)
          PROVE  ScheduleInv'
      BY <1>1, <2>3, AskStep, SubmitStep, RequestFailsStep
    <2>4. ASSUME NEW n \in DOMAIN runs, AttemptEnds(n) \/ NextAttempt(n) \/ JobEnds(n)
          PROVE  ScheduleInv'
      BY <1>1, <2>4, JobStep
    <2>5. CASE CleanupStaleJobs
      BY <1>1, <2>5, CleanupStep
    <2>6. CASE DayPasses
      BY <1>1, <2>6, DayStep
    <2>7. QED
      BY <1>1, <2>1, <2>2, <2>3, <2>4, <2>5, <2>6 DEF EnqueueStep
  <1>2. ASSUME NEW s \in Schedules, CheckSchedule(s) \/ CreateSchedule(s)
        PROVE  ScheduleInv'
    BY <1>2, RouteStep
  <1>3. ASSUME NEW p \in Passes,
               StartPass(p) \/ PassStep(p) \/ ProcessingFails(p) \/ PassDies(p)
        PROVE  ScheduleInv'
    BY <1>3, StartStep, ClaimStep, RestStep, DisableStep, SkipStep, OccurrenceStep
    DEF PassStep
  <1>4. CASE UNCHANGED vars
    BY <1>4, StutterStep
  <1>5. QED
    BY <1>1, <1>2, <1>3, <1>4 DEF Next

LEMMA InvAlways == Spec => []ScheduleInv
  BY InitInv, NextInv, PTL DEF Spec

-----------------------------------------------------------------------------
(* What follows from it.                                                   *)

(* The tables, the passes and the requests have their types, and a job has *)
(* a day of its end exactly when it is over.                               *)
THEOREM ScheduleTypesKept == Spec => []TypeOK
  <1>1. ScheduleInv => TypeOK
    <2> SUFFICES ASSUME ScheduleInv PROVE TypeOK
      OBVIOUS
    <2>1. RunsTyped /\ RunsDated
      BY DEF ScheduleInv, RunsInv
    <2>2. ASSUME NEW n \in DOMAIN runs
          PROVE  /\ runs[n].status \in RunStatuses /\ runs[n].job \in JobStates
                 /\ runs[n].day \in Days /\ runs[n].finishedOn \in Days \cup {0}
                 /\ runs[n].job = "active" <=> runs[n].finishedOn = 0
      <3>1. runs[n] \in RunRows
        BY <2>1, RunTypes
      <3>2. QED
        BY <3>1, <2>1 DEF RunRows, RunsDated
    <2>3. \A q \in Clients : request[q].at \in {"idle", "submit"}
      BY DEF ScheduleInv, RequestsKnown
    <2>4. /\ schedule \in [Schedules -> ScheduleRows] /\ pass \in [Passes -> PassRows]
          /\ today \in Days /\ subs \in Seq(SubRows) /\ failures \in 0 .. FailBound
      BY <2>1 DEF ScheduleInv, SchedulesKnow, PassesKnow, CountersTyped, RunsTyped
    <2>5. QED
      BY <2>2, <2>3, <2>4 DEF TypeOK, ScheduleRows, PassRows
  <1>2. QED
    BY <1>1, InvAlways, PTL

(* A key stands for one run: whoever submits it again, a client or a pass, *)
(* finds the first run until the clean-up has forgotten it.                *)
THEOREM KeysStandForRuns == Spec => []KeysRemembered
  <1>1. ScheduleInv => KeysRemembered
    BY DEF ScheduleInv, RunsInv
  <1>2. QED
    BY <1>1, InvAlways, PTL

(* No run is beyond the limit its submission was held to, although a pass  *)
(* counts from a "now" that may lie in an earlier month.                   *)
THEOREM QuotaHeld == Spec => []WithinQuota
  <1>1. ScheduleInv => WithinQuota
    BY DEF ScheduleInv, RunsInv
  <1>2. QED
    BY <1>1, InvAlways, PTL

(* Each occurrence of a schedule is audited once, in order and not before  *)
(* its day.                                                                *)
THEOREM OccurrencesServedOnce == Spec => []OccurrencesOnce
  <1>1. ScheduleInv => OccurrencesOnce
    BY DEF ScheduleInv, SchedulesKnow, OccurrencesOnce
  <1>2. QED
    BY <1>1, InvAlways, PTL

(* A schedule does not submit an audit next to an earlier one that is      *)
(* still under way.                                                        *)
THEOREM AuditsDoNotOverlap == Spec => []NoOverlapUnlessRetried
  <1>1. ScheduleInv => NoOverlapUnlessRetried
    BY DEF ScheduleInv, RunsInv
  <1>2. QED
    BY <1>1, InvAlways, PTL

-----------------------------------------------------------------------------
(* The refinement.  What RecurringAudits sees of the tables.               *)

ModeShown   == [s \in Schedules |-> ModeOf(schedule[s].state)]
SinceShown  == [s \in Schedules |-> schedule[s].created]
ServedShown == [s \in Schedules |-> Cardinality(RunsOf(s))]
AuditsShown == {<<runs[n].key[2], runs[n].key[3], runs[n].day>> :
                   n \in UNION {RunsOf(s) : s \in Schedules}}

PlansShown  == [day \in Days |-> Entitled(day)]

Showing == <<today, PlansShown, ModeShown, SinceShown, ServedShown, AuditsShown>>

LEMMA ShowSame == UNCHANGED Showing => UNCHANGED Recurring!recurringVars
  BY DEF Recurring!recurringVars, Showing, PlansShown, ModeShown, SinceShown, ServedShown,
         AuditsShown

LEMMA SamePlans == UNCHANGED subs => UNCHANGED PlansShown
  BY DEF PlansShown, Entitled, SubscriptionPlan, Newest, InForce

(* RecurringAudits reads the same calendar.                                *)
LEMMA SameCalendar ==
    ASSUME NEW frequency, NEW created, NEW n
    PROVE  Recurring!NthAfter(frequency, created, n) = NthAfter(frequency, created, n)
  <1>1. \A m : Recurring!DaysIn(m) = DaysIn(m)
    BY DEF Recurring!DaysIn, DaysIn
  <1>2. Recurring!MonthOf(created) = MonthOf(created)
    BY DEF Recurring!MonthOf, MonthOf, Recurring!Months, Months, Recurring!DaysOf, DaysOf
  <1>3. Recurring!DayOfMonth(created) = DayOfMonth(created)
    BY <1>2 DEF Recurring!DayOfMonth, DayOfMonth
  <1>4. QED
    BY <1>1, <1>2, <1>3 DEF Recurring!NthAfter, NthAfter

LEMMA ShowAwaited ==
    ASSUME ScheduleInv, NEW s \in Schedules, Created(s)
    PROVE  Recurring!Awaited(s) = schedule[s].next
  <1>1. Recurring!Awaited(s) = NthOccurrence(s, Cardinality(RunsOf(s)) + 1)
    BY SameCalendar DEF Recurring!Awaited, Recurring!DayServed, NthOccurrence
  <1>2. QED
    BY <1>1 DEF ScheduleInv, SchedulesKnow

LEMMA ShowElsewhere ==
    ASSUME Aside, UNCHANGED schedule
    PROVE  Recurring!Elsewhere
  <1>1. UNCHANGED <<ModeShown, SinceShown>>
    BY DEF ModeShown, SinceShown
  <1>2. UNCHANGED ServedShown
    BY DEF Aside, SameOccurrences, ServedShown
  <1>3. UNCHANGED AuditsShown
    BY DEF Aside, SameOccurrences, AuditsShown
  <1>4. QED
    BY <1>1, <1>2, <1>3
    DEF Recurring!Elsewhere, Aside, ModeShown, SinceShown, ServedShown, AuditsShown

(* A schedule changes its state.                                           *)
LEMMA ShowMode ==
    ASSUME ScheduleInv, NEW s \in Schedules, NEW row,
           schedule' = [schedule EXCEPT ![s] = row],
           UNCHANGED <<today, subs, runs>>
    PROVE  /\ ModeShown' = [ModeShown EXCEPT ![s] = ModeOf(row.state)]
           /\ SinceShown' = [SinceShown EXCEPT ![s] = row.created]
           /\ UNCHANGED <<today, PlansShown, ServedShown, AuditsShown>>
  <1>1. schedule'[s] = row /\ \A t \in Schedules \ {s} : schedule'[t] = schedule[t]
    BY DEF ScheduleInv, SchedulesKnow
  <1>2. /\ ModeShown' = [ModeShown EXCEPT ![s] = ModeOf(row.state)]
        /\ SinceShown' = [SinceShown EXCEPT ![s] = row.created]
    <2>1. \A t \in Schedules : ModeOf(schedule'[t].state) = IF t = s THEN ModeOf(row.state)
                                                           ELSE ModeOf(schedule[t].state)
      BY <1>1
    <2>2. \A t \in Schedules : schedule'[t].created = IF t = s THEN row.created
                                                     ELSE schedule[t].created
      BY <1>1
    <2>3. QED
      BY <2>1, <2>2 DEF ModeShown, SinceShown
  <1>3. UNCHANGED ServedShown
    BY DEF ServedShown, RunsOf
  <1>4. UNCHANGED AuditsShown
    BY DEF AuditsShown, RunsOf
  <1>5. QED
    BY <1>2, <1>3, <1>4, SamePlans

LEMMA ShowCheck ==
    ASSUME ScheduleInv, NEW s \in Schedules, CheckSchedule(s)
    PROVE  UNCHANGED Showing
  <1>1. PICK row : row = [schedule[s] EXCEPT !.state = "checked"]
    OBVIOUS
  <1>2. /\ schedule[s].state = "absent" /\ schedule' = [schedule EXCEPT ![s] = row]
        /\ UNCHANGED <<today, subs, runs>> /\ schedule[s] \in ScheduleRows
    BY <1>1 DEF CheckSchedule, enqueueVars, ScheduleInv, SchedulesKnow
  <1>3. row.state = "checked" /\ row.created = schedule[s].created
    BY <1>1, <1>2 DEF ScheduleRows
  <1>4. ModeOf(row.state) = ModeShown[s] /\ row.created = SinceShown[s]
    BY <1>2, <1>3 DEF ModeOf, ModeShown, SinceShown
  <1>5. UNCHANGED <<ModeShown, SinceShown>>
    BY <1>2, <1>4, ShowMode DEF ModeShown, SinceShown
  <1>6. QED
    BY <1>2, <1>5, ShowMode DEF Showing

LEMMA ShowSwitchOn ==
    ASSUME ScheduleInv, NEW s \in Schedules, CreateSchedule(s)
    PROVE  Recurring!SwitchOn(s)
  <1>1. PICK row : row = NewRow(s, today)
    OBVIOUS
  <1>2. /\ schedule[s].state = "checked" /\ schedule' = [schedule EXCEPT ![s] = row]
        /\ UNCHANGED <<today, subs, runs>>
        /\ row.state = "enabled" /\ row.created = today
    BY <1>1 DEF CreateSchedule, enqueueVars, NewRow
  <1>3. /\ ModeShown[s] = "none" /\ ModeShown' = [ModeShown EXCEPT ![s] = "on"]
        /\ SinceShown' = [SinceShown EXCEPT ![s] = today]
        /\ UNCHANGED <<today, PlansShown, ServedShown, AuditsShown>>
    BY <1>2, ShowMode DEF ModeOf, ModeShown
  <1>4. QED
    BY <1>3 DEF Recurring!SwitchOn, PlansShown, ModeShown, SinceShown, ServedShown, AuditsShown

(* The clock of the pass is a day on which the schedule was due.           *)
LEMMA ShowSwitchOff ==
    ASSUME ScheduleInv, NEW p \in Passes, DisableSchedule(p)
    PROVE  \E s \in Schedules : Recurring!SwitchOff(s)
  <1>1. PICK s : s = pass[p].holds
    OBVIOUS
  <1>2. PICK row : row = [schedule[s] EXCEPT !.state = "disabled"]
    OBVIOUS
  <1>3. /\ s # NoSchedule /\ ~Entitled(pass[p].now)
        /\ schedule' = [schedule EXCEPT ![s] = row] /\ UNCHANGED <<today, subs, runs>>
    BY <1>1, <1>2 DEF DisableSchedule, enqueueVars
  <1>4. /\ s \in Schedules /\ schedule[s].state = "enabled" /\ schedule[s].next <= pass[p].now
        /\ pass[p].now \in Nat /\ pass[p].now <= today
    BY <1>1, <1>3, Held DEF Due, Enabled
  <1>5. /\ schedule[s] \in ScheduleRows /\ schedule[s].next \in Nat /\ today \in Nat
        /\ subs \in Seq(SubRows)
    BY <1>4, NowBefore DEF ScheduleInv, SchedulesKnow, ScheduleRows, CountersTyped
  <1>6. row.state = "disabled" /\ row.created = schedule[s].created
    BY <1>2, <1>5 DEF ScheduleRows
  <1>7. pass[p].now \in Days /\ ~PlansShown[pass[p].now]
    BY <1>1, <1>3, Held DEF PlansShown
  <1>8. /\ Recurring!Awaited(s) <= today
        /\ Recurring!Awaited(s) <= pass[p].now
    <2>1. Recurring!Awaited(s) = schedule[s].next
      BY <1>4, ShowAwaited DEF Created
    <2>2. QED
      BY <2>1, <1>4, <1>5
  <1>9. /\ ModeShown[s] = "on" /\ ModeShown' = [ModeShown EXCEPT ![s] = "off"]
    BY <1>3, <1>4, <1>6, ShowMode DEF ModeOf, ModeShown
  <1>10. SinceShown' = SinceShown /\ UNCHANGED <<today, PlansShown, ServedShown, AuditsShown>>
    <2>1. row.created = SinceShown[s]
      BY <1>4, <1>6 DEF SinceShown
    <2>2. SinceShown' = [SinceShown EXCEPT ![s] = SinceShown[s]]
          /\ UNCHANGED <<today, PlansShown, ServedShown, AuditsShown>>
      BY <2>1, <1>3, <1>4, ShowMode
    <2>3. [SinceShown EXCEPT ![s] = SinceShown[s]] = SinceShown
      BY DEF SinceShown
    <2>4. QED
      BY <2>2, <2>3
  <1>11. QED
    BY <1>4, <1>7, <1>8, <1>9, <1>10
    DEF Recurring!SwitchOff, PlansShown, ModeShown, SinceShown, ServedShown, AuditsShown

LEMMA ShowAudit ==
    ASSUME ScheduleInv, NEW p \in Passes, EnqueueOccurrence(p)
    PROVE  \E s \in Schedules : Recurring!Audit(s)
  <1>1. PICK s : s = pass[p].holds
    OBVIOUS
  <1>2. PICK top : OccurrenceAdded(s, top)
    BY <1>1, OccurrenceStep
  <1>3. PICK row : row = [schedule[s] EXCEPT !.next = Advanced(s)]
    OBVIOUS
  <1>4. /\ s # NoSchedule /\ schedule' = [schedule EXCEPT ![s] = row]
        /\ UNCHANGED <<today, subs>>
    BY <1>1, <1>3 DEF EnqueueOccurrence
  <1>5. /\ s \in Schedules /\ schedule[s].state = "enabled" /\ schedule[s].next <= pass[p].now
        /\ pass[p].now \in Nat /\ pass[p].now <= today
    BY <1>1, <1>4, Held DEF Due, Enabled
  <1>6. /\ schedule[s] \in ScheduleRows /\ schedule[s].next \in Nat /\ today \in Nat
    BY <1>5, NowBefore DEF ScheduleInv, SchedulesKnow, ScheduleRows
  <1>7. /\ Recurring!Awaited(s) = schedule[s].next /\ Recurring!Awaited(s) <= today
    <2>1. Recurring!Awaited(s) = schedule[s].next
      BY <1>5, ShowAwaited DEF Created
    <2>2. QED
      BY <2>1, <1>5, <1>6
  <1>8. UNCHANGED <<ModeShown, SinceShown>>
    <2>1. row.state = schedule[s].state /\ row.created = schedule[s].created
      BY <1>3, <1>6 DEF ScheduleRows
    <2>2. \A t \in Schedules : /\ schedule'[t].state = schedule[t].state
                               /\ schedule'[t].created = schedule[t].created
      BY <2>1, <1>4 DEF ScheduleInv, SchedulesKnow
    <2>3. QED
      BY <2>2 DEF ModeShown, SinceShown
  <1>9. ServedShown' = [ServedShown EXCEPT ![s] = @ + 1]
    BY <1>2, <1>5 DEF OccurrenceAdded, ServedShown
  <1>10. AuditsShown' = AuditsShown \cup {<<s, schedule[s].next, today>>}
    <2> DEFINE Shown(n) == <<runs[n].key[2], runs[n].key[3], runs[n].day>>
               All == UNION {RunsOf(t) : t \in Schedules}
    <2>1. All' = All \cup {top}
      <3>1. \A t \in Schedules : RunsOf(t)' = IF t = s THEN RunsOf(s) \cup {top} ELSE RunsOf(t)
        BY <1>2 DEF OccurrenceAdded
      <3>2. QED
        BY <3>1, <1>5
    <2>2. \A n \in All : Shown(n)' = Shown(n)
      BY <1>2 DEF OccurrenceAdded
    <2>3. Shown(top)' = <<s, schedule[s].next, today>>
      BY <1>2 DEF OccurrenceAdded
    <2> HIDE DEF Shown, All
    <2>4. {Shown(n)' : n \in All'} = {Shown(n) : n \in All} \cup {<<s, schedule[s].next, today>>}
      BY <2>1, <2>2, <2>3
    <2>5. QED
      BY <2>4 DEF AuditsShown, Shown, All
  <1>11. UNCHANGED PlansShown
    BY <1>4, SamePlans
  <1>12. ModeShown[s] = "on"
    BY <1>5 DEF ModeShown, ModeOf
  <1>13. QED
    BY <1>4, <1>5, <1>7, <1>8, <1>9, <1>10, <1>11, <1>12
    DEF Recurring!Audit, PlansShown, ModeShown, SinceShown, ServedShown, AuditsShown

(* Passes between two transactions.                                        *)
LEMMA ShowPass ==
    ASSUME UNCHANGED <<enqueueVars, schedule>>
    PROVE  UNCHANGED Showing
  <1>1. UNCHANGED <<today, subs, runs, schedule>>
    BY DEF enqueueVars
  <1>2. QED
    BY <1>1, SamePlans DEF Showing, ModeShown, SinceShown, ServedShown, AuditsShown, RunsOf

LEMMA InitRecurring == Init => Recurring!RecurringInit
  <1> SUFFICES ASSUME Init PROVE Recurring!RecurringInit
    OBVIOUS
  <1>1. \A s \in Schedules : schedule[s] = IF s \in FirstOnes THEN NewRow(s, FirstDay) ELSE NoRow
    BY DEF Init
  <1>2. runs = <<>> /\ today = FirstDay
    BY DEF Init, EnqueueInit
  <1>3. ASSUME NEW s \in Schedules
        PROVE  /\ schedule[s].state = IF s \in FirstOnes THEN "enabled" ELSE "absent"
               /\ schedule[s].created = IF s \in FirstOnes THEN today ELSE 0
    <2>1. /\ NewRow(s, FirstDay).state = "enabled" /\ NewRow(s, FirstDay).created = FirstDay
          /\ NoRow.state = "absent" /\ NoRow.created = 0
      BY DEF NewRow, NoRow
    <2>2. CASE s \in FirstOnes
      BY <2>1, <2>2, <1>1, <1>2
    <2>3. CASE s \notin FirstOnes
      BY <2>1, <2>3, <1>1, <1>2
    <2>4. QED
      BY <2>2, <2>3
  <1>4. \A s \in Schedules : ModeShown[s] = IF s \in FirstOnes THEN "on" ELSE "none"
    BY <1>3 DEF ModeShown, ModeOf
  <1>5. ModeShown \in [Schedules -> {"none", "on"}]
    BY <1>4 DEF ModeShown
  <1>6. SinceShown = [s \in Schedules |-> IF ModeShown[s] = "on" THEN today ELSE 0]
    BY <1>3, <1>4 DEF SinceShown
  <1>7. \A s \in Schedules : RunsOf(s) = {}
    BY <1>2 DEF RunsOf
  <1>8. ServedShown = [s \in Schedules |-> 0]
    BY <1>7, FS_EmptySet DEF ServedShown
  <1>9. AuditsShown = {}
    BY <1>7 DEF AuditsShown
  <1>10. QED
    BY <1>5, <1>6, <1>8, <1>9
    DEF Recurring!RecurringInit, ModeShown, SinceShown, ServedShown, AuditsShown

LEMMA NextRecurring ==
    ScheduleInv /\ [Next]_vars => [Recurring!RecurringNext]_(Recurring!recurringVars)
  <1> SUFFICES ASSUME ScheduleInv, [Next]_vars
               PROVE  Recurring!RecurringNext \/ UNCHANGED Showing
    BY ShowSame
  <1>1. CASE EnqueueStep /\ UNCHANGED <<schedule, pass, failures>>
    <2>1. CASE Subscribe
      BY <1>1, <2>1, SubscribeStep, ShowElsewhere DEF Recurring!RecurringNext
    <2>2. CASE ExpireSubscriptions
      BY <1>1, <2>2, ExpireStep, ShowElsewhere DEF Recurring!RecurringNext
    <2>3. ASSUME NEW q \in Clients,
                 \/ \E sub \in Submissions : AskForAudit(q, sub)
                 \/ EnqueueAuditAtomically(q)
                 \/ RequestFails(q)
          PROVE  Recurring!RecurringNext
      BY <1>1, <2>3, AskStep, SubmitStep, RequestFailsStep, ShowElsewhere
      DEF Recurring!RecurringNext
    <2>4. ASSUME NEW n \in DOMAIN runs, AttemptEnds(n) \/ NextAttempt(n) \/ JobEnds(n)
          PROVE  Recurring!RecurringNext
      BY <1>1, <2>4, JobStep, ShowElsewhere DEF Recurring!RecurringNext
    <2>5. CASE CleanupStaleJobs
      BY <1>1, <2>5, CleanupStep, ShowElsewhere DEF Recurring!RecurringNext
    <2>6. CASE DayPasses
      BY <1>1, <2>6, DayStep, ShowElsewhere DEF Recurring!RecurringNext
    <2>7. QED
      BY <1>1, <2>1, <2>2, <2>3, <2>4, <2>5, <2>6 DEF EnqueueStep
  <1>2. ASSUME NEW s \in Schedules, CheckSchedule(s) \/ CreateSchedule(s)
        PROVE  Recurring!RecurringNext \/ UNCHANGED Showing
    BY <1>2, ShowCheck, ShowSwitchOn DEF Recurring!RecurringNext
  <1>3. ASSUME NEW p \in Passes, DisableSchedule(p)
        PROVE  Recurring!RecurringNext
    BY <1>3, ShowSwitchOff DEF Recurring!RecurringNext
  <1>4. ASSUME NEW p \in Passes, EnqueueOccurrence(p)
        PROVE  Recurring!RecurringNext
    BY <1>4, ShowAudit DEF Recurring!RecurringNext
  <1>5. ASSUME NEW p \in Passes,
               \/ StartPass(p) \/ ClaimOne(p) \/ EndPass(p) \/ SkipSchedule(p)
               \/ ProcessingFails(p) \/ PassDies(p)
        PROVE  UNCHANGED Showing
    <2>1. UNCHANGED <<enqueueVars, schedule>>
      BY <1>5 DEF StartPass, ClaimOne, EndPass, SkipSchedule, ProcessingFails, PassDies
    <2>2. QED
      BY <2>1, ShowPass
  <1>6. CASE UNCHANGED vars
    BY <1>6, ShowPass DEF vars
  <1>7. QED
    BY <1>1, <1>2, <1>3, <1>4, <1>5, <1>6 DEF Next, PassStep

(* Schedules and passes implement RecurringAudits: an occurrence is        *)
(* audited when it is the next of a schedule that is switched on, whatever *)
(* passes, failures and clients do, and a schedule is switched off only    *)
(* when it is due and the plan of a day on which it was due, by the        *)
(* subscriptions as they are then, does not include scheduled audits.      *)
THEOREM RecurringImplemented == Spec => ImplementsRecurringAudits
  BY InvAlways, InitRecurring, NextRecurring, PTL
  DEF Spec, ImplementsRecurringAudits, Recurring!RecurringSpec
=============================================================================
