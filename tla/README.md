# Auditsystems: specifications

TLA+ specifications of the parts of this application in which several actors
share state: the job queue and its workers, the submission and the schedules of
audits, the payment of a report, subscriptions, leads, and team invitations; and of the
fetches of an audit, which an abort may meet anywhere. TLC checks them on small
instances; TLAPS proves every safety property for instances of any size. All paths
below are relative to the repository root (`PROJECT.json` prefixes them with the
directory that holds it).

The application is a Next.js server (any number of processes and concurrent
requests), a worker (`src/worker`, one or more processes) and scripts that a
timer starts. They share nothing but a PostgreSQL database; concurrency is
between database statements and transactions, and between those and calls to the
outside: the audited site, the payment provider, the mail server. A route, a
worker or a script can be cut off between any two of them.

## 1. The system

| component | state it keeps | operations | depends on | status |
|---|---|---|---|---|
| Job queue, `src/worker/queue.ts` | table `Job` | enqueue, recycle expired leases, lease, heartbeat, succeed, fail | clock of the database | modelled, proved |
| Heartbeat and timeout, `src/worker/worker-cycle.ts` | timers of a lease | beat, skip, time out | queue | modelled, proved |
| Audit worker, `src/worker/{index,worker-cycle,audit.handler}.ts`, retry-audit route | process loop, slots; tables `AuditRun`, `Finding` | cycle, handler, report, shutdown; retry | queue | modelled, safety proved |
| Audit submission, `src/lib/audit-enqueue.ts`, `src/lib/cleanup.ts` | `AuditRun` + `Job`, idempotency keys, monthly quota | submit, forget | queue, subscription | partly, proved |
| Scheduler, `src/lib/scheduled-audit-runner.ts`, schedule route | `ScheduledAudit.nextRunAt` | create, run due schedules | submission, subscription | modelled, safety proved |
| Order checkout, `src/lib/order-checkout{,-handler}.ts` | `AuditOrder`, its events, `AuditLead.status` | prepare, mark, create session, complete, fail | payment provider | modelled, proved |
| Payment callback, `src/lib/payment-callback-state.ts`, `src/app/api/payments/callback` | `AuditOrder`, verification events | claim, verify, finalize, release | checkout, provider | modelled, safety proved |
| Subscription billing, `src/lib/subscription.ts`, `src/app/api/billing`, `src/scripts/expire-subscriptions.ts` | `Subscription`, `Invoice` | checkout, callback, expire | provider, calendar | partly, proved |
| Team invites, `src/lib/team-invites.ts`, `src/app/api/team` | `TeamMemberInvite`, `Membership` | invite, resend, revoke, accept; change and remove members | mail | modelled, proved |
| Leads, `src/lib/lead-state-machine.ts`, intake, capture and admin routes | `AuditLead`: status, stamps, run | intake, capture, move on, start the audit, order | orders, submission | modelled, proved (no run) |
| Project quota, sessions and tokens, rate limits, report access | their tables, Redis | create, sign in, verify, count | | not modelled, section 6 |
| Fetching the audited site, `src/lib/{safeAuditFetch,seo-file-evidence,performance-evidence}.ts` | requests, bodies, evidence | fetch with redirects, probe, measure, abort | the site, the name service, the provider | partly, safety proved |
| Audit computation | none | score, compare | | not modelled |
| Notifications, pages, scripts | none that others rely on | I/O, presentation | | not modelled |

What is hard in it, and hardly tested:

* A lease of a job can run out under a worker that is still alive. Queue calls
  are fenced by (worker, attempt), writes to `AuditRun` are not.
* The handler's writes and the queue's writes are separate calls. Each may throw,
  before or after it took effect, and the process may end between them.
* A scheduler pass uses one clock reading for as long as it takes, next to other
  passes, next to clients that use up the quota, and next to runs that fail and
  are attempted again; a submission and the next date of its schedule have to move
  together, and idempotency keys are forgotten some day.
* Between marking an order and hearing from the provider nothing is known: the
  payer may or may not have a session to pay in.
* Verifications of orders are claimed by inserting events; the newest event
  decides, but events are not dated when they are inserted. Invoices have no such
  protocol: every call of their callback is on its own.
* Team routes compare rows with a clock, or write rows by an identity, that they
  read in an earlier call; invitations are mailed after they are committed, and
  taken back in a second transaction.
* An audit fetches from a site that may redirect, stall, break off or never end, with a
  name service that may change its answer; the abort of its job may come at any await.
* Callbacks and requests come twice, concurrently, or late; so do retries by
  operators.

`PROJECT.json` lists these hazards line by line with the properties that cover
them.

## 2. Modules

    QueueTiming        nextBackoffMs and heartbeatTiming as functions
    ExclusiveWork      abstract: what the queue promises
    JobQueue           the queue; implements ExclusiveWork
      JobQueueProofs   its theorems
    LeaseClock         one lease in milliseconds (uses QueueTiming)
    AuditWorker        processes, handler and retry route, on top of JobQueue;
                       implements ExclusiveWork as well
      AuditWorkerProofs   its theorems, on top of JobQueueProofs; those of LeaseClock
    ScheduleTime       calendar arithmetic: schedule-time.ts, months
    AuditEnqueue       submissions, keys, quota, clean-up (uses ScheduleTime)
    RecurringAudits    abstract: what a recurring audit promises
    ScheduledAudits    schedules and passes, on top of AuditEnqueue; implements RecurringAudits
      ScheduledAuditsProofs   theorems about both
    PaidPlans          abstract: what an organization gets for its money
    SubscriptionBilling  invoices and subscriptions (uses ScheduleTime);
                       implements PaidPlans
      SubscriptionBillingProofs   its theorems
    SinglePurchase     abstract: what checkout and callback promise together
    OrderCheckout      the checkout transactions and handler
    PaymentCallback    callbacks, on top of OrderCheckout; implements SinglePurchase
      PaymentCallbackProofs   its theorems
    TeamAccess         abstract: who belongs to an organization, and as what
    TeamInvites        invitations and memberships; implements TeamAccess
      TeamInvitesProofs   its theorems
    LeadLifecycle      rows of leads and everybody who writes them
      LeadLifecycleProofs   its theorems
    AuditFetch         what one audit asks of the network
      AuditFetchProofs   its theorems
    MC*                instances for TLC

Operators that a comment calls a mutant of another one are plausible mistakes in
it. No specification uses them; `PROJECT.json` says which property notices each.

### JobQueue

The state is the table. Every exported function of `queue.ts` is one SQL
statement and therefore one action; the two outcomes of `markJobFailed` are two
actions. `issued` remembers every lease ever returned and `verdicts` every
completion the queue accepted. A heartbeat, success or failure may be called for
*any* issued lease at any time, so late, duplicated and reordered calls are all
there. Timestamps are kept relative to `NOW()`: `lease` counts down to 0, `due`
counts down through 0. A call that is rejected (returns false) changes nothing
and is a stuttering step.

### LeaseClock

The clock of one lease in real milliseconds: beats every `intervalMs`, each
extending the lease by `extensionMs`, until the timeout stops them. A beat is
skipped while the previous one is under way.

### AuditWorker

Extends JobQueue. A worker name of the queue is a slot, a pair of a process and an
index. `cycle`, `asked` and `slot` are the program counters of `runWorkerCycle`
and `processLease`, with one place per database call:

    free -> granted -> leased -> load -> mark -> fetch -> measure -> notify -> check -> free
                          |        |       |        \        |         /         |
                          +--------+-------+         ----> failrun <--           |
                          +--------+------------------------>|<------------------+
                                                           report -> free

Every call may throw, having taken effect or not. `markJobFailed` throwing
rejects the batch, and the process exits in the middle of what its other slots
do. A signal sets the abort flags; it is only looked at where the code looks. The
process manager restarts a process. (Its name carries the process id, which a
container hands out again; the model always does, the harder case for fencing by
name.) `reportStatus` is written together with the run's status and folded into
it; errors of the funnel event are swallowed and left out. `admin` are requests of
the retry-audit route: check, reset, enqueue, undo. Each of its calls may throw, having taken
effect or not, and a request may end after its reset (`BreakOff`, `RetryDies`); `cut`
remembers which runs it had reset.

`WorkerTick` charges to a budget each lease that runs out under a live slot. This
is a stall: an event loop or a database slower than the lease, or a handler that
goes on past its timeout.

### ScheduleTime, AuditEnqueue and ScheduledAudits

Days are numbers, months the intervals of a table that is a constant. The time of
day and the difference between local time and UTC are left out.
`NextScheduledRun` is the code's arithmetic (a month at a time from the last
occurrence, cut to the length of the month, the anchor's day kept); the property
`OccurrencesOnce` compares it with the plain definition of the n-th occurrence: when a
schedule has n runs, they are for its first n occurrences, and it waits for the next.

`runs` is the tables `AuditRun` and `Job` in the order of `createdAt`. A
submission is one serializable transaction and one step, `Enqueue`: the run of a
known key is returned, a run beyond the limit is refused, anything else inserts.
The limit comes from the plan, which is read in an earlier step. The plan is that of the
newest subscription in force (`SubscriptionPlan`): one without scheduled audits that runs
counts for what it is, also next to an older and dearer one. `ExpireSubscriptions` is the
script; what it marks is no longer in force, except for a pass with an old `now`. A run's job can be
attempted again while the run says FAILED (`AttemptEnds`, `NextAttempt`: the
statuses "attempted" and "retried"), can end and leave its run QUEUED or RUNNING
(`JobEnds`, the case AuditWorker shows), and is deleted seven days after its end
(`CleanupStaleJobs`). Lead links, the fingerprint that
distinguishes a repeated key from a reused one (both leave the tables alone), and
the usage ledger, which nothing reads, are left out.

`pass` is where each scheduler process is. Selecting a schedule locks its row until
the transaction ends, so that one step claims it and one step does all the
transaction does: disable, skip or enqueue-and-advance; or the transaction fails
(`ProcessingFails`) or the process ends (`PassDies`) and nothing happened. `now` is
read once per pass. Creating a schedule is two steps, as in its route: the checks,
then the row.

RecurringAudits knows none of this: a schedule serves its days one after the other, none
before its time, and is switched off only when it is due and the plan of a day on which it was
due does not include scheduled audits. (A pass asks for its own `now`, of the subscriptions as
they are when its transaction runs.) The refinement counts the runs that have a key of the
schedule; claims, skips, refusals, failures, submissions of clients and the clean-up are
stutters.

### OrderCheckout and PaymentCallback

One report, one email, one provider. Every function of `order-checkout.ts` and
`payment-callback-state.ts` is one serializable transaction and one action; the
handlers between them are program counters (`request`, `callback`). A transaction
that throws may have committed. `session` is the provider's side: a session is
opened by `createCheckout` (whose answer may be lost), the payer pays or
cancels after being redirected, and verifying a paid session settles it, whether
or not the answer arrives (Zarinpal answers 100, then 101). Money is taken when
the session is settled.

An event is dated either with the `now` taken before its transaction (claims) or
at insertion (releases). `late` marks a callback whose claim will sort behind a
release.

Left out: the MOCK provider (no network call, so nothing in between); rows of
older releases with `providerRef` but without `CHECKOUT_CREATED`; rate
limits and validation of the request; two different providers for one report (one
real provider is implemented). Cancelling is taken as final at the provider
(external assumption), and callbacks only arrive once the payer has decided.

### SubscriptionBilling

One organization. There are no transactions: `callback` is a program counter with a
place per call (verify, record, look, create, link, fail), `CutOff` ends one
anywhere, and the two statements of the expiry script may come at any moment. A
callback for an invoice may come as soon as the invoice's session exists, before or after
the payer decided. The provider is asked about the session that the request names
(`asked`): the route prefers the Authority of the request to the one stored with the invoice
and does not compare the two, so it may be any session of the merchant, of another
invoice or of a report order (`Sessions` has those too), or none. What is assumed of the
provider is that it compares the amount it is sent, which is the invoice's, with that of the
session; a session settled before is still "paid" (code 101). The row's own reference, and
whether the checkout was cut off before storing it, needs no state: what a request without
an Authority asks for is one of `Authorities`. Report orders are taken to verify their own
sessions only, as their route does once the reference is stored. `for` remembers the
invoice a subscription was created for. `PayerReturns` only records that the browser came
back: it is sent to the route for orders. `cancel-`, `upgrade-`, `downgrade-` and
`reactivateSubscription` have no caller in the repository and are left out.

PaidPlans has amounts that were taken, and months: an amount buys a month of a plan of that
price, or several when callbacks come at once or name the same payment; a month has 28 to
31 days (its own arithmetic, not that of the code), becomes overdue when it is over and is
given up later, and nothing else ever changes it. The refinement forgets invoices, callbacks
and what was written where.

### TeamInvites

One organization. `invite` has one row per address, which every invitation to it
reuses with a new token; `member` has the memberships. A request is a record of what
it remembers between its calls: the clock it read first, the token it made or was
given, the id of the membership it read. Each transaction is one action; the mail and
the transaction that takes an invitation back after a failed mail are steps of their
own, and a mail may arrive although sending it is reported as failed. Somebody who
may manage the team is looked for once, when a request begins. Only the invited
person opens the link of a mail. `closed`, `joins` and `granted` are histories.

In TeamAccess there are no requests and no clock. An offer that is over (used, replaced or
withdrawn) admits only whoever began to take it up before, and once; a member has a role that
was decided for this membership. The refinement maps the requests that look at an
invitation in time to `accepting`, and the ids in `granted` to decisions, so that a role
written late, to a membership that is gone or another one, would be a step TeamAccess does
not have.

### LeadLifecycle

The columns `runId`, `status` and the three stamps of every `AuditLead`, and
those who write them. An order (`OrderReport`) and the start of an audit
(`EnqueueAudit`) are one serializable transaction each. The intake form, the capture
on a report and the two admin routes that move a lead on look in one call
(`LooksFirst`) and write in another, with what they saw in `visit`; PATCH writes back
the stamps it read, POST only its own. `keyed` is the job under the idempotency key of the
lead, which the clean-up deletes once its run has ended (`ForgetKey`): afterwards only
`runId IS NULL` in the update of the lead keeps a second run away. `bought` and
`reopened` remember orders and leads that left CONVERTED or LOST.

OrderCheckout has the status of its order's lead too (`lead`, which its transactions write; no
property of the payment is about it); here a lead is met by all its writers.

### AuditFetch

One call of the audit handler: the steps `fetch` and `measure` of AuditWorker, seen from the
inside. `pc` has a place per await of `fetchAuditResource` (`lookup`, `waiting`, `body`) for
each of its three uses: the page, then `robots.txt` and `sitemap.xml` side by side. A fetch
that fails or returns takes whoever awaits it along in the same step (`Fails`, `Returns`): the
handler, or the probe, which turns an error into evidence unless the signal is aborted. The
name service answers each lookup anew, with any set of addresses. `body` is the response:
whether the peer still sends, whether it is encoded, and how much was kept. `Broken` is what
becomes of it when it is destroyed: its own reader gets an error, while a decoder it is piped
to keeps waiting (that is what `pipe` does, and what the property `SettlesUnlessCut` excepts).
A decoder may also be through before the response is (`DecoderEnds`); the fetch then returns
and leaves the response as it is (`Left`) until the peer or the idle timer ends it
(`LeftEnds`), an abort not being heard any more. The provider is asked last; it is not told of
the signal. Hosts are compared, paths and ports are not; what a page, a status or a header
says is a choice of the outcome.

## 3. Runs

| run | instance | distinct states | shows |
|---|---|---|---|
| `queue` | 2 jobs, 2 workers, `MaxAttempts` 2, 3 attempts | 153 thousand | the fence (`FenceNeverReused`), the answers (`VerdictsMatchTable`), `LiveLeaseUndisturbed`, and the refinement of ExclusiveWork, in which what is finished stays so |
| `queue_attempts` | the same | | violation: recycling ignores `maxAttempts` |
| `lease_clock` | timeouts on and around every edge of the timing function | 169 | a heartbeat interval is always left on the lease |
| `worker_races` | 2 processes, one run, a first job and a retry, a kill and a stall | 2.72 million | `NoOverlapUnlessStalled`, `AttemptsExplained`, and the refinement of ExclusiveWork |
| `worker_live` | 1 process with 2 slots and a retry route; a kill, a signal, a stall, a database error of the worker, one of the route or a cut-off request; fetches that may hang | 1.2 million | `SuccessHasResults`, `SuccessSticksUnlessStalled`, `NoStartAfterSignal`, `SettledRunsRest`, `JobsFinishUnlessHung`, `RunsSettleUnlessDisturbed` |
| `schedules` | a monthly and a weekly schedule of one project, 2 passes, a client; a failed or killed pass, a run that never ends, a run that is retried; a plan without scheduled audits and one with them | 549 thousand | `OccurrencesOnce`, `KeysRemembered`, `WithinQuota`, `NoOverlapUnlessRetried`, `DueServed`, and the refinement of RecurringAudits |
| `payment` | 2 orders, 2 requests, 2 callbacks, one fault of each kind | 1.22 million | `FailedNeverCharged`, `OneLiveSession`, `PaidMeansSettled`, `QuarantineKept`, and the refinement of SinglePurchase |
| `payment_live` | 1 order, 2 callbacks, the same faults | 73 thousand | `PaymentsGetRecorded` |
| `billing` | 2 invoices for two plans, a report order, 2 callbacks of which one is cut off, two months | 7.72 million | `SubscriptionsPaidFor`, `PaidMonthServed`, `MoneyBuysPlanUnlessCut`, and the refinement of PaidPlans |
| `billing_activates` | the same with 1 callback and no fault | | violation: nobody is led to the billing callback |
| `team` | an owner and a guest, 2 requests of any kind, 3 tokens, 3 moments | 3.7 million | `ClosedStaysClosed`, `OpenStaysValid`, `RolesGranted`, `MembersHaveNoOpenInvite`, and the refinement of TeamAccess |
| `audit_fetch` | one name, a public and a private address, 2 redirects, a chunk | 962 thousand | `FetchTypeOK` (budgets), `OnlyPublicAsked`, `NothingAfterAbort`, `HandlerEndsClean`, `SettlesUnlessCut` |

The type invariants of most modules are proved (section 5) and not among the runs.

### Why the bounds are enough

What the runs cannot show for larger instances is proved, for every safety property
(section 5); the bounds matter for the interleavings that TLC is to meet, and for
liveness.

* Queue and worker. Two jobs and two workers are the least at which a job can change
  hands and be confused with another; three attempts exceed `MaxAttempts` by the one
  that recycling can add. The length of a lease, of a heartbeat's extension and of the
  back-off are computed from the code's own functions, with ticks of 5 or 15 seconds,
  and keep their order (extension shorter than the lease is possible; back-off longer
  than recycling). The abort points of the code look only at a flag, so two slots show
  every mixture of an aborted and a live one. `WaitBound` is 0 in the worker's runs: a
  job that is available is not ordered by how long it waited; the queue's own runs have
  1. `NoOverlapUnlessStalled` is checked with one retry request at a time.
* Faults. Every kind of fault happens at most once per run of the system, at any place;
  invariants that depend on how often say so (`AttemptsExplained` counts,
  `...UnlessStalled`, `...UnlessDisturbed`, `...UnlessHung` and `...UnlessCut` name their
  premise). That jobs finish rests on the bound of stalls: slots that outlive their lease every
  time repeat a job for ever (finding `queue_attempts`). `AttemptBound` is above `MaxAttempts`
  by one for each fault that can cost an attempt, so it cuts nothing off.
* Schedules. From 31 January, when a monthly schedule is created, to the last day of
  February, where it is cut to the month's length, with deadlines of a weekly schedule
  in between; the clock may jump over all of it, so that a backlog piles up. A pro
  subscription that lapses in the middle has been followed by a starter subscription, whose
  plan has no scheduled audits, and pro can be bought again (`OnSale`, `SubBound`): a due
  schedule finds one or the other in force. `Enqueue` refuses at one run a month (starter)
  and two (pro), which the two schedules and the client exceed. Two passes, one of which can
  fail, show every race of two. `OccurrencesOnce` is an equation between the arithmetic
  and its definition at every occurrence that is reached.
* Payment. Two orders suffice for "two purchases"; two requests and two callbacks for
  every race between two of them.
* Billing. 31 January, whose month overflows into March, and a day before, on and long
  after the last one of the month that was paid for; two invoices for two plans,
  because callbacks of one plan look for the other's subscription; a report order of
  the first plan's price, so that a callback can name a session that is not its own
  invoice's (two invoices of one price are in the proofs); two callbacks on each of which
  everything else may happen.
* Fetches. A name that resolves to either address, to both or to none, literal addresses,
  two redirects of which a third is refused, a chunk of which a second is too much; the
  page and both probes, so that each can be at any place when the abort comes.
* Team. Two requests of any kind; three tokens, so that an invitation is replaced twice
  while a request holds the first token; time to reach the end of the first invitation.

Symmetry is used for processes (`worker_races`), for orders, requests and callbacks
(`payment`), for callbacks (`billing`) and for requests (`team`), which the specifications
never tell apart; it is not used with liveness. Deadlock is not checked in `billing` and
`audit_fetch`, where everything may be over.

### Fairness

Worker processes keep looping, slots keep working, timers fire and time passes
(weak fairness of each): `runLoop` polls, JavaScript timers and the event
loop do the rest, and the process manager restarts what ends (`Restart`). Calls to the
database return or throw, and the measurement is ended by its timer; a *fetch* need not
settle (`Fairness` says nothing of a slot at "fetch", see AuditFetch), so the liveness
properties of the worker except a slot that stays there for ever (`Hung`). A retry request that was
begun goes on unless it is cut off, which may happen after its reset. Nothing
obliges a retry request to begin, or a signal, a fault or a crash to happen. The bounds keep
faults from happening for ever, which is the usual assumption that the
environment is quiet for long enough in the end.

For schedules: a pass begins while something is due (the script is run by a timer),
passes that were not killed go on, and workers finish their jobs. Nothing obliges time
to pass, a client to ask, a plan to be bought or the clean-up to run. `DueServed` has
`MaxSchedules` 2, as many as can be blocked: see "worth knowing".

For payments: callbacks that were not cut off go on, time passes, and the payer
or the provider comes back with a callback as long as the order is open. Nothing
is assumed about further checkout requests. Slow verifications (that outlive
their two minutes) are a budget of their own: the provider call is cut off after ten
seconds, so they are exceptional.

For fetches: the job's timer fires, the name service answers, a request without an answer
is ended by its own timer, and the process goes on with what has arrived. A request to the
provider is ended by its timer, or, once its head has arrived, by the limit that the
runtime's `fetch` has for an idle body. Nothing obliges the site to do anything.

`RunsSettleUnlessDisturbed` holds for kills and for errors of the retry route that it can
take back, but not for the other budgets, nor for a run whose retry was cut off after the
reset, nor when the time of a job is up before its handler starts (see "worth knowing").

## 4. Findings

* `queue_attempts`: `recycleExpiredLeases` returns a job to the queue whatever its
  attempt. A job that kills its worker is retried for ever; the runbook says
  `maxAttempts` ends it. `AttemptsExplained` says how many attempts are possible: one more for
  each lost lease.
* `billing_activates`: `createCheckout` sends every payer back to
  `/api/payments/callback`, also the payer of an invoice. That route knows orders only; the
  billing callback, which would verify the invoice and create the subscription, is called
  by nobody. The documents say that a payment activates a subscription.

Worth knowing, though no document promises otherwise, or no run of its own shows it:

* A job can be FAILED with its run still QUEUED or RUNNING: after a database error
  before the handler's `try`, or after a signal before the handler starts. A stalled slot
  can also mark a FAILED run RUNNING and die. No job is left that would settle the
  run, and a schedule of its project is blocked for ever (`Blocked` in `DueServed`).
* With two slots per process the same comes about without any fault: the time of a job
  runs from its lease, while the process still asks for jobs for its other slots. A lease
  statement that is slower than the timeout uses up the attempts of a job whose
  handler never starts (`Disturbed` names this case).
* An encoded body that is cut off, by the abort or by the peer, leaves its reader waiting
  for ever: `response.pipe(createGunzip())` does not destroy the decoder
  (`safeAuditFetch.ts:70`; the test of an abort while reading has a body without
  encoding). The handler then never settles, nor does `Promise.all` over the slots in
  `worker-cycle.ts:116`: the process leases nothing more and does not end when it is told
  to. `SettlesUnlessCut` says that this is the only way a handler does not settle, and
  `JobsFinishUnlessHung` that a job of the process is otherwise finished.
* An encoded body may go on after its compressed data. The decoder ends there, `readBoundedBody`
  returns without destroying the response, and the listener of the abort is removed
  (`safeAuditFetch.ts:98-113,236`): the connection stays open, also after the handler is
  through, until the site closes it or its idle timer does. `HandlerEndsClean` says that no
  other connection does.
* The timer of a request to the provider is cleared when the head of its answer has
  arrived (`performance-evidence.ts:369`). The policy speaks of 12 seconds per request;
  a body may take longer, and the handler does not hear of an abort meanwhile.
* The retry route's check, reset and insertion are separate: two concurrent requests can
  create two active jobs for one run. Its undo (`QUEUE_ENQUEUE_FAILED`) does not look at
  the run, and overwrites one that a committed job has finished meanwhile. A request that ends
  between its reset and its insertion, or whose reset commits and throws
  (`retry-audit/route.ts:44-65`), leaves the run QUEUED without a job; later requests are
  told `AUDIT_RETRY_REQUIRES_FAILED_RUN`. `NoRunLeftBehind` names this case (`CutOff`).
* A run that is FAILED until its next attempt does not count as active: a schedule
  submits next to it (`NoOverlapUnlessRetried` names the case).
* A pass takes `maxSchedules` schedules in the order of `nextRunAt`, and skipped ones
  keep their place. More blocked schedules than that starve all others.
* After seven days a key is forgotten with its job, and a repeated submission starts
  a second audit (`KeysRemembered` says so).
* A claim is dated before its transaction. Committed after a release, it is not the
  newest event and takes no lease: two callbacks can verify one order at once. No harm
  follows for the payer, because a verifier without the newest event cannot finalize.
* Concurrent billing callbacks create two subscriptions for one invoice; one that is cut
  off between recording the payment and creating the subscription leaves a paid invoice
  without any, which no later callback repairs, since the invoice is not PENDING any more;
  one that was told "not paid" may write FAILED over PAID.
* The billing callback verifies the Authority of its request and does not compare it with
  `Invoice.providerRef` (`billing/callback/route.ts:47,90`; the route of report orders
  compares, `payments/callback/route.ts:265`). A payment is therefore not tied to an
  invoice: `SubscriptionsPaidFor` and PaidPlans say that the price was taken in some
  session, not that each subscription has a payment of its own.
* A month that begins on the 29th to 31st ends in the month after next (31 January: 3
  March); PaidPlans allows for it, since it is never shorter than 28 or longer than 31 days.
* The active subscription is the newest one: buying a cheaper plan while a dearer one
  runs gives its limits from then on and, when it has no scheduled audits, switches every
  schedule off that is due (`DisableSchedule`).
* An acceptance that read its clock before a revocation still admits after it
  (`late` in `ClosedStaysClosed` excepts what was under way).
* A request that ends between the transaction and the mail leaves an invitation nobody
  received; it blocks a new one until it expires or is sent again.
* The admin routes of leads check a transition on a status they read before: of two
  concurrent updates one can leave LOST or CONVERTED again. Starting an audit sets
  QUALIFIED whatever the status was (`audit-enqueue.ts:242` looks only at `runId`), also
  for a lead that is LOST, from where PATCH refuses to go to QUALIFIED.
  `ReopenedByStartOrStale` says that there is no third way.
* Intake and capture look for a lead and insert it in two calls: the same form sent twice at
  once makes two leads. An order takes the newest.

## 5. Proofs

Every safety property and action property that a run checks is proved for all values
of the constants that satisfy the assumptions of the modules, and so are all
refinements: of ExclusiveWork by the queue and by the workers on top of it, of SinglePurchase,
RecurringAudits, PaidPlans and TeamAccess. (Three theorems have one more assumption:
`RunsWorkedOnByOne` and `SuccessIsKept` that there is one retry request at a time;
`LeaseOutlives` that `SkipBound` is at most 1.) The
properties of LeadLifecycle are proved as well, though no run checks them. None of the
invariants is inductive alone; each section names the strengthening.

### JobQueueProofs

For any jobs, workers, `MaxAttempts`, tick counts and bounds: the type invariant, all
safety properties of run `queue`, and the refinement of ExclusiveWork. `QueueInv` is:
types; `OnlyRunningLeased` (a row that is not RUNNING has no live lease);
`FenceNeverReused`; `VerdictsMatchTable`; and `VerdictEndsLease` (a lease that got a
verdict is not the current one of a running row). The last is what makes "one verdict
per lease" inductive: without it a completion could be accepted twice. That a lease is
new when it is issued follows from the fence: all earlier attempts are at most the
row's. The step lemmas are one per kind of change: `QuietStep` (the histories stay;
enqueue, recycle, heartbeat, tick), `LeaseStep`, `VerdictStep`. The action properties
and the refinement follow from the invariant, action by action. So does `LostForGood`: a
lease that is no longer the current one never becomes it again, so a worker that once got
`false` from the table need not ask again.

### AuditWorkerProofs

For any jobs, runs, processes, concurrency and budgets. Every step of a process on the
table is one of the queue's own steps or leaves it alone (`UsesQueue`). So the workers'
specification implies the queue's, and its theorems (the fence, the answers, the refinement
of ExclusiveWork) hold here too without being proved again. `WorkerInv` adds what the
slots know:

* `BatchesKnown`, `LeasesKnown`, `SignalsKnown`: how the loop and the slots fit
  together, that a busy slot holds a lease that was issued to it, and that a leased job of
  a process with a signal is aborted. From the last follows `NoStartAfterSignal`.
* `ResultsKnown`: a slot past the measurement has results of its run in the
  table. As nothing deletes results, `SuccessHasResults` follows, whoever overwrites the
  status.
* `AttemptsKnown`: with L losses so far (crashes, stalls, errors), a job has at most
  `MaxAttempts` + L attempts, and strictly less while it waits to be attempted: QUEUED, or
  RUNNING but held by no slot. A slot that lets go of a job without
  reporting pays with a loss, which is what keeps the strict bound.

`ExclusionInv`, under the assumption `OneAdmin` that at most one retry request exists, is
about two slots or two jobs of one run: unless a slot stalled, every slot at work owns the
lease of its job (`OwnersKnown`); a run has at most one job QUEUED or RUNNING, and none
between the check and the insertion of a retry (`OneActiveJob`); and unless the route
failed, a slot past the measurement, and a job that succeeded, have their run SUCCEEDED.
Two slots at work on one run then own the leases of one job, and are one slot. (The run
`worker_live` has jobs of one run in its two slots; batches of several runs are covered
by these proofs.)

`OwnersKnown` is inductive by itself, for any number of retry requests. From it alone follow
`JobsWorkedOnByOne` (unless a slot stalled, a job is worked on by one slot, whatever the retry
route does) and `SettledRunsRest`: unless a slot stalled, nothing happens to a run without an
active job, but that the route queues it or takes that back. This is what AuditEnqueue assumes
of the workers when it treats the job and the status of a run together. (A stalled slot can
reopen a settled run, which AuditEnqueue does not have.)

`NobodyLeavesRunsBehind` is the safety half of `RunsSettleUnlessDisturbed`: as long as
nothing happens to the workers but kills, and whatever calls of the route throw, a run with a
job that is not settled has an active job, or a retry request that is about to insert one or to
take its reset back, unless a request that had reset it was cut off before that. By itself that
is not inductive: a handler that has just
ended, and reports, still has an active job. `CalmInv` therefore asks for an *open* job, one
whose holder, if it has one, has not yet settled the run, and for slots that start
without an aborted signal (an aborted one would leave without a report). A kill keeps
it, as the job goes on without a holder; a report by a slot that lost its lease keeps it,
because that lease stays lost (`StepKeepsStale`, the lemma under `LostForGood`). With
`JobsFinishUnlessHung`, which says that active jobs end, this is why runs settle. No run lists
`NoRunLeftBehind`, as `worker_live` checks the liveness it is a part of.

The last part is about LeaseClock, for every set of timeouts. An extension is at least three
intervals (`ThreeBeats`). `Remaining`, which holds whatever `SkipBound` is, says how many
of them are left when a number of beats in a row have been skipped, and what is left at the
timeout. From it follow `LapsesAfterSkips` (a lease lapses before the timeout only after
three skipped beats in a row, and at the timeout only after two) and, while no two in a
row are skipped, `LeaseOutlivesBeats`. The timeout has to be three seconds or more; below
that the interval is clamped to a second and no longer a third of the timeout.

### ScheduledAuditsProofs

For any schedules, clients, passes, limits, bounds, and any calendar whose months have
28 to 31 days and goes on for a month after the last day that is looked at. `ScheduleInv`
has two halves. The first is about `runs`: a step either appends one
run (`RunsGrow`) or lets one age and keeps its day, project, key and limit (`RunsKept`).
`KeysRemembered` needs that a job that is not deleted blocks its key, and that the deleted
ones are old; `WithinQuota` that days of `runs` ascend, so that the runs of a month that
the transaction counts (since the first day of the month of a possibly old `now`) include
all those of the new run's own month. The second half is about schedules: whoever holds one
is the only one and knows that it is due, so that a schedule and the runs with its key move in
one step. `OccurrencesOnce` is proved by numbering: the schedule waits for occurrence n + 1
when n runs have its key, and the k-th of them is for occurrence k. The n-th occurrence by
definition plus one month, cut and anchored as the code does it, is the next by definition
(`NthNext`). The refinement of RecurringAudits rests on the same: the step that enqueues and
advances is `Audit`, the one that disables is `SwitchOff` on account of the day that is the
pass's `now`, and only these need the invariant. That keys of schedules differ
from those of clients is the assumption `KeyAssumption`; it is what
`buildAuditIdempotencyKey` with its source is for.

### PaymentCallbackProofs

For any orders, requests and callbacks, any lease and any bounds: the type invariant,
`FailedNeverCharged`, `OneLiveSession`, `PaidMeansSettled`, `QuarantineKept`, and the
refinement of SinglePurchase. The properties relate an order to the provider's session,
which no transaction of the code reads; `PaymentInv` states what the code's own tables say
about it:

* `RequestsOwn`: an order is in the hands of one request at most, the one that
  inserted it. So nobody else calls the provider for it.
* `SessionsKnown`: no marker, no session (which is why giving up an unmarked order is
  safe); no reference, no decision by the payer; and a request that has been refused or
  has not called yet knows that there is no session (which is why it may fail its order
  however late it gets to it).
* `Outcomes`: FAILED and PAID are true of the session; at most one order is PENDING or PAID.
* `CallbacksKnow`: a callback is about a session the payer has decided, and the answer
  it holds stays true, since nothing leaves settled or cancelled. So a late verifier
  records the truth even without the lease.

The steps of a request are instances of one lemma, `RequestStep`, those of
callbacks, payers and time of another, `OutsideStep`. In the refinement every
action maps to one action of SinglePurchase or to a stutter: Prepare to Begin,
Finalize to Confirm or Reject, FailCheckout to Reject, the first verification
after a payment to Charge. The assumption on the environment these proofs
rest on is the one the model states: a payer decides once, after the redirect URL was stored.

### SubscriptionBillingProofs

For any invoices, plans, callbacks and calendar. No call of a callback looks at what the
others do, so the argument is what a callback has made sure of where it is
(`CallbacksKnow`): past the verification the amount of its invoice has been taken, in
whichever session the request named (`Settles`), past the recording the invoice says when.
`MoneyWorks` is the form of `MoneyBuysPlanUnlessCut` that every step keeps: money taken for
an invoice has bought a plan of its price, or a callback past its verification is at it;
what worked for an invoice goes on working (`WorksOn`), and the one step that settles an
invoice's session begins to work for an invoice of the same amount.
`PaidMonthServed` and `Buys` rest on `MonthLater`: a month later is 28 to 31 days later,
also when it overflows. The assumption on the environment is the one the model states: the
provider compares amounts, and report orders verify their own sessions.
`PlansImplemented` is the refinement of PaidPlans: a verification is `Takes` (or, the second
time, a stutter), a creation `Buys`, which needs `CallbacksKnow`; a statement of the script
is `Ends`.

### TeamInvitesProofs

For any people, requests, times and bounds. The tables alone do not say why a late
acceptance or a late failure of a mail does no harm; `TeamInv` adds that tokens are new and
stay with their address (`TokensNew`, `TokensOwned`), that a closed token still in its
row is of no use to a request that begins now (`ClosedUseless`), and what a request in
the middle knows (`Knows`): the token it delivers or takes back is that of the row it
made, with its own clock, or of no row any more; an acceptance that began after its token
was closed finds the row accepted or expired by its own clock; a membership it is about to
change was not the owner's, and the role it carries was granted to that id.

`AccessImplemented` is the refinement of TeamAccess. It needs two more invariants: the ids
of memberships are new to everything that was ever decided (`IdsNew`), so that a new member
begins with one role, and the tokens in requests are those of offers that were made
(`TokensReal`). An acceptance is `Admits` because what `Knows` says of it places its token
among those taken up in time, unless the row was used or replaced.

### LeadLifecycleProofs

For any addresses, requests, leads and runs (`LeadBounds`: the bounds are numbers, one run
may exist, somebody has an address). It is not among the runs of section 3: every property it
states is proved, and `MCLeadLifecycle` is an instance (one lead, two requests, three
runs; 3.3 million states) with which TLC agrees. `LeadInv` has the
properties of the rows, what requests under way know (the lead is there; the status
they saw allows the one they write) and that orders are for leads that are there. A step
changes the rows in one of three ways (`RowsMade`, `RowsWritten`, `RowsLinked`), and
leaves the rest alone because it has only `Grown`: no lead or run goes away, and a lead
keeps its address and, once it has one, its run. `NoRunForNobody` and
`OrdersKeepTheirLead` rest on a link being made only where there is none.
`StampsExplainStatus` does not depend on what PATCH saw, since the stamp of the status it
writes is never taken from there. `ReopenedByStartOrStale`: a terminal status seen as it is
allows nothing but itself.

### AuditFetchProofs

For any names, addresses and limits. `FetchInv` adds to the types and to `OnlyPublicAsked`
where things may be: only who reads a body has one (`BodiesRead`), or who left its response
behind a decoder, nothing of the probes happens before the page is there (`PageFirst`), after
an abort nobody reads a live body (`AbortHeard`), and evidence is what a probe ended with and
is there when the provider is asked (`EvidenceLast`). A handler that is through has therefore
no open connection but those left behind a decoder: its probes have ended, or have not begun,
or have heard of the abort. `NothingAfterAbort` follows from the places where the code looks
at the signal.

### Only model-checked

Liveness: `JobsFinishUnlessHung`, `RunsSettleUnlessDisturbed`, `DueServed`,
`PaymentsGetRecorded`, `SettlesUnlessCut` (TLAPS does not handle fairness and ENABLED; the
safety half of the second is proved, as `NobodyLeavesRunsBehind`); and the two properties that
are violated.

## 6. Not modelled

* Project quota: one serializable transaction that counts and inserts. What keeps the limit
  is the database's isolation, which a model would assume; the same pattern with keys and
  months is in AuditEnqueue.
* Sessions, sign-in, email verification, download tokens, report access: a row or a
  signature looked up by token and compared with the clock. One call each, no step of
  another component in between that matters to it. (A verification token is looked at and
  marked used in two calls; used twice at once it verifies one address twice.)
* Rate limits: a counter in Redis with a local fallback. The other modules allow any
  number of requests, so no property of theirs rests on them.
* Audit computation (rules, scores, comparison, the content of the evidence, reports) and plain
  functions such as validators: pure functions of fetched pages whose values no other
  component looks at. They are long, table-driven, and covered by unit tests; a model
  of them would repeat their tables.
* What the fetches read (URL, page and provider answer parsing), mail, PDF, pages, blog
  content and translations, deployment and report scripts: I/O and presentation. They are
  most of the repository's lines, which is why the specifications cover a small share of
  it and nearly all code in which several actors write to one table.

## 7. Plan

1. MCLeadLifecycle among the runs, and the composition of LeadLifecycle with
   AuditEnqueue and OrderCheckout, which each have a part of what it says.
2. Two payment providers for one report, once a second one is implemented: pending orders
   are looked up per provider.
