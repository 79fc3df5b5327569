# TLA+ models of GeoPulse

GeoPulse sells a "deep audit" of a web site. A visitor runs a free scan, pays
through Stripe, and some minutes later gets an email with a report. Between the
payment and the email lie a webhook that Stripe may call several times, a queue
that may deliver several times, a crawl cut into invocations, a mail provider,
and a database without transactions across calls. This directory holds TLA+
models of that path, the TLC runs that check them, and TLAPS proofs of what
matters most on it. Three parts that share its hazards but none of its state are
modelled next to it: the outbox of lifecycle emails, the publishing of
distribution jobs, and the subscriptions (of monitors and of workspaces).

Paths below are relative to the root of the repository.

## 1. Inventory

### 1.1 The system

A Next.js application and its background work run on Cloudflare Workers
(`workers/cloudflare-entry.ts`): HTTP requests, a cron handler, and consumers of
two queues and their dead-letter queues (`wrangler.jsonc`). State is kept in
Supabase (Postgres over REST: one call, one statement), in a KV store
(`SCAN_CACHE`), in R2 (report files), and at Stripe and Resend.

What makes the behaviour hard, throughout:

- queues and webhooks deliver **at least once**, in any order, and two deliveries
  of one thing may run at the same time;
- an invocation may be **killed between any two calls**, and a call may have had
  its effect although it reported an error (a timeout);
- rows are **read in one call and written in another**; JSON columns
  (`scan_runs.config`) are read, merged in memory and replaced as a whole;
- guards against doing things twice are unique keys, status columns, idempotency
  keys and KV marks, each checked and set in a call of its own.

### 1.2 Components

| component | state it keeps | operations | hard behaviour | correct when |
|---|---|---|---|---|
| **Deep-audit report queue** (`workers/queue/report-queue-consumer.ts`, `dlq-replay.ts`) | messages and attempts; `scans.status`, `reports` rows, KV mark `report:dlq-replay:<payment>` | check for a report, crawl, continue, render, mail, insert, retry, fail terminally; dead letter: notice, check of the mark, replay, mark | redelivery, two copies of a job, dead letters, a mail timeout, crashes | no paid job is lost silently; none is given up without its replay; a report row follows an accepted mail; a delivered scan is not shown as failed |
| **Chunked crawl** (`workers/scan-engine/deep-audit-crawl*.ts`) | `scan_pages`, `scan_runs.config.crawl_pending`, `coverage_summary` | recover, start, slice, save continuation, refuse, finalise, clear | crash inside a slice, config replaced as a whole, unchecked writes | no URL skipped by a continuation; a coverage summary is true; a stored continuation is usable |
| **Checkout webhook and reconcile** (`app/api/webhooks/stripe/route.ts`, `lib/server/stripe/checkout-completed.ts`, `ensure-deep-audit-job-queued.ts`, `app/api/admin/reconcile-deep-audit/route.ts`) | `payments`, `scan_runs`, messages sent, receipt email, suppression | look up and insert payment, find report, find or insert run, stamp policy, send job, queue receipt, suppress, respond | repeated and concurrent deliveries, failures half-way | a 200 means the work is done; every paid event gets a 200 |
| **Paid audit end to end** | the three above | the composition | webhook and crawl both rewrite `scan_runs.config` | an acknowledged purchase is not lost, and settles |
| **Lifecycle email queue** (`lib/server/lifecycle-email.ts`) | `lifecycle_email_deliveries` | enqueue, recover leases, claim, send, record, provider events | lease against a slow tick, unguarded updates, provider events out of order | one mail per row; a bounce is not overwritten; nothing to suppressed addresses |
| **Distribution publishing** (`lib/server/distribution-job-dispatcher.ts`, `workers/queue/distribution-job-queue-consumer.ts`, `lib/server/agent-loop-control.ts`) | `distribution_jobs`, `distribution_job_attempts`, messages | sweep, dispatch from queue or by an operator, claim, post, record, retry with backoff, dead letter, requeue by the agent | no claim: two dispatchers at once; a post with an unknown outcome; failures half way through the error path | retries end; a published job was posted, with its evidence; LinkedIn is not posted twice after a failure; no job waits for ever |
| **Monitor and workspace subscriptions** (`lib/server/monitor-subscription.ts`, `lib/server/stripe/subscription-handlers.ts`, `subscription-plan-sync.ts`, `billing/provision-workspace-for-subscription.ts`) | `monitoring_subscriptions`, `user_subscriptions`, `users.plan`, workspaces and accounts | Stripe events, seeding and re-pointing of monitors, plan, provisioning, welcome, audit sweep | events out of order and at the same time, unchecked errors, sweep without a claim | answered events leave what Stripe has; the plan is what is paid for; a checkout is stored; a month is mailed once |
| Recurring audits (`lib/server/recurring-audits.ts`) | schedules | sweep | as the monitor's | each due audit once |
| Agent work loops (`lib/server/agent-loop-control.ts`) | loop rows, state, attempts | find or create, advance | look-up and insert in two calls | one loop per subject; work in progress below the cap |
| Benchmark runs, schedules, spend (`lib/server/benchmark-*.ts`, `gpm-spend-guard.ts`) | runs, windows, month's spend | schedule, recover stale runs, charge | spend read before and written after a run | the cap holds; one run per window |
| Startup audit execution and repair agent (`lib/server/startup-*.ts`, `repair-agent/`) | plans, tasks, approvals, pull requests | approve, execute, report | calls to other services | no change without approval |
| Email campaigns and outreach (`lib/server/email-campaign-*.ts`, `outreach.ts`) | campaigns, recipients | prepare previews, send on schedule | suppression racing a send | nothing to a suppressed address |
| Guest purchases (`lib/server/link-guest-purchases.ts`) | owner of payments, scans, reports | link at a sign-in that finds unlinked payments | a report inserted after the link, a link cut short | the buyer sees their report |
| Free scan, rate limits, cron handler, runtime incidents, content and reels, buyer intelligence, dashboard | single rows or counters | request/response, sweeps, generation | read-then-put counters | - |

`PROJECT.json` lists them all with the status of each, and under `hazards` the
lines at which each kind of trouble bites.

### 1.3 How the parts interact

```
 Stripe --event--> webhook --SCAN_QUEUE.send--> main queue --> consumer --> Resend
   ^  200              |        ^   ^                |  |  \
   +-------------------+        |   +-- partial -----+  |   +--> reports row
 operator --reconcile----------/    crawl: rest of job  |
                       |                                v max_retries
                       v                           dead-letter queue
              scan_runs.config <--- crawl               |
              (page_limit, crawl_pending)    one replay |
                                      main queue <------+
```

Shared state: the messages; `reports` (the webhook stops when there is a report,
the consumer acknowledges when there is one); `scan_runs.config` (written by the
webhook's model policy and by the crawl's continuation); the replay mark (read
by the main consumer to decide whether a failure is final).

## 2. Plan

Order, most important first. Steps 1 to 8 are in place.

1. `ReportQueue`: the job on the queues; `ReportQueue_proofs`.
2. `CrawlPlan` (arithmetic of chunks), `CrawlPromise` (abstract specification),
   `DeepAuditCrawl` (the crawl, refining it); `DeepAuditCrawl_proofs`.
3. `CheckoutWebhook`.
4. `PaidAudit`: the three composed; `PaidAudit_proofs`.
5. Findings: the runs that contradict a statement of the repository.
6. `LifecycleEmail`: rows, leases, claims by compare-and-set, a sweep that outlives
   its lease, provider events in any order.
7. `DistributionPublish`: queue, sweep, operator and agent against one job;
   `DistributionPublish_proofs`.
8. `Subscriptions`: monitor and workspace rows under reordered events.
9. `AgentLoop`, then benchmark schedules with the spend cap.
10. `PaidAudit` extended with guest purchases.
11. Proofs for each of these: `CheckoutWebhook_proofs`, `LifecycleEmail_proofs`,
    `Subscriptions_proofs` and `SubscriptionsAnswered_proofs` are in place; those of 9
    and 10 come with their modules.

## 3. Modules

| module | models | role |
|---|---|---|
| `ReportQueue.tla` | consumer of both queues, platform delivery | specification, properties, parts of the inductive invariant |
| `MCReportQueue.tla` | - | instance for TLC: one scan, symmetry of messages and invocations |
| `ReportQueue_proofs.tla` | - | proofs, any number of payments, scans, messages, invocations |
| `CrawlPlan.tla` | `deep-audit-crawl-state.ts`, clamps, `planDeepAuditCrawlRecovery` | pure operators |
| `CrawlPromise.tla` | what the crawl promises | abstract specification |
| `DeepAuditCrawl.tla` | crawl and the recovery decision of the consumer | specification, refinement mapping |
| `DeepAuditCrawl_proofs.tla` | - | proofs, any site, limit, chunk size |
| `CheckoutWebhook.tla` | webhook, reconcile, `ensureDeepAuditJobQueued` | specification, properties |
| `CheckoutWebhook_proofs.tla` | - | proofs, any sessions, requests, limits |
| `PaidAudit.tla`, `MCPaidAudit.tla` | the composition and its instance | specification, properties |
| `PaidAudit_proofs.tla` | - | proofs, any purchases, requests, messages, invocations, limits |
| `LifecycleEmail.tla` | `lib/server/lifecycle-email.ts` | specification, properties |
| `LifecycleEmail_proofs.tla` | - | proofs, any emails, sweeps, requests, limits |
| `DistributionPublish.tla` | dispatcher, queue consumer, sweep, the agent's requeue | specification, properties |
| `DistributionPublish_proofs.tla` | - | proofs, any jobs, dispatchers, messages, limits |
| `Subscriptions.tla`, `MCSubscriptions.tla` | Stripe handlers of subscriptions, plan, provisioning, audit sweep; the instance | specification, properties |
| `Subscriptions_proofs.tla` | - | proofs, any subscriptions, invocations, sweeps, limits |
| `SubscriptionsAnswered_proofs.tla` | - | the same, continued: rows and plan against Stripe |

Definitions marked "faulty" in a module are variants of the definition that
follows or precedes them, each a plausible slip in that code; no specification
uses them. They show that each property depends on the code: with the faulty
variant in place the property is violated.

### 3.1 ReportQueue

An invocation of the queue handler is a consumer `c` with a program counter
`pc[c]` and the message it holds. Labels are the points at which the code calls
a store, the queue or the provider:

| label | code | action |
|---|---|---|
| `check` | existing-report check at the top of `processReportJob` | `CheckReport` |
| `crawl` | recovery, crawl, pages read | `CrawlComplete`, `CrawlPartial` |
| `requeue` | `SCAN_QUEUE.send(rawBody)` of a partial crawl | `Requeue` |
| `render` | scores, `scans` update, QA gate, upload | `Render`, `RenderThrows` |
| `email` | Resend, 15 s timeout, idempotency key | `SendEmail`, `EmailTimesOut` |
| `insert` | insert into `reports` | `InsertReport` |
| `failed` | `persistReportJobFailure` | `RecordFailure` |
| `dlq_mail`, `dlq_check`, `dlq_send`, `dlq_put` | `handleDlqMessage`, `replayReportJobFromDlq` | `DlqNotify`, `DlqCheckMark`, `DlqSend`, `DlqPutMark`, `DlqThrow` |
| `ack`, `retry` | `msg.ack()`, `msg.retry()` | `Ack`, `Retry` |

`Throw` is an exception at any of these calls; `Crash` kills the invocation
between any two. A message that is not acknowledged is redelivered with its
attempt counter up by one, then moves to the dead-letter queue, then is
deleted (`Redelivered`). `ended` is a history variable: how copies of a job were
given up (`terminal`: the handler recorded a failure; `suppressed`: the dead
letter found its mark; `exhausted`: the dead letter was deleted by the platform).

A batch of up to five messages is one message per invocation: messages of a batch
are handled one after the other with no shared state, and what an invocation
that dies does to the rest of its batch (an attempt more) is `Receive` and
`Crash`.

### 3.2 CrawlPlan, DeepAuditCrawl, CrawlPromise

URLs are `1..Site`, the ordered list the code builds; 1 is the seed.
`pages[u]` is the status of the URL's row in `scan_pages`; `"lost"` is a failed
page whose unchecked insert failed. `config` is the JSON column (0 stands for no
`page_limit`). Each worker goes `plan` (count fetched pages,
`planDeepAuditCrawlRecovery`), `clear`, `load` (`runDeepAuditCrawl` reads the
run again), `start`, `slice` (one URL per step), then `read_config`,
`save_pending` (two calls), or `finalize`, `read_clear`, `write_clear`,
`read_pages`.

`CrawlPromise` is the abstract crawl: URLs get dealt with, fetched pages stay,
work is thrown away only while nothing was fetched or summarised, and a
summary over n URLs is written only when all n were dealt with. `DeepAuditCrawl`
maps `fetched`, `dealt` and `planned` to its rows.

### 3.3 CheckoutWebhook

A request (a delivery of Stripe or an operator's reconcile) goes `lookup`,
`insert_payment`, `report`, `run`, `insert_run`, `write_config`, `send`,
`receipt`, `suppress`, `respond`: one label per call. The reads whose `error` the
code does not look at (`LookupPayment`, `ReadRun`) may find nothing although the
row is there. `Fail` ends a request at any label. `delivered` and `jobs` are
variables of the module so that the composition can substitute the queue's
state for them; on its own, `ReportAppears` stands for the consumer.

### 3.4 PaidAudit

`PaidAudit` extends `ReportQueue` and `DeepAuditCrawl` and instantiates
`CheckoutWebhook` with `jobs <- sent`, `delivered <- Reported(TheScan)` and the
shared `config`. An invocation at label `crawl` is a worker; `CrawlEnds` ties
the outcome of the crawl to the next step of the job; a crash ends both.

### 3.5 LifecycleEmail

`row[d]` is a row of `lifecycle_email_deliveries`, all of one recipient. Timestamps
are relative to now: a row that is being sent has an `age` (now minus
`last_attempt_at`), a row to be sent has a `wait` (`next_attempt_at` minus now). A
claim stamps the row with the time the sweep *began*, as the code does, so the
row's age starts at the sweep's. Bounces and complaints are one kind, since
the code treats them alike.

A sweep (`processLifecycleEmailQueue`) has one label per call:

| label | code | action |
|---|---|---|
| `idle` | recovery of expired leases | `Start` |
| `select` | due rows, oldest first, up to the batch | `Select` |
| `next` | compare-and-set of the status | `Claim`, `ClaimLost`, `Finish` |
| `check` | suppression, opt-out, template | `CheckEligibility` |
| `send` | Resend with the row's idempotency key | `Send`, `SendFails` |
| `sent` | update to `sent` with the message id | `RecordSent` |
| `log` | row in the event table | `LogOutcome` |
| `failed` | `catch`: retry with backoff or fail | `RecordFailure` |

An event request (`reconcileResendLifecycleEvent`) goes `Matched` (row found by
message id, status read), `update`, `suppress`, `respond`. The updates whose error
the code does not look at may leave the row as it was (`Fault`). `claims`,
`mailed`, `stopped` and `answered` are history variables, and so are the fields
`warned` (the recipient was blocked at the claim, and has been since) and
`blind` (the read of the suppressions failed) of a sweep.

### 3.6 DistributionPublish

`job[j]` is the status of a row of `distribution_jobs`; a scheduled job whose time
has come counts as `queued`, since the sweep and the dispatcher treat both
alike, and a failed job whose error says that the retries ran out is `exhausted`,
since the agent's regular expression tells it apart. A dispatcher `d` is an
invocation of the queue consumer or an operator's request, `run[d]` what it has
read and where it is:

| label | code | action |
|---|---|---|
| `idle` | `dispatchDistributionQueueBatch`, `dispatchDistributionJobs`: the job is read | `Receive`, `ReceiveDead`, `DispatchDirectly` |
| `claim` | status to `processing`, not a compare-and-set | `Claim` |
| `prepare` | LinkedIn's check of the status read, asset, token, media; the attempt's number | `Prepare` |
| `publish` | the provider's call | `Publish` |
| `record`, `finish` | the row of the attempt, then `published` | `RecordSuccess`, `MarkPublished` |
| `list`, `note`, `settle` | `catch`: count the attempts, insert a row, schedule again or fail | `ListAttempts`, `RecordError`, `Settle` |
| `ack` | the message is acknowledged, whatever the outcome | `Ack` |
| `dead_note`, `dead_fail` | `handleDistributionDlqMessage` | `DeadRecord`, `DeadFail` |

Rows of attempts are numbered by a count of the rows and unique in the number, so
`attempts[j]` is both their number and the highest one. A call that fails may
have had its effect (`Call`). `Look` and `Requeue` are the two halves of the
agent's remediation (`campaign-chief-of-staff.ts`: the list of stalled jobs is
loaded, then each is queued). `rescheduled`, `posts` and `disturbed` are history
variables. A retry is allowed for errors that pass (`transient`); LinkedIn's
unknown outcomes are not (`TransientPost`).

### 3.7 Subscriptions

One customer, so a user, an email address and a monitored site. `stripe[s]` is the
status at Stripe, `events` what Stripe has not had a 200 for; each change emits
the events Stripe sends for it (`Emitted`), and an invocation takes any of them, as
often as it likes until one is answered. Monitor rows are kept in
`monitor`: the key of a row is not the subscription, as a row may be pointed at another one
(`Point`). Workspace rows are `row[s]`, with the workspace or account they name in
`link[s]`.

An invocation goes through one label per call: `retrieve`, `seek`, `insert`,
`resolve`, `point` (checkout of a monitor), `route`, `locate`, `write` (other events
of monitors), `upsert`, `cancel`, `owner`, `set` (rows of workspaces), `load`, `save`
(the plan), `provision`, `create`, `join`, `link`, `welcome`, and `notify`, `answer`.
Errors the code throws end it with 500 (`Throw`); errors nobody looks at
are steps that go on and mark the subscription as `disturbed` (`Unseen`), as do
events of one subscription that are handled at the same time, or after a newer one
was answered: the handlers compare no times, so what they leave then depends on
the order, and no document promises otherwise. The sweep
(`runDueMonitorAudits`) is `Select`, then `Audit` and `Advance` for each row;
dates are `unarmed`, `later` or `due`, and a month passes by `ComeDue`. Sweeps may
overlap, and a row is claimed by none of them: `shared` records the rows that two
had in hand at one time (`InHand`: on the list, or mailed and not yet advanced).

## 4. Runs

| run | instance | shows |
|---|---|---|
| `report_queue_concurrent` | 1 payment, 3 message slots, 2 invocations, 2 sends, 1 partial crawl, 2 replays | `TypeOK`, `NoSilentLoss`, `GiveUpOnlyAfterReplay`, `DeliveredMeansMailed`, `DeliveredIsComplete`, `DuplicatesWereInFlight` under full interleaving of two copies of a job |
| `report_queue_serial` | a payment and a campaign preview of one scan, attempt limits of `wrangler.jsonc` | `OneReportPerScan`, `DeliveredMeansMailed`, and the liveness property `JobSettles` |
| `deep_audit_crawl` | 8 URLs, limit 7, chunks of 3, default limit 4 | `PendingIsUsable`, `ContinuationSkipsNothing`, `CrawlKeepsPromise` (refinement) |
| `checkout_webhook` | 2 sessions, 2 requests, 2 deliveries, 1 reconcile, 1 failure | `AcknowledgedIsHandled`, liveness `PaidIsAcknowledged` |
| `paid_audit` | 1 purchase, 2 deliveries, 1 failure, crawl of 2 URLs in chunks of 1 | `AcknowledgedIsNotLost`, `CoverageIsHonest`, `ContinuationSkipsNothing`, action property `WorkStays`, liveness `PurchaseSettles` |
| `lifecycle_email` | 1 email, 2 sweeps that may overlap, 1 event request, 1 call that fails | `ClaimsAreLeased`, `GivenUpAfterAllAttempts`, `SuppressedIsNotMailed`, `BounceSuppresses`, liveness `EmailSettles` |
| `distribution_publish` | 1 job of any provider, a queue consumer and an operator, 1 message slot, 2 calls or invocations that fail, 1 requeue by the agent | `RetriesAreBounded`, `PublishedIsEvidenced`, `LinkedInPostsOnce`, liveness `JobComesToAnEnd` |
| `subscriptions` | 2 subscriptions of four kinds of customer, 2 invocations of the webhook, 2 sweeps that may overlap, 1 fault | `AnsweredMeansTrue`, `PlanIsPaidFor`, `MonthIsMailedOnce`, action property `SeedIsStored` |
| `deep_audit_reuse`, `checkout_race`, `lifecycle_email_race`, `distribution_requeue` | expected violations | section 7 |

Each passing run also checks one type invariant where its module has one.
Deadlock is not checked: each system really stops once its buyers have bought
and every job has ended.

### 4.1 Bounds, and why they are enough

- `MaxSends = 2`: what producers send for one payment. Two copies give every
  pairwise interleaving; the code never looks at how many there are.
- `MaxReplays`: beyond it the send of a replay fails. Two exceed the one that the
  code means to send.
- `MaxChunks`: partial crawls of a scan; beyond it a crawl completes or throws.
  In `PaidAudit` it is 4 for a list of two URLs. An invocation that reached the
  bound there could not go on and would violate `PurchaseSettles`, so the
  property does not rest on the bound: it shows that the chunk budget keeps
  the crawl below it.
- `Messages`: slots. A send waits for, or fails for want of, a free one; with two
  sends and a continuation three are the most that are of use to one scan.
- `MaxAttempts`, `MaxRetries`, `DlqMaxRetries`: real values (3, 3, 1) in the serial
  run, 2, 2, 1 in the concurrent one, where the relation between them is the
  same; in `PaidAudit` retries are cut (the queue's own retries are checked in
  its own runs).
- `Site = 8`, limit 7, chunk 3: three slices, the last one short, a list cut by
  the limit; the default limit 4 is what a lost `page_limit` shrinks the run to.
- `MaxDeliveries`, `MaxReconciles`, `MaxFailures`: the attempts of an event
  outnumber the failures, or no retry would ever have to succeed.
- `LifecycleEmail`: the unit of time is the lease of five minutes (`Lease = 1`), and a
  sweep lives one unit at most (`TickTime = 1`): twenty emails with a timeout of 15 s
  each take as long as the lease, so a row can be taken back while its sweep
  is still at work. `MaxAttempts = 2` has both outcomes of a failure, the
  retry and the last one. One email and a batch of one: rows of different
  emails share only the recipient and the sweep's age, which the other sweep
  may have reached before its claim. `MaxFaults = 1`: one call or invocation
  fails in a behaviour; provider refusals and timeouts are not counted. Two
  sweeps are what `ClaimsAreLeased` is about (5.5); the other properties are proved
  for any number.
- `DistributionPublish`: `MaxAttempts = 2` (4 in the code) has a retry and a last
  attempt; `Deliveries = 2` (4 in the code) against `MaxFaults = 2` lets a message
  become a dead letter, and one that is then handled or dies again. One message
  slot: a second dispatcher at the same time is the operator's. Jobs share
  nothing. The theorems hold for any of these numbers. `distribution_requeue` has
  the code's limits.
- `Subscriptions`: `MaxTotal = 3` changes at Stripe, months and faults in all, of them
  `MaxChanges = 2` changes: a subscription that starts and changes, or two that start,
  with a fault or a month; one that starts, with two months, or a month and a fault.
  So the second change may arm the date of a row that comes due, an invocation may
  write a date it read before the month came, two sweeps may mail one row, a mail
  reported as failed may come again, and a sweep's list may outlive the date it was
  read from and a second month. Subscriptions, invocations and sweeps are symmetric
  (`Symmetric`; the portfolios are closed under it, `MCPortfolios`).
  `MaxOwed = 1`: at its next change a subscription has one unanswered event at
  most, which is enough for events of two changes to overlap or to swap.
  `MaxFaults = 1`. `Starts = {"active"}`: the other first statuses lead through the
  same handlers. The four portfolios are the ways in which two subscriptions
  can touch each other: one site, two bundles of different plans, one account used
  again, one bundle twice.

### 4.2 Fairness, and why the code justifies it

`JobSettles`: weak fairness of delivery (the platform keeps handing out
messages) and of each invocation's handler (an invocation that nothing kills
runs on). `Throw` is part of the handler, so fairness does not make calls
succeed: jobs settle because attempts are counted. `Crash` is never due.
`PaidIsAcknowledged`: Stripe delivers again while it has no 200 (weak fairness
of `Due`), and a request that nothing kills runs on; `Fail` is never due.
`EmailSettles`: the cron handler keeps starting sweeps and a sweep that nothing
kills runs on (weak fairness of `Start` and `Sweep`), and time passes (strong
fairness of `Pass`, which a sweep at the end of its time holds up until it
ends). The provider may refuse every email: attempts are counted. The sweep is
hourly; two of them overlap only when the platform starts one twice or one is
held up, which the model allows at any time. Nothing is assumed of the
provider's events.
`JobComesToAnEnd`: time passes (`ComeDue`), the cron handler keeps sending due jobs
(`SendDue`), a dispatcher that nothing kills runs on (`Dispatch`), and a waiting
message is delivered again and again while it is there to be delivered (strong
fairness, per message, of `Receive` or `ReceiveDead`: the consumer may be busy
with others in between). Posts need not succeed, and nothing is assumed of the
agent or of operators. The conclusion has three cases, of which one is a job left
`processing` by an error path that broke off: nothing in the code but the agent
picks that up.
`Subscriptions` is checked for safety only: Stripe stops delivering an event after
some days, so that nothing has to come to an end.
Nothing is assumed of buyers, producers and operators.

## 5. Proofs

The theorems hold for every value of the constants that meets the named
assumptions in the modules; TLC evaluates the assumptions in the runs.

### 5.1 ReportQueue_proofs

`Inductive`: `Spec => []IInv`. The properties are not inductive as they stand:

- `NoSilentLoss` needs that an invocation at work really holds a message with a
  job, of the right queue, and alone (`MessagesOK`, `HoldersOK`): only then does
  the message it deletes on `ack` belong to the job it has dealt with, and
  only then can an `ack` of one copy not remove the last copy of another;
- `GiveUpOnlyAfterReplay`, `DeliveredMeansMailed` and `DeliveredIsComplete` need
  what comes before a mark, an insert and a mail (`OrderOK`).

The proof of `NoSilentLoss` goes by the kinds of handler step (`HandlerSteps`): a
move inside a branch leaves the copy where it is unless it becomes spent, and a
copy becomes spent only where the job is reported (`CheckReport`,
`InsertReport`), given up (`RecordFailure`, `DlqCheckMark`) or copied
(`Requeue`, `DlqSend`). Theorems `TypeCorrect`, `NoLoss`, `GiveUp`, `Mailed` and
`Complete` follow.

`OneReport` holds while no two invocations are past the existing-report check for one
scan (`ScansApart`, a hypothesis of the theorem; two that are both find no report
and both insert). Its invariant adds that an invocation between the check and the
insert works on a scan without a report (`Unreported`): only an insert changes the
reports (`Inserting`), and the one invocation that inserts has left that stretch.

`OnlyCopiesInFlightDuplicate` says what holds with no hypothesis on overlap
(`DuplicatesWereInFlight`): a payment has no more reports than there are invocations
at one time. `FlightBound(p)`: the reports and the invocations that may still insert
one (`InFlight(p)`) are no more than the invocations. While nothing is reported that
counts invocations only; once something is, the check lets nobody in any more, and
an insert moves one invocation from the second number to the first. Cardinalities
need `ConsumersAssumption`: invocations at one time are finitely many.

### 5.2 DeepAuditCrawl_proofs

- `ContinuationAdvances`: `planPendingContinuation` for all sizes; an accepted
  continuation takes a slice that is not empty and stays inside the list.
- `CrawlTypeCorrect`: for any number of workers.
- `NothingSkipped`, `HonestCoverage`, `CrawlImplementsPromise`: for any number of
  workers, while no two crawls of the run are at work together (`OneCrawl`, a
  hypothesis of the theorems; otherwise the first is false, see section 7). The
  inductive invariant `CrawlIInv` adds `SeedOK` (a continuation or a non-empty summary
  begins with a fetched seed), `WayOK` (on the way to a slice, either a
  continuation is stored or the pages are as good as cleared), `SliceOK` (the URLs
  before `next` were tried) and `Continuable` (so were those before a stored
  continuation, over a seed that was fetched). `SeedOK` is why a failed
  page that is tried again, or a lost row, never un-does a summary: clearing needs
  that nothing was fetched. `CrawlIInv` says nothing that a second writer of the
  config could break, so that it serves for the whole purchase as well (5.8); the
  refinement also needs that a crawl begins again from nothing only (`StartsAfresh`),
  which holds of the crawl alone.
- `PendingIsAlwaysUsable`: `planPendingContinuation` refuses a continuation whose
  `chunks_processed` exceeds what the limit allows, so the invariant ties that count
  to the place (`ChunksCounted`): `next_index` is the count times the chunk size
  (`RunChunk`), in the stored continuation and in what a worker carries to it, and
  is below a total that is at most the page limit. It holds under `OneCrawl` and while
  the run has its page limit (`HasLimit`), which is what the property says too.
- `PendingSurvivesOverlap`: the same property with no hypothesis on overlap, where the
  default limit is no larger than that of the run (`DefaultFits`; in the code 10, and
  30 in `wrangler.jsonc`). A worker may then have read the config without a limit, and
  another may have restored the limit since. What the first stores is still counted in
  whole chunks (`WorkerWhole`): as long as both limits give the same chunk it is
  (`ChunksAgree`), and where they do not, the default limit is less than a chunk and
  leaves nothing to continue.

### 5.3 DistributionPublish_proofs

For any jobs, dispatchers, messages and limits, and with no bound on who
overlaps with whom:

- `PublishTypeCorrect`: `PublishTypeOK`, which says of messages that one that may be
  delivered has deliveries left.
- `PublishedIsAlwaysEvidenced`: inductive with `EvidenceInv`: a dispatcher past the post
  has posted, and past the row has its row. Nobody takes either back.
- `RetriesAreAlwaysBounded`: `RetryInv` says that the number a dispatcher holds is
  one more than the rows at most, and that reschedules made, plus dispatchers
  about to make one (`Retrying(j)`, a finite set counted by cardinality), are
  no more than the rows and stay below `MaxAttempts`. The count works because
  only a row that could be inserted leads to a reschedule, and the number in it
  is below the limit.
- `LinkedInAlwaysPostsOnce`: `OnceInv` says of a job that was not disturbed that one
  dispatcher at most is at work on it, that one about to post has posted nothing,
  and that a posted job is not waiting: its status is `processing` or final, and
  so the next dispatcher is `stale` and refuses.

### 5.4 CheckoutWebhook_proofs

`WebhookTypeCorrect` and `AcknowledgedIsAlwaysHandled`, for any sessions and any
number of requests, deliveries, reconciles and failures. `AcknowledgedIsHandled` is
not inductive: a request at `respond` could have nothing behind it. `WebhookIInv`
adds `AtLabel(r)`, which says for each label of a request which rows, messages
and mails it has behind it; no step of another request takes any of them back
(`NothingUndone`).

### 5.5 LifecycleEmail_proofs

For any emails, sweeps at one time, event requests and limits. `Shape` is the
type of the state without ages and waits; two lemmas say what the steps of a
sweep and the other steps do to rows (`RowSteps`, `OtherRowSteps`), two what they
do to sweeps (`TickSteps`, `OtherTickSteps`).

- `AnsweredBounceIsSuppressed`: a request stands at the answer to a bounce only
  behind the suppression (`AnswerIsBehind`).
- `WarnedSendIsBlind`: a sweep is warned only while the recipient is blocked, and so
  the check sees it.
- `FailedIsTried`: the attempt number of a row, of a selection and of a sweep at work
  is never more than the claims made of that row (`Tried`), whichever of the
  overlapping sweeps wrote it.
- `EmailTypeCorrect`: the type with ages and waits. The bound of a wait is a power of
  two in the number of attempts, which no installed prover can compute;
  `PowersAssumption` states the two facts of `^` that are used, and TLC evaluates it.
- `ClaimsAreAlwaysLeased`: while two sweeps at most are at work at one time
  (`TwoSweeps`, a hypothesis of the theorem). `ListsOK` says that a sweep's
  list names each row once, and only rows that are there. `LeaseOK` says of a row that
  a sweep works on that its stamp is no older than the sweep, that it is not to be
  sent again before the sweep is a lease old, and that another sweep has it on its
  list only if it began a lease later. The claim is a compare-and-set on the status
  alone, and a sweep that lost its lease still writes its outcome: with three sweeps, that
  write puts the row back while the second works on it, and the third claims it. TLC
  finds that with three, so that the hypothesis is needed.

### 5.6 Subscriptions_proofs

For any subscriptions, invocations of the webhook and sweeps at one time, and
limits; of what a customer may subscribe to only the kinds are assumed
(`PortfoliosAssumption`), and of first statuses that they are live or incomplete.

- `SubscriptionTypeCorrect`: by `SubIInv`, which adds to the type what an invocation
  has behind it (`CallFine`) and that a row that a sweep lists, or an invocation
  is about to write, is in use and stays so.
- `SeedIsAlwaysStored`: an invocation of a checkout is past its insert or update only
  when a row carries the subscription (`Stored`), and a row never leaves a
  subscription without leaving it disturbed (`Kept`).
- `MonthIsAlwaysMailedOnce`, for any number of overlapping sweeps (finitely many,
  `SweepsAssumption`), in two halves. A row that no two sweeps had in hand at one time
  is mailed once in a month, and once more for each fault: `HandsOK`, an invariant of
  the specification, says that one sweep has it in hand at most (`HandedOnce`), and that
  while a mail may still come (`ToBeMailed`: the row is on a list, or due, or its mail
  was reported as failed) there were no more mails than faults. For a row that two had
  in hand, mails are charged to sweeps (`Charge(r)`): the
  mails of a row, the sweeps that may still mail it (`Mailing`), and, for each
  sweep whose mail was reported as failed, as many as there are sweeps (`Failed`). A
  sweep that mails leaves the second number for the first; a fault pays for one that
  enters the third, which is used up when it makes the row due and every sweep may
  mail it once more. The webhook makes no row due
  (`CallsMakeNothingDue`): it arms a row for the next month only, so that it never
  adds to the list. Two sweeps that both read the row while it is due do both mail it
  (`monitor-subscription.ts:372` reads, mails, then advances; section 7), so that the
  factor is needed for such rows, and for no others.

### 5.7 SubscriptionsAnswered_proofs

Under the same assumptions.

- `AnsweredIsAlwaysTrue`: when every event of an undisturbed subscription is answered,
  its row is live exactly if it is live at Stripe, and a live one that is not a
  monitor has its workspace. The invariant of `SubscriptionsStep` says nothing of
  rows that are wrong because an event is still to come; `AnswerIInv` does. It
  follows the newest change at Stripe whose event is pending (`Pending`): until it is
  answered a row may say anything (`Believed`), and it is answered only by an
  invocation that has written what it says. Its parts: what is pending agrees with
  Stripe (`EventsFine`); an invocation on an undisturbed subscription is the only one and
  its event is pending and not late (`Alone`); it is at a label its event leads to
  (`OnItsWay`); what it has passed is written (`Told`); and the rows say what Stripe says,
  or an event is pending (`RowsTrue`). The steps of other invocations leave the rows of
  an undisturbed subscription alone (`Elsewhere`), so that each lemma is about one
  subscription only.
- `PlanIsAlwaysPaidFor`: when every event is answered and none overlapped another, the
  plan is the best of what is live at Stripe. `PlanIInv` says that the plan is the
  best of the live rows (`Right`) or an event is pending whose handler writes the plan
  (`Owing`); that one invocation at most is at work on workspaces (`Sole`, which is what
  `raced` records), so that no row changes between the computation of the plan and its
  update (`Planned`); and that monitors and workspaces keep to their own tables
  (`MonitorsApart`, `Apart`), whatever overlaps. A handler that throws between the row
  and the plan leaves its event pending. With the first theorem the live rows are
  what is live at Stripe.

### 5.8 PaidAudit_proofs

For any purchases, webhook requests at one time, messages, invocations and limits.

- `AuditImplementsQueue`: every step of the composition is a step of `ReportQueue` or
  leaves its variables alone (`AuditStepsTheQueue`): the webhook is one of the
  producers, and the crawl decides between outcomes that `ReportQueue` leaves open.
  The theorems of `ReportQueue_proofs` therefore hold of the composition.
- `AcknowledgedIsNeverLost`: `AuditIInv` says that a request at the mail or the answer,
  and a purchase acknowledged, have a message sent or a report behind them
  (`Answered`); `NoSilentLoss`, which the composition inherits, does the rest.
- `PurchaseIsHandled`: the promise of `CheckoutWebhook` holds of the composition, though
  it is no refinement of it: the crawl writes the config that the webhook writes too.
  `HandledInv` says of a request by its label what rows and messages it has behind
  it (`Behind(r)`), and the crawl and the queue take none of them back (`RowsStay`).

In the composition the crawl is not the only writer of the config: a request that
handles the purchase once more reads it, adds the page limit and writes it back,
and so may put an older continuation back, or an empty config. Two things that hold
of the crawl alone do not hold then, and TLC shows it with two requests:
`StartsAfresh`, and with it `CrawlKeepsPromise`. A crawl may begin again over fetched
pages, and one whose seed robots.txt disallows by now writes a summary of 0 over a
true one. What holds instead:

- `PurchaseSkipsNothing`, `PurchaseCoverage`: under `OneCrawl`, whatever a request puts
  back. A continuation that was valid once stays so (`StaysContinuable`), so the
  invariant says it of every copy of the config, the requests' ones included.
- `PurchaseKeepsItsWork` (`WorkStays`): under `OneCrawl`, no step loses a fetched page or,
  once a page was fetched, a URL that was dealt with. This is what the crawl's promise
  comes to for the buyer.
- `PurchaseContinues`: `PendingIsUsable` with no hypothesis on overlap, of crawls or of
  requests, under `DefaultFits`: every copy of the config holds whole chunks.
- `PurchaseHasOneReport`: under `ScansApart`, one hypothesis on the queue that implies
  `OneCrawl`: one report per scan, with a true coverage.

### 5.9 Model-checked only

Liveness (`JobSettles`, `PaidIsAcknowledged`, `PurchaseSettles`, `EmailSettles`,
`JobComesToAnEnd`): it rests on fairness, hence on ENABLED, which is out of this
prover's reach. Every safety and action property of the passing runs is the
conclusion of a theorem.

## 6. Abstractions and what is left out

- Contents of reports, scores, pages and mails. Rendering is one step that
  may throw.
- Messages that do not parse, or whose scan is gone: acknowledged, no effect.
  v1 messages, which create their own `scan_runs` row.
- The ordered URL list is the same on every start of one run and begins with
  the seed (`prioritizeUrlsBySection` puts it first). A restart happens only
  when nothing was fetched. A seed that redirects to a path robots.txt
  disallows is not covered.
- Steps after the report row (evaluation rewrite, Slack): best effort, in
  try/catch.
- KV is read as last written or, for the main consumer, as an error that reads
  as "not replayed". Its expiry and eventual consistency are left out.
- A suppressed dead letter leaves `scans.status` at `queued`; the models record it
  as an ending and promise no status for it.
- A report of a campaign preview on the same scan settles a paid job of that scan
  (`CheckReport` looks for any report of the scan).
- Lifecycle emails: digests and reminders (they only enqueue), edits of templates,
  replies to sales mails, a provider's answer without a message id. An event
  that arrives before the message id is stored gets a 200 and is lost
  (`Unmatched`). An eligibility read that fails counts as eligible, as in the code:
  `SuppressedIsNotMailed` says so (`blind`).
- Distribution: callbacks of reels that a review holds back, the refusal of copies
  that were published before (a failure in `Prepare`), the token's row and its refresh
  (may fail), uploads, the publication proof and its reconciler, the texts.
  Statuses `draft` and `cancelled` are never dispatched. No provider answers
  `queued`.
- Subscriptions: the trial reminder, the marketing conversion, period dates, analytics
  events, what the emails say, customers of several addresses or sites, the healing
  of rows without a workspace at log-in (`startup-workspace-ensure.ts`). A live
  row for the same bundle that Stripe has live twice is refused by a unique key for
  ever, and that event is never answered: `AnsweredMeansTrue` says nothing of it.
- The components marked `not_modelled` in `PROJECT.json`, with the reason there.

## 7. Findings

The first four are runs with an expected violation of what a comment, test or
documentation line says; the others were met on the way.

- `ReportsUseFinishedCrawls` (`deep_audit_reuse`): the test
  `report-queue-consumer.test.ts:24` "reuses a completed crawl"; fetched pages
  without a continuation are also what a worker that died in its first slice
  leaves, and the retry reports on them. What still holds:
  `CoverageIsHonest` (no summary is written for such a run).
- `RunKeepsPageLimit` (`checkout_race`): the delivery that loses the insert of the
  run writes an empty config over `page_limit` and `render_mode`; the crawl then
  falls back to its default (`.dev.vars.example:87`).
- `BounceEvidenceStays` (`lifecycle_email_race`): the test `lifecycle-email.test.ts:24`
  "never lets a late delivered event overwrite bounce or complaint evidence"; the
  rule looks at the status read before, and the update (`lifecycle-email.ts:204`) is
  not guarded by it, so a delivered event handled at the same time overwrites the
  bounce. What still holds: `BounceSuppresses`.
- `LinkedInFailsClosed` (`distribution_requeue`): "fails closed for stale LinkedIn jobs"
  (`distribution-job-dispatcher.test.ts:210`) and the error "Reconcile the Company
  Page before creating a replacement job" (`distribution-job-dispatcher.ts:1593`)
  leave a post with an unknown outcome to a person. The agent queues failed jobs
  again whose error matches `/timeout|network|429|5\d\d|overdue|processing/i`
  (`agent-loop-control.ts:992`), and these errors match ("already processing",
  "network interruption"): the job is posted again. What still holds, and is proved:
  `LinkedInPostsOnce` for jobs the agent leaves alone.
- Of the replay of dead letters `dlq-replay.ts:17` says "one guarded replay". It is sent
  before the mark is put, so a failed put or a crash in between replays a payment
  twice. What still holds is proved: `GiveUpOnlyAfterReplay`.
- `report-queue-consumer.test.ts:17` "continues a chunked crawl without deleting its
  completed pages": count and delete are two calls, so that it holds only while
  crawls of a run do not overlap, for which it is proved (`NothingSkipped`, and
  `PurchaseKeepsItsWork` of the whole purchase).
- A dead letter of a distribution job writes `failed` over whatever status the job has,
  `published` included (`distribution-job-queue-consumer.ts:89`).
- A due monitor is not claimed (`monitor-subscription.ts:372`): two sweeps that overlap
  both mail its month. No document excludes it. What holds, and is proved:
  `MonthIsMailedOnce`, once but for faults unless two sweeps had the row in hand.
- The handlers of subscription events compare no times, and a monitor row is written
  by its id after it was read: an invoice paid that arrives after the deletion, or a
  checkout that points the row at another subscription in between, leaves a status
  that no later step corrects (`monitor-subscription.ts:271`, `:607`). No document
  promises otherwise, and such subscriptions are `disturbed`: what holds for the
  others, and is proved, is `AnsweredMeansTrue`.
