-------------------------- MODULE CheckoutWebhook --------------------------
(***************************************************************************)
(* From a paid checkout session to a deep-audit job: the Stripe webhook    *)
(* (app/api/webhooks/stripe/route.ts, checkout-completed.ts), the          *)
(* operator's reconcile route, and the function both end in                *)
(* (ensure-deep-audit-job-queued.ts), for the sessions that buy the audit  *)
(* of one scan.                                                            *)
(*                                                                         *)
(* Stripe delivers an event at least once, two deliveries may run at the   *)
(* same time, and a request may fail or die between any two of its calls.  *)
(***************************************************************************)
EXTENDS Integers

CONSTANTS
  Sessions,       \* checkout sessions; stripe_session_id keys their payment
  Requests,       \* HTTP requests handled at one time
  NewConfig,      \* scan_runs.config as the insert writes it
  EmptyConfig,    \* a config without page_limit and crawl_pending
  NoSession,
  MaxDeliveries,  \* bound: deliveries of one event
  MaxReconciles,  \* bound: reconcile requests for one session
  MaxFailures     \* bound: requests that fail

ASSUME SessionsAssumption == NoSession \notin Sessions
ASSUME RequestsAssumption ==
  MaxDeliveries \in Nat /\ MaxReconciles \in Nat /\ MaxFailures \in Nat

VARIABLES
  stripe,      \* each session's checkout.session.completed event
  deliveries, reconciles, failures,
  payments,    \* sessions with a row in payments
  hasRun,      \* the scan has its scan_runs row
  config,      \* scan_runs.config
  delivered,   \* the scan has a deep_audit row in reports
  jobs,        \* messages sent to SCAN_QUEUE for each session
  receipts,    \* sessions whose checkout_received email is queued
  converted,   \* sessions whose buyer is suppressed for marketing
  req          \* what each request is doing

webhookVars == <<stripe, deliveries, reconciles, failures, payments, hasRun,
                 config, delivered, jobs, receipts, converted, req>>

counters == <<deliveries, reconciles, failures>>
rows == <<payments, hasRun, config, receipts, converted>>

-----------------------------------------------------------------------------
NoRequest == [at |-> "idle", from |-> "stripe", session |-> NoSession, seen |-> EmptyConfig]

Session(r) == req[r].session
RequestAt(r, label) == req[r].at = label
Continue(r, label) == req' = [req EXCEPT ![r].at = label]
Respond(r) == req' = [req EXCEPT ![r] = NoRequest]

\* Where a request goes when the job needs nothing more: the operator's
\* response is sent, the webhook goes on to the buyer's emails.
Queued(r) == IF req[r].from = "stripe" THEN Continue(r, "receipt") ELSE Respond(r)

WebhookInit ==
  /\ stripe = [s \in Sessions |-> "open"]
  /\ deliveries = [s \in Sessions |-> 0]
  /\ reconciles = [s \in Sessions |-> 0]
  /\ failures = 0
  /\ payments = {}
  /\ hasRun = FALSE
  /\ config = EmptyConfig
  /\ receipts = {} /\ converted = {}
  /\ req = [r \in Requests |-> NoRequest]

-----------------------------------------------------------------------------
\* The buyer pays.
Complete(s) ==
  /\ stripe[s] = "open"
  /\ stripe' = [stripe EXCEPT ![s] = "paid"]
  /\ UNCHANGED <<counters, rows, delivered, jobs, req>>

Accept(r, s, from) ==
  /\ RequestAt(r, "idle")
  /\ stripe[s] # "open"
  /\ req' = [req EXCEPT ![r] = [NoRequest EXCEPT !.at = "lookup", !.from = from, !.session = s]]

Deliver(r, s) ==
  /\ deliveries[s] < MaxDeliveries
  /\ Accept(r, s, "stripe")
  /\ deliveries' = [deliveries EXCEPT ![s] = @ + 1]
  /\ UNCHANGED <<stripe, reconciles, failures, rows, delivered, jobs>>

Reconcile(r, s) ==
  /\ reconciles[s] < MaxReconciles
  /\ Accept(r, s, "operator")
  /\ reconciles' = [reconciles EXCEPT ![s] = @ + 1]
  /\ UNCHANGED <<stripe, deliveries, failures, rows, delivered, jobs>>

\* Faulty variant: an event whose payment is there needs nothing more.
LookupDuplicate(r) ==
  /\ RequestAt(r, "lookup")
  /\ \/ Session(r) \in payments /\ Queued(r)
     \/ Continue(r, "insert_payment")
  /\ UNCHANGED <<stripe, counters, rows, delivered, jobs>>

\* The payment is looked up; an error of the read is not looked at.
LookupPayment(r) ==
  /\ RequestAt(r, "lookup")
  /\ \/ Session(r) \in payments /\ Continue(r, "report")
     \/ Continue(r, "insert_payment")
  /\ UNCHANGED <<stripe, counters, rows, delivered, jobs>>

\* Faulty variant: a unique violation is an error like another.
InsertPaymentOnce(r) ==
  /\ RequestAt(r, "insert_payment")
  /\ payments' = payments \cup {Session(r)}
  /\ IF Session(r) \in payments THEN Respond(r) ELSE Continue(r, "report")
  /\ UNCHANGED <<stripe, counters, hasRun, config, receipts, converted, delivered, jobs>>

\* A unique violation reads the row that is there, and goes on with it.
InsertPayment(r) ==
  /\ RequestAt(r, "insert_payment")
  /\ payments' = payments \cup {Session(r)}
  /\ Continue(r, "report")
  /\ UNCHANGED <<stripe, counters, hasRun, config, receipts, converted, delivered, jobs>>

-----------------------------------------------------------------------------
(***************************************************************************)
(* ensureDeepAuditJobQueued.                                               *)
(***************************************************************************)
FindReport(r) ==
  /\ RequestAt(r, "report")
  /\ IF delivered THEN Queued(r) ELSE Continue(r, "run")
  /\ UNCHANGED <<stripe, counters, rows, delivered, jobs>>

\* No row and an error of this read look the same.
ReadRun(r) ==
  /\ RequestAt(r, "run")
  /\ \/ /\ hasRun
        /\ req' = [req EXCEPT ![r].at = "write_config", ![r].seen = config]
     \/ Continue(r, "insert_run")
  /\ UNCHANGED <<stripe, counters, rows, delivered, jobs>>

\* Faulty variant: the config of a row that was not inserted is undefined.
InsertRunUnread(r) ==
  /\ RequestAt(r, "insert_run")
  /\ hasRun' = TRUE
  /\ config' = IF hasRun THEN config ELSE NewConfig
  /\ req' = [req EXCEPT ![r].at = "write_config",
                        ![r].seen = IF hasRun THEN NoSession ELSE NewConfig]
  /\ UNCHANGED <<stripe, counters, payments, receipts, converted, delivered, jobs>>

\* After a unique violation only the id of the row is read: the request goes
\* on with an empty config.
InsertRun(r) ==
  /\ RequestAt(r, "insert_run")
  /\ hasRun' = TRUE
  /\ config' = IF hasRun THEN config ELSE NewConfig
  /\ req' = [req EXCEPT ![r].at = "write_config",
                        ![r].seen = IF hasRun THEN EmptyConfig ELSE NewConfig]
  /\ UNCHANGED <<stripe, counters, payments, receipts, converted, delivered, jobs>>

\* The model policy is stamped on the config that was read, whatever was
\* written to the row since.
WriteConfig(r) ==
  /\ RequestAt(r, "write_config")
  /\ config' = req[r].seen
  /\ Continue(r, "send")
  /\ UNCHANGED <<stripe, counters, payments, hasRun, receipts, converted, delivered, jobs>>

SendJob(r) ==
  /\ RequestAt(r, "send")
  /\ jobs' = [jobs EXCEPT ![Session(r)] = @ + 1]
  /\ Queued(r)
  /\ UNCHANGED <<stripe, counters, rows, delivered>>

-----------------------------------------------------------------------------
(***************************************************************************)
(* The rest of the webhook.                                                *)
(***************************************************************************)
\* The upsert passes over an email that is queued already.
QueueReceipt(r) ==
  /\ RequestAt(r, "receipt")
  /\ receipts' = receipts \cup {Session(r)}
  /\ Continue(r, "suppress")
  /\ UNCHANGED <<stripe, counters, payments, hasRun, config, converted, delivered, jobs>>

Suppress(r) ==
  /\ RequestAt(r, "suppress")
  /\ converted' = converted \cup {Session(r)}
  /\ Continue(r, "respond")
  /\ UNCHANGED <<stripe, counters, payments, hasRun, config, receipts, delivered, jobs>>

\* 200: Stripe takes the event off its list.
Acknowledge(r) ==
  /\ RequestAt(r, "respond")
  /\ stripe' = [stripe EXCEPT ![Session(r)] = "acked"]
  /\ Respond(r)
  /\ UNCHANGED <<counters, rows, delivered, jobs>>

\* A call fails and the response is not a 200, the request dies, or its
\* response is lost.
Fail(r) ==
  /\ ~RequestAt(r, "idle")
  /\ failures < MaxFailures
  /\ failures' = failures + 1
  /\ Respond(r)
  /\ UNCHANGED <<stripe, deliveries, reconciles, rows, delivered, jobs>>

-----------------------------------------------------------------------------
\* What a request does on its own, the sending of the job apart.
Serve(r) ==
  \/ LookupPayment(r) \/ InsertPayment(r) \/ FindReport(r) \/ ReadRun(r)
  \/ InsertRun(r) \/ WriteConfig(r) \/ QueueReceipt(r) \/ Suppress(r)
  \/ Acknowledge(r)

Arrive == \E s \in Sessions, r \in Requests : Deliver(r, s) \/ Reconcile(r, s)

\* Stripe delivers an event again until it is answered with a 200.
Due == \E s \in Sessions, r \in Requests : stripe[s] = "paid" /\ Deliver(r, s)

\* The queue consumer, when the webhook is looked at on its own: a job that
\* was sent leads to a report or not.
ReportAppears ==
  /\ ~delivered /\ \E s \in Sessions : jobs[s] > 0
  /\ delivered' = TRUE
  /\ UNCHANGED <<stripe, counters, rows, jobs, req>>

WebhookNext ==
  \/ \E s \in Sessions : Complete(s)
  \/ Arrive
  \/ \E r \in Requests : Serve(r) \/ SendJob(r) \/ Fail(r)
  \/ ReportAppears

\* No job was sent, and no report is there, when the webhook is looked at on
\* its own.
WebhookStart ==
  /\ WebhookInit
  /\ delivered = FALSE /\ jobs = [s \in Sessions |-> 0]

WebhookSafety == WebhookStart /\ [][WebhookNext]_webhookVars

\* Stripe delivers until it is answered, and a request that nothing kills
\* runs on.  Nobody needs to pay, and no operator needs to reconcile.
WebhookFairness ==
  WF_webhookVars(Due) /\ \A r \in Requests : WF_webhookVars(Serve(r) \/ SendJob(r))

WebhookSpec == WebhookSafety /\ WebhookFairness

-----------------------------------------------------------------------------
WebhookTypeOK ==
  /\ stripe \in [Sessions -> {"open", "paid", "acked"}]
  /\ deliveries \in [Sessions -> 0..MaxDeliveries]
  /\ reconciles \in [Sessions -> 0..MaxReconciles]
  /\ failures \in 0..MaxFailures
  /\ payments \subseteq Sessions /\ receipts \subseteq Sessions /\ converted \subseteq Sessions
  /\ hasRun \in BOOLEAN /\ delivered \in BOOLEAN
  /\ config \in {NewConfig, EmptyConfig}
  /\ jobs \in [Sessions -> Nat]
  /\ req \in [Requests -> [at : {"idle", "lookup", "insert_payment", "report", "run",
                                 "insert_run", "write_config", "send", "receipt",
                                 "suppress", "respond"},
                           from : {"stripe", "operator"},
                           session : Sessions \cup {NoSession},
                           seen : {NewConfig, EmptyConfig}]]

(***************************************************************************)
(* An event Stripe was told is handled has a payment, a job on the queue   *)
(* or a report, the buyer's receipt, and a buyer who is no longer in the   *)
(* marketing sequences: about 200 being the last step on every path, and   *)
(* about what a failed attempt leaves for the next one.                    *)
(***************************************************************************)
AcknowledgedIsHandled ==
  \A s \in Sessions : stripe[s] = "acked" =>
    /\ s \in payments \cap receipts \cap converted
    /\ jobs[s] > 0 \/ delivered

(***************************************************************************)
(* A paid session is dealt with in the end, whatever an attempt that       *)
(* failed half-way, a concurrent delivery or the operator left behind:     *)
(* about the payment lookup and the unique violations not ending a retry   *)
(* early.  The attempts of the event outnumber the failures.               *)
(***************************************************************************)
PaidIsAcknowledged == \A s \in Sessions : (stripe[s] = "paid") ~> (stripe[s] = "acked")

\* "Default page count for new paid deep audits" (.dev.vars.example): the run
\* a purchase made carries the page limit it was created with.
RunKeepsPageLimit == hasRun => config = NewConfig

=============================================================================
