----------------------------- MODULE PaidAudit -----------------------------
(***************************************************************************)
(* The paid audit from Stripe to the report: CheckoutWebhook sends the     *)
(* jobs that ReportQueue delivers, a job's crawl is a worker of            *)
(* DeepAuditCrawl, and webhook and crawl share the config column of the    *)
(* scan_runs row.  One scan, bought by the payments.                       *)
(***************************************************************************)
EXTENDS ReportQueue, DeepAuditCrawl

CONSTANTS Requests, NoSession, MaxDeliveries, MaxReconciles, MaxFailures

VARIABLES stripe, deliveries, reconciles, failures, payments, hasRun,
          receipts, converted, req

TheScan == CHOOSE s \in Scans : TRUE

W == INSTANCE CheckoutWebhook
       WITH Sessions <- Payments, jobs <- sent, delivered <- Reported(TheScan),
            NewConfig <- [page_limit |-> PageLimit, crawl_pending |-> NoPending],
            EmptyConfig <- LostConfig

ASSUME OneScanAssumption == Workers = Consumers /\ Scans = {TheScan}

crawlOnly == <<pages, coverage, report, at, work>>
webhookOnly == <<stripe, deliveries, reconciles, failures, payments, hasRun,
                 receipts, converted, req>>
auditVars == <<vars, crawlVars, webhookOnly>>

AuditInit ==
  /\ Init
  /\ pages = [u \in Urls |-> "none"]
  /\ coverage = NoCoverage
  /\ report = NoReport
  /\ at = [w \in Workers |-> "idle"]
  /\ work = [w \in Workers |-> NoWork]
  /\ W!WebhookInit

-----------------------------------------------------------------------------
(***************************************************************************)
(* An invocation in its crawl is a worker; what the crawl comes to decides *)
(* how the job goes on.                                                    *)
(***************************************************************************)
CrawlStep(c) ==
  /\ pc[c] = "crawl"
  /\ Begin(c) \/ Crawl(c)
  /\ UNCHANGED <<vars, webhookOnly>>

CrawlEnds(c) ==
  /\ \/ at[c] = "built" /\ CrawlComplete(c)
     \/ at[c] = "partial" /\ CrawlPartial(c)
     \/ at[c] = "failed" /\ pc[c] = "crawl" /\ Throw(c)
  /\ Return(c)
  /\ UNCHANGED webhookOnly

\* A store fails in the middle of the crawl, or before it began.
CrawlThrows(c) ==
  /\ pc[c] = "crawl" /\ Throw(c)
  /\ \/ Abandon(c)
     \/ at[c] = "idle" /\ UNCHANGED crawlVars
  /\ UNCHANGED webhookOnly

HandleOutsideCrawl(c) ==
  /\ pc[c] # "crawl" /\ Handle(c)
  /\ UNCHANGED <<crawlVars, webhookOnly>>

HandleJob(c) == CrawlStep(c) \/ CrawlEnds(c) \/ CrawlThrows(c) \/ HandleOutsideCrawl(c)

CrashJob(c) ==
  /\ Crash(c)
  /\ IF at[c] = "idle" THEN UNCHANGED crawlVars ELSE Abandon(c) \/ Return(c)
  /\ UNCHANGED webhookOnly

DeliverJob == Deliver /\ UNCHANGED <<crawlVars, webhookOnly>>

-----------------------------------------------------------------------------
Buy == UNCHANGED <<vars, crawlVars>> /\ \E s \in Payments : W!Complete(s)

RequestArrives == UNCHANGED <<vars, crawlVars>> /\ W!Arrive

EventIsDue == UNCHANGED <<vars, crawlVars>> /\ W!Due

RequestFails(r) == UNCHANGED <<vars, crawlVars>> /\ W!Fail(r)

\* A request on its own; only it may change the run's config besides the crawl.
ServeRequest(r) == UNCHANGED <<vars, crawlOnly>> /\ W!Serve(r)

SendJob(r) ==
  /\ req[r].at = "send"
  /\ Enqueue(req[r].session)
  /\ UNCHANGED crawlVars
  /\ W!SendJob(r)

HandleRequest(r) == ServeRequest(r) \/ SendJob(r)

-----------------------------------------------------------------------------
AuditNext ==
  \/ Buy \/ RequestArrives
  \/ \E r \in Requests : HandleRequest(r) \/ RequestFails(r)
  \/ DeliverJob
  \/ \E c \in Consumers : HandleJob(c) \/ CrashJob(c)

(***************************************************************************)
(* Stripe delivers until it is answered, a request and an invocation run   *)
(* on while nothing kills them, and the queue keeps delivering.            *)
(***************************************************************************)
AuditFairness ==
  /\ WF_auditVars(EventIsDue) /\ WF_auditVars(DeliverJob)
  /\ \A r \in Requests : WF_auditVars(HandleRequest(r))
  /\ \A c \in Consumers : WF_auditVars(HandleJob(c))

AuditSpec == AuditInit /\ [][AuditNext]_auditVars /\ AuditFairness

-----------------------------------------------------------------------------
(***************************************************************************)
(* What Stripe was told is handled is not lost: the audit's report exists, *)
(* a copy of its job is still to be worked on, or the job was given up in  *)
(* a recorded way.  Across the webhook, the queues and the crawl.          *)
(***************************************************************************)
AcknowledgedIsNotLost ==
  \A s \in Payments : stripe[s] = "acked" => Pending(s) \/ Settled(s)

(***************************************************************************)
(* Once a page was fetched, no work on the audit is thrown away: no page   *)
(* that was fetched, and no URL that was dealt with.  About the webhook    *)
(* putting back a config it read before, so that a crawl begins again, or  *)
(* takes up an older continuation, over the rows of a later one ("without  *)
(* deleting its completed pages", report-queue-consumer.test.ts).          *)
(***************************************************************************)
WorkStays ==
  [][Fetched # {} => /\ Fetched \subseteq Fetched'
                     /\ \A u \in Urls : Attempted(u) => Attempted(u)']_pages

(***************************************************************************)
(* Every buyer's audit comes to an end: the chunked crawl does not go on   *)
(* for ever, whatever the webhook writes over its continuation.            *)
(***************************************************************************)
PurchaseSettles == \A s \in Payments : (stripe[s] = "paid") ~> Settled(s)

=============================================================================
