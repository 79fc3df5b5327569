-------------------------- MODULE PaidAudit_proofs --------------------------
(***************************************************************************)
(* Proofs about the paid audit from Stripe to the report, for any number   *)
(* of payments, requests, messages and invocations and any limits.         *)
(*                                                                         *)
(* The composition implements ReportQueue: the webhook is one of its       *)
(* producers and the crawl decides between outcomes it leaves open.  So    *)
(* what ReportQueue_proofs shows of a job holds of a purchase; what the    *)
(* webhook adds is that a 200 comes after a message or a report.           *)
(*                                                                         *)
(* The crawl's config is another matter: the webhook writes it too, from   *)
(* what it read before.  What DeepAuditCrawl_proofs shows of the rows is   *)
(* shown again here with that second writer.                               *)
(***************************************************************************)
EXTENDS PaidAudit, ReportQueue_proofs, DeepAuditCrawl_proofs

RequestLabels ==
  {"idle", "lookup", "insert_payment", "report", "run", "insert_run", "write_config",
   "send", "receipt", "suppress", "respond"}

\* A request, whatever values of the config it may have seen.
RequestRecords(seen) ==
  [at : RequestLabels, from : {"stripe", "operator"}, session : Payments \cup {NoSession}, seen : seen]

Answered(s) == sent[s] > 0 \/ Reported(TheScan)

\* What a request that stands at a label has behind it.
RequestFine(r) ==
  /\ req[r].at # "idle" => req[r].session \in Payments
  /\ req[r].at \in {"receipt", "suppress", "respond"} => Answered(req[r].session)

RequestsOK ==
  /\ stripe \in [Payments -> {"open", "paid", "acked"}]
  /\ \E seen : req \in [Requests -> RequestRecords(seen)]

AuditIInv ==
  /\ Shape /\ RequestsOK
  /\ \A r \in Requests : RequestFine(r)
  /\ \A s \in Payments : stripe[s] = "acked" => Answered(s)

-----------------------------------------------------------------------------
LEMMA AuditStarts == AuditInit => AuditIInv /\ Init
<1> SUFFICES ASSUME AuditInit PROVE AuditIInv /\ Init
  OBVIOUS
<1>1. Init /\ Shape
  <2>1. Init /\ TypeOK
    BY InitTypeOK DEF AuditInit
  <2>2. MessagesOK /\ HoldersOK
    BY <2>1 DEF Init, MessagesOK, HoldersOK, FreeSlot, MainPcs, DlqPcs
  <2> QED
    BY <2>1, <2>2 DEF Shape
<1>2. /\ stripe = [s \in Payments |-> "open"]
      /\ req = [r \in Requests |-> W!NoRequest]
  BY DEF AuditInit, W!WebhookInit
<1>3. W!NoRequest \in RequestRecords({LostConfig}) /\ W!NoRequest.at = "idle"
  BY DEF W!NoRequest, RequestRecords, RequestLabels
<1>4. req \in [Requests -> RequestRecords({LostConfig})]
  BY <1>2, <1>3
<1>5. RequestsOK
  BY <1>2, <1>4 DEF RequestsOK
<1>6. \A r \in Requests : RequestFine(r)
  BY <1>2, <1>3 DEF RequestFine
<1> QED
  BY <1>1, <1>2, <1>5, <1>6 DEF AuditIInv

-----------------------------------------------------------------------------
(***************************************************************************)
(* The queue within the composition.                                       *)
(***************************************************************************)
LEMMA AuditStepsTheQueue == AuditIInv /\ [AuditNext]_auditVars => [Next]_vars
<1> SUFFICES ASSUME AuditIInv, [AuditNext]_auditVars PROVE [Next]_vars
  OBVIOUS
<1>1. CASE Buy \/ RequestArrives \/ UNCHANGED auditVars
  BY <1>1 DEF Buy, RequestArrives, auditVars
<1>2. ASSUME NEW r \in Requests, HandleRequest(r) \/ RequestFails(r) PROVE [Next]_vars
  <2>1. CASE ServeRequest(r) \/ RequestFails(r)
    <3>1. UNCHANGED vars
      BY <2>1 DEF ServeRequest, RequestFails
    <3> QED
      BY <3>1
  <2>2. CASE SendJob(r)
    <3>1. Enqueue(req[r].session) /\ req[r].session \in Payments
      BY <2>2 DEF SendJob, AuditIInv, RequestFine
    <3> QED
      BY <3>1 DEF Next
  <2> QED
    BY <1>2, <2>1, <2>2 DEF HandleRequest
<1>3. CASE DeliverJob
  BY <1>3 DEF DeliverJob, Next
<1>4. ASSUME NEW c \in Consumers, HandleJob(c) \/ CrashJob(c) PROVE [Next]_vars
  <2>1. CASE CrawlStep(c)
    BY <2>1 DEF CrawlStep
  <2>2. CASE CrawlEnds(c) \/ CrawlThrows(c) \/ HandleOutsideCrawl(c)
    <3>1. Handle(c)
      BY <2>2 DEF CrawlEnds, CrawlThrows, HandleOutsideCrawl, Handle
    <3> QED
      BY <3>1 DEF Next
  <2>3. CASE CrashJob(c)
    <3>1. Crash(c)
      BY <2>3 DEF CrashJob
    <3> QED
      BY <3>1 DEF Next
  <2> QED
    BY <1>4, <2>1, <2>2, <2>3 DEF HandleJob
<1> QED
  BY <1>1, <1>2, <1>3, <1>4 DEF AuditNext

\* Neither a message that was sent nor a report is ever taken back.
LEMMA AnsweredStays ==
  ASSUME Shape, [Next]_vars, NEW s \in Payments, Answered(s)
  PROVE  Answered(s)'
<1>1. CASE Reported(TheScan)
  <2>1. PICK p \in Payments : ScanOf[p] = TheScan /\ reports[p] > 0
    BY <1>1 DEF Reported
  <2>2. reports'[p] > 0
    BY <2>1, ReportsStay
  <2> QED
    BY <2>1, <2>2 DEF Answered, Reported
<1>2. CASE sent[s] > 0
  <2>1. ASSUME NEW p \in Payments, Enqueue(p) PROVE sent'[s] > 0
    BY <1>2, <2>1 DEF Enqueue, Shape, TypeOK
  <2>2. (\E p \in Payments : Enqueue(p)) \/ UNCHANGED sent
    BY DEF Next, Deliver, Handle, vars, Receive, CheckReport, CrawlComplete, CrawlPartial,
       Requeue, Render, RenderThrows, SendEmail, EmailTimesOut, Throw, RecordFailure,
       InsertReport, DlqNotify, DlqCheckMark, DlqSend, DlqPutMark, DlqThrow, Ack, Retry,
       Crash, Redeliver
  <2> QED
    BY <1>2, <2>1, <2>2 DEF Answered
<1> QED
  BY <1>1, <1>2 DEF Answered

-----------------------------------------------------------------------------
(***************************************************************************)
(* Requests.                                                               *)
(***************************************************************************)
\* A step of request r puts a record in its place and leaves the others.
Steps(r) ==
  /\ \E seen : req' \in [Requests -> RequestRecords(seen)]
  /\ \A q \in Requests \ {r} : req'[q] = req[q]

LEMMA PutRequest ==
  ASSUME RequestsOK, NEW r \in Requests, NEW seen, NEW k \in RequestRecords(seen),
         req' = [req EXCEPT ![r] = k]
  PROVE  Steps(r) /\ req'[r] = k
<1>1. PICK old : req \in [Requests -> RequestRecords(old)]
  BY DEF RequestsOK
<1>2. RequestRecords(old) \subseteq RequestRecords(old \cup seen)
  BY DEF RequestRecords
<1>3. RequestRecords(seen) \subseteq RequestRecords(old \cup seen)
  BY DEF RequestRecords
<1>4. req' \in [Requests -> RequestRecords(old \cup seen)]
  BY <1>1, <1>2, <1>3
<1> QED
  BY <1>1, <1>4 DEF Steps

\* A record with another label, and perhaps another config.
LEMMA PutLabel ==
  ASSUME RequestsOK, NEW r \in Requests, NEW label \in RequestLabels
  PROVE  /\ W!Continue(r, label) =>
              Steps(r) /\ req'[r].at = label /\ req'[r].session = req[r].session
         /\ \A c : req' = [req EXCEPT ![r].at = label, ![r].seen = c] =>
              Steps(r) /\ req'[r].at = label /\ req'[r].session = req[r].session
<1>1. PICK old : req \in [Requests -> RequestRecords(old)]
  BY DEF RequestsOK
<1>2. ASSUME NEW c, req' = [req EXCEPT ![r] = [req[r] EXCEPT !.at = label, !.seen = c]]
      PROVE  Steps(r) /\ req'[r].at = label /\ req'[r].session = req[r].session
  <2>1. PICK k : k = [req[r] EXCEPT !.at = label, !.seen = c]
    OBVIOUS
  <2>2. k \in RequestRecords(old \cup {c}) /\ k.at = label /\ k.session = req[r].session
    BY <1>1, <2>1 DEF RequestRecords
  <2>3. req' = [req EXCEPT ![r] = k]
    BY <1>2, <2>1
  <2> QED
    BY <2>2, <2>3, PutRequest
<1>3. ASSUME W!Continue(r, label)
      PROVE  Steps(r) /\ req'[r].at = label /\ req'[r].session = req[r].session
  <2>1. PICK k : k = [req[r] EXCEPT !.at = label]
    OBVIOUS
  <2>2. k \in RequestRecords(old) /\ k.at = label /\ k.session = req[r].session
    BY <1>1, <2>1 DEF RequestRecords
  <2>3. req' = [req EXCEPT ![r] = k]
    BY <1>1, <1>3, <2>1 DEF W!Continue
  <2> QED
    BY <2>2, <2>3, PutRequest
<1>4. ASSUME NEW c, req' = [req EXCEPT ![r].at = label, ![r].seen = c]
      PROVE  req' = [req EXCEPT ![r] = [req[r] EXCEPT !.at = label, !.seen = c]]
  BY <1>1, <1>4
<1> QED
  BY <1>2, <1>3, <1>4

LEMMA PutIdle ==
  ASSUME RequestsOK, NEW r \in Requests, W!Respond(r)
  PROVE  Steps(r) /\ req'[r].at = "idle"
<1>1. W!NoRequest \in RequestRecords({LostConfig}) /\ W!NoRequest.at = "idle"
  BY DEF W!NoRequest, RequestRecords, RequestLabels
<1>2. req' = [req EXCEPT ![r] = W!NoRequest]
  BY DEF W!Respond
<1> QED
  BY <1>1, <1>2, PutRequest

\* What the labels behind it say of a request that is served.
LEMMA RequestSteps ==
  ASSUME AuditIInv, NEW r \in Requests, W!Serve(r) \/ W!SendJob(r) \/ W!Fail(r),
         \A s \in Payments : Answered(s) => Answered(s)'
  PROVE  Steps(r) /\ RequestFine(r)'
<1>1. RequestsOK /\ RequestFine(r) /\ sent \in [Payments -> 0..MaxSends]
  BY DEF AuditIInv, Shape, TypeOK
<1>0. PICK s : s = req[r].session
  OBVIOUS
<1>2. req[r].at # "idle" => s \in Payments
  BY <1>0, <1>1 DEF RequestFine
<1>3. CASE W!Respond(r)
  BY <1>1, <1>3, PutIdle DEF RequestFine
<1>4. ASSUME NEW label \in RequestLabels \ {"idle"}, req[r].at # "idle",
             Steps(r), req'[r].at = label, req'[r].session = s,
             label \in {"receipt", "suppress", "respond"} => Answered(s)'
      PROVE  Steps(r) /\ RequestFine(r)'
  BY <1>2, <1>4 DEF RequestFine, Answered
<1>5. ASSUME NEW label \in {"report", "insert_payment", "run", "insert_run", "send"},
             req[r].at # "idle", W!Continue(r, label)
      PROVE  Steps(r) /\ RequestFine(r)'
  <2>1. label \in RequestLabels \ {"idle"} /\ label \notin {"receipt", "suppress", "respond"}
    BY DEF RequestLabels
  <2> QED
    BY <1>0, <1>1, <1>4, <1>5, <2>1, PutLabel
<1>6. ASSUME NEW label \in {"receipt", "suppress", "respond"},
             req[r].at # "idle", W!Continue(r, label), Answered(s)'
      PROVE  Steps(r) /\ RequestFine(r)'
  <2>1. label \in RequestLabels \ {"idle"}
    BY DEF RequestLabels
  <2> QED
    BY <1>0, <1>1, <1>4, <1>6, <2>1, PutLabel
<1>7. CASE W!LookupPayment(r) \/ W!InsertPayment(r) \/ W!WriteConfig(r)
  BY <1>5, <1>7 DEF W!LookupPayment, W!InsertPayment, W!WriteConfig, W!RequestAt
<1>8. CASE W!FindReport(r) /\ ~W!Respond(r)
  <2>1. /\ req[r].at = "report"
        /\ \/ Reported(TheScan) /\ W!Continue(r, "receipt")
           \/ W!Continue(r, "run")
    BY <1>8 DEF W!FindReport, W!Queued, W!RequestAt
  <2>2. Reported(TheScan) => Answered(s)'
    BY <1>2, <2>1 DEF Answered
  <2> QED
    BY <1>5, <1>6, <2>1, <2>2
<1>9. CASE W!ReadRun(r) \/ W!InsertRun(r)
  <2>1. PICK label \in {"write_config", "insert_run"} :
          \/ W!Continue(r, label)
          \/ \E c : req' = [req EXCEPT ![r].at = label, ![r].seen = c]
    BY <1>9 DEF W!ReadRun, W!InsertRun
  <2>2. req[r].at # "idle"
    BY <1>9 DEF W!ReadRun, W!InsertRun, W!RequestAt
  <2>3. label \in RequestLabels \ {"idle"} /\ label \notin {"receipt", "suppress", "respond"}
    BY DEF RequestLabels
  <2>4. Steps(r) /\ req'[r].at = label /\ req'[r].session = s
    BY <1>0, <1>1, <2>1, <2>3, PutLabel
  <2> QED
    BY <1>4, <2>2, <2>3, <2>4
<1>10. CASE W!SendJob(r) /\ ~W!Respond(r)
  <2>1. /\ req[r].at = "send" /\ W!Continue(r, "receipt")
        /\ sent' = [sent EXCEPT ![s] = @ + 1]
    BY <1>0, <1>10 DEF W!SendJob, W!Queued, W!RequestAt, W!Session
  <2>2. sent'[s] > 0
    BY <1>1, <1>2, <2>1
  <2> QED
    BY <1>6, <2>1, <2>2 DEF Answered
<1>11. CASE W!QueueReceipt(r) \/ W!Suppress(r)
  <2>1. /\ req[r].at \in {"receipt", "suppress"}
        /\ W!Continue(r, "suppress") \/ W!Continue(r, "respond")
    BY <1>11 DEF W!QueueReceipt, W!Suppress, W!RequestAt
  <2>2. Answered(s)'
    BY <1>0, <1>1, <1>2, <2>1 DEF RequestFine
  <2> QED
    BY <1>6, <2>1, <2>2
<1>12. CASE W!Acknowledge(r) \/ W!Fail(r)
  BY <1>3, <1>12 DEF W!Acknowledge, W!Fail
<1> QED
  BY <1>3, <1>7, <1>8, <1>9, <1>10, <1>11, <1>12 DEF W!Serve

\* A request that is accepted begins at the lookup, for a payment.
LEMMA RequestBegins ==
  ASSUME AuditIInv, NEW r \in Requests, NEW s \in Payments, W!Deliver(r, s) \/ W!Reconcile(r, s)
  PROVE  Steps(r) /\ RequestFine(r)' /\ req'[r].at = "lookup"
<1>1. PICK from \in {"stripe", "operator"} :
        req' = [req EXCEPT ![r] = [W!NoRequest EXCEPT !.at = "lookup", !.from = from, !.session = s]]
  BY DEF W!Deliver, W!Reconcile, W!Accept
<1>2. PICK k : k = [W!NoRequest EXCEPT !.at = "lookup", !.from = from, !.session = s]
  OBVIOUS
<1>3. k \in RequestRecords({LostConfig}) /\ k.at = "lookup" /\ k.session = s
  BY <1>2 DEF W!NoRequest, RequestRecords, RequestLabels
<1>4. Steps(r) /\ req'[r] = k
  BY <1>1, <1>2, <1>3, PutRequest DEF AuditIInv
<1> QED
  BY <1>3, <1>4 DEF RequestFine

\* An event is taken off Stripe's list by a request that has come to the end.
LEMMA StripeSteps ==
  ASSUME AuditIInv, NEW r \in Requests, W!Serve(r) \/ W!SendJob(r) \/ W!Fail(r)
  PROVE  /\ stripe' \in [Payments -> {"open", "paid", "acked"}]
         /\ \A s \in Payments : stripe'[s] = "acked" => Answered(s)
<1>1. stripe \in [Payments -> {"open", "paid", "acked"}] /\ RequestFine(r)
  BY DEF AuditIInv, RequestsOK
<1>2. CASE W!Acknowledge(r)
  <2>1. req[r].at = "respond" /\ stripe' = [stripe EXCEPT ![req[r].session] = "acked"]
    BY <1>2 DEF W!Acknowledge, W!RequestAt, W!Session
  <2> QED
    BY <1>1, <2>1 DEF AuditIInv, RequestFine
<1>3. CASE ~W!Acknowledge(r)
  <2>1. UNCHANGED stripe
    BY <1>3 DEF W!Serve, W!LookupPayment, W!InsertPayment, W!FindReport, W!ReadRun, W!InsertRun,
       W!WriteConfig, W!SendJob, W!QueueReceipt, W!Suppress, W!Fail
  <2> QED
    BY <1>1, <2>1 DEF AuditIInv
<1> QED
  BY <1>2, <1>3

-----------------------------------------------------------------------------
LEMMA AuditStep == AuditIInv /\ [AuditNext]_auditVars => AuditIInv'
<1> SUFFICES ASSUME AuditIInv, [AuditNext]_auditVars PROVE AuditIInv'
  OBVIOUS
<1>1. Shape /\ RequestsOK /\ [Next]_vars
  BY AuditStepsTheQueue DEF AuditIInv
<1>2. Shape'
  BY <1>1, NextTypeOK, NextMessagesOK, NextHoldersOK DEF Shape
<1>3. \A s \in Payments : Answered(s) => Answered(s)'
  BY <1>1, AnsweredStays
<1>4. ASSUME NEW q \in Requests, req'[q] = req[q] PROVE RequestFine(q)'
  BY <1>3, <1>4 DEF AuditIInv, RequestFine, Answered
<1>5. CASE UNCHANGED req /\ stripe' \in [Payments -> {"open", "paid", "acked"}]
           /\ \A s \in Payments : stripe'[s] = "acked" => stripe[s] = "acked"
  <2>1. RequestsOK'
    BY <1>1, <1>5 DEF RequestsOK
  <2> QED
    BY <1>2, <1>3, <1>4, <1>5, <2>1 DEF AuditIInv
<1>6. ASSUME NEW r \in Requests, Steps(r), RequestFine(r)',
             stripe' \in [Payments -> {"open", "paid", "acked"}],
             \A s \in Payments : stripe'[s] = "acked" => Answered(s)
      PROVE  AuditIInv'
  <2>1. RequestsOK'
    BY <1>6 DEF RequestsOK, Steps
  <2>2. \A q \in Requests : RequestFine(q)'
    BY <1>4, <1>6 DEF Steps
  <2> QED
    BY <1>2, <1>3, <1>6, <2>1, <2>2 DEF AuditIInv
<1>7. CASE Buy
  <2>1. PICK s \in Payments : W!Complete(s)
    BY <1>7 DEF Buy
  <2> QED
    BY <1>1, <1>5, <2>1 DEF W!Complete, RequestsOK
<1>8. CASE RequestArrives
  <2>1. PICK s \in Payments, r \in Requests : W!Deliver(r, s) \/ W!Reconcile(r, s)
    BY <1>8 DEF RequestArrives, W!Arrive
  <2>2. UNCHANGED stripe
    BY <2>1 DEF W!Deliver, W!Reconcile
  <2> QED
    BY <1>1, <1>6, <2>1, <2>2, RequestBegins DEF AuditIInv, RequestsOK
<1>9. ASSUME NEW r \in Requests, HandleRequest(r) \/ RequestFails(r) PROVE AuditIInv'
  <2>1. W!Serve(r) \/ W!SendJob(r) \/ W!Fail(r)
    BY <1>9 DEF HandleRequest, ServeRequest, SendJob, RequestFails
  <2> QED
    BY <1>3, <1>6, <2>1, RequestSteps, StripeSteps
<1>10. CASE DeliverJob \/ (\E c \in Consumers : HandleJob(c) \/ CrashJob(c)) \/ UNCHANGED auditVars
  <2>1. UNCHANGED <<stripe, req>>
    BY <1>10 DEF DeliverJob, HandleJob, CrawlStep, CrawlEnds, CrawlThrows, HandleOutsideCrawl, CrashJob,
       webhookOnly, auditVars
  <2> QED
    BY <1>1, <1>5, <2>1 DEF RequestsOK
<1> QED
  BY <1>7, <1>8, <1>9, <1>10 DEF AuditNext

LEMMA AuditInvariant == AuditSpec => []AuditIInv
BY AuditStarts, AuditStep, PTL DEF AuditSpec

(***************************************************************************)
(* The composition implements the safety of ReportQueue: whatever webhook  *)
(* and crawl do, a purchase's job is handled as ReportQueue says, so that  *)
(* each of its theorems holds of the composition.                          *)
(***************************************************************************)
THEOREM AuditImplementsQueue == AuditSpec => Safety
BY AuditStarts, AuditInvariant, AuditStepsTheQueue, PTL DEF AuditSpec, Safety

(***************************************************************************)
(* What Stripe was told is handled is not lost, for any number of          *)
(* payments, requests at one time, messages, invocations and failures:     *)
(* across checkout-completed.ts, ensureDeepAuditJobQueued, the queues and  *)
(* the crawl.                                                              *)
(***************************************************************************)
THEOREM AcknowledgedIsNeverLost == AuditSpec => []AcknowledgedIsNotLost
<1>1. AuditIInv /\ NoSilentLoss => AcknowledgedIsNotLost
  <2> SUFFICES ASSUME AuditIInv, NoSilentLoss, NEW s \in Payments, stripe[s] = "acked"
               PROVE  Pending(s) \/ Settled(s)
    BY DEF AcknowledgedIsNotLost
  <2>1. ScanOf[s] = TheScan
    BY ScansAssumption, OneScanAssumption
  <2>2. sent[s] > 0 \/ Reported(TheScan)
    BY DEF AuditIInv, Answered
  <2> QED
    BY <2>1, <2>2 DEF NoSilentLoss, Settled
<1> QED
  BY <1>1, AuditInvariant, AuditImplementsQueue, NoLoss, PTL

-----------------------------------------------------------------------------
(***************************************************************************)
(* The webhook within the composition: what its rows say of a purchase.    *)
(***************************************************************************)
\* Labels behind the insert of the payment and behind the receipt.
Paying == {"report", "run", "insert_run", "write_config", "send", "receipt", "suppress", "respond"}
Receipted == {"suppress", "respond"}

Behind(r) ==
  /\ req[r].at \in Paying => req[r].session \in payments
  /\ req[r].at \in Receipted => req[r].session \in receipts
  /\ req[r].at = "respond" => req[r].session \in converted

HandledInv ==
  /\ \A r \in Requests : Behind(r)
  /\ \A s \in Payments : stripe[s] = "acked" => s \in payments \cap receipts \cap converted

\* No row of a purchase is ever taken back.
RowsStay == payments \subseteq payments' /\ receipts \subseteq receipts' /\ converted \subseteq converted'

LEMMA ServeKeepsRows ==
  ASSUME NEW r \in Requests, W!Serve(r) \/ W!SendJob(r) \/ W!Fail(r)
  PROVE  RowsStay
BY DEF RowsStay, W!Serve, W!LookupPayment, W!InsertPayment, W!FindReport, W!ReadRun, W!InsertRun,
   W!WriteConfig, W!SendJob, W!QueueReceipt, W!Suppress, W!Acknowledge, W!Fail, W!rows

LEMMA BehindStays ==
  ASSUME RowsStay, NEW q \in Requests, Behind(q), req'[q] = req[q]
  PROVE  Behind(q)'
BY DEF Behind, RowsStay

\* Each label is reached from one that has as much behind it, or by the step
\* that adds what it has more.
LEMMA BehindSteps ==
  ASSUME RequestsOK, NEW r \in Requests, Behind(r), W!Serve(r) \/ W!SendJob(r) \/ W!Fail(r)
  PROVE  Behind(r)'
<1>0. PICK s : s = req[r].session
  OBVIOUS
<1>1. RowsStay
  BY ServeKeepsRows
<1>2. ASSUME NEW label \in RequestLabels, req'[r].at = label, req'[r].session = s,
             label \in Paying => s \in payments', label \in Receipted => s \in receipts',
             label = "respond" => s \in converted'
      PROVE  Behind(r)'
  BY <1>2 DEF Behind
<1>3. CASE W!Respond(r)
  BY <1>3, PutIdle DEF Behind, Paying, Receipted
<1>4. ASSUME NEW label \in RequestLabels, W!Continue(r, label)
      PROVE  req'[r].at = label /\ req'[r].session = s
  BY <1>0, <1>4, PutLabel
<1>5. CASE W!LookupPayment(r)
  <2>1. \/ s \in payments /\ W!Continue(r, "report")
        \/ W!Continue(r, "insert_payment")
    BY <1>0, <1>5 DEF W!LookupPayment, W!Session
  <2> QED
    BY <1>1, <1>2, <1>4, <2>1 DEF RequestLabels, Paying, Receipted, RowsStay
<1>6. CASE W!InsertPayment(r)
  <2>1. s \in payments' /\ W!Continue(r, "report")
    BY <1>0, <1>6 DEF W!InsertPayment, W!Session
  <2> QED
    BY <1>2, <1>4, <2>1 DEF RequestLabels, Paying, Receipted
<1>7. CASE (W!FindReport(r) \/ W!WriteConfig(r) \/ W!SendJob(r)) /\ ~W!Respond(r)
  <2>1. PICK label \in {"receipt", "run", "send"} : W!Continue(r, label)
    BY <1>7 DEF W!FindReport, W!WriteConfig, W!SendJob, W!Queued
  <2>2. req[r].at \in Paying
    BY <1>7 DEF W!FindReport, W!WriteConfig, W!SendJob, W!RequestAt, Paying
  <2>3. s \in payments'
    BY <1>0, <1>1, <2>2 DEF Behind, RowsStay
  <2>4. label \in RequestLabels /\ label \notin Receipted
    BY DEF RequestLabels, Receipted
  <2> QED
    BY <1>2, <1>4, <2>1, <2>3, <2>4
<1>8. CASE W!ReadRun(r) \/ W!InsertRun(r)
  <2>1. PICK label \in {"write_config", "insert_run"} :
          \/ W!Continue(r, label)
          \/ \E c : req' = [req EXCEPT ![r].at = label, ![r].seen = c]
    BY <1>8 DEF W!ReadRun, W!InsertRun
  <2>2. req[r].at \in Paying
    BY <1>8 DEF W!ReadRun, W!InsertRun, W!RequestAt, Paying
  <2>3. s \in payments'
    BY <1>0, <1>1, <2>2 DEF Behind, RowsStay
  <2>4. label \in RequestLabels /\ label \notin Receipted
    BY DEF RequestLabels, Receipted
  <2>5. req'[r].at = label /\ req'[r].session = s
    BY <1>0, <2>1, <2>4, PutLabel
  <2> QED
    BY <1>2, <2>3, <2>4, <2>5
<1>9. CASE W!QueueReceipt(r)
  <2>1. W!Continue(r, "suppress") /\ s \in receipts' /\ s \in payments'
    BY <1>0, <1>1, <1>9 DEF W!QueueReceipt, W!RequestAt, W!Session, Behind, Paying, RowsStay
  <2> QED
    BY <1>2, <1>4, <2>1 DEF RequestLabels
<1>10. CASE W!Suppress(r)
  <2>1. W!Continue(r, "respond") /\ s \in converted'
    BY <1>0, <1>10 DEF W!Suppress, W!Session
  <2>2. s \in payments' /\ s \in receipts'
    BY <1>0, <1>1, <1>10 DEF W!Suppress, W!RequestAt, Behind, Paying, Receipted, RowsStay
  <2> QED
    BY <1>2, <1>4, <2>1, <2>2 DEF RequestLabels
<1>11. CASE W!Acknowledge(r) \/ W!Fail(r)
  BY <1>3, <1>11 DEF W!Acknowledge, W!Fail
<1> QED
  BY <1>3, <1>5, <1>6, <1>7, <1>8, <1>9, <1>10, <1>11 DEF W!Serve

\* What was answered stays answered, whatever step the composition takes.
LEMMA AnsweredKept ==
  ASSUME AuditIInv, [AuditNext]_auditVars
  PROVE  \A s \in Payments : Answered(s) => Answered(s)'
BY AuditStepsTheQueue, AnsweredStays DEF AuditIInv

LEMMA HandledStep ==
  ASSUME AuditIInv, HandledInv, [AuditNext]_auditVars
  PROVE  HandledInv'
<1>1. RequestsOK
  BY DEF AuditIInv
<1>2. ASSUME RowsStay, UNCHANGED req,
             \A s \in Payments : stripe'[s] = "acked" => stripe[s] = "acked"
      PROVE  HandledInv'
  <2>1. \A q \in Requests : Behind(q)'
    BY <1>2, BehindStays DEF HandledInv
  <2>2. \A s \in Payments : stripe'[s] = "acked" => s \in payments' \cap receipts' \cap converted'
    BY <1>2 DEF HandledInv, RowsStay
  <2> QED
    BY <2>1, <2>2 DEF HandledInv
<1>3. ASSUME NEW r \in Requests, RowsStay, Steps(r), Behind(r)',
             \A s \in Payments : stripe'[s] = "acked" => s \in payments \cap receipts \cap converted
      PROVE  HandledInv'
  <2>1. \A q \in Requests : Behind(q)'
    BY <1>3, BehindStays DEF HandledInv, Steps
  <2>2. \A s \in Payments : stripe'[s] = "acked" => s \in payments' \cap receipts' \cap converted'
    BY <1>3 DEF RowsStay
  <2> QED
    BY <2>1, <2>2 DEF HandledInv
<1>4. CASE Buy
  <2>1. PICK s \in Payments : W!Complete(s)
    BY <1>4 DEF Buy
  <2>2. \A p \in Payments : stripe'[p] = "acked" => stripe[p] = "acked"
    BY <1>1, <2>1 DEF W!Complete, RequestsOK
  <2> QED
    BY <1>2, <2>1, <2>2 DEF W!Complete, W!rows, RowsStay
<1>5. CASE RequestArrives
  <2>1. PICK s \in Payments, r \in Requests : W!Deliver(r, s) \/ W!Reconcile(r, s)
    BY <1>5 DEF RequestArrives, W!Arrive
  <2>2. UNCHANGED <<stripe, payments, receipts, converted>>
    BY <2>1 DEF W!Deliver, W!Reconcile, W!rows
  <2>3. Steps(r) /\ req'[r].at = "lookup"
    BY <2>1, RequestBegins
  <2>4. Behind(r)'
    BY <2>3 DEF Behind, Paying, Receipted
  <2> QED
    BY <1>3, <2>2, <2>3, <2>4 DEF HandledInv, RowsStay
<1>6. ASSUME NEW r \in Requests, HandleRequest(r) \/ RequestFails(r) PROVE HandledInv'
  <2>1. W!Serve(r) \/ W!SendJob(r) \/ W!Fail(r)
    BY <1>6 DEF HandleRequest, ServeRequest, SendJob, RequestFails
  <2>2. RowsStay /\ Behind(r)'
    BY <1>1, <2>1, ServeKeepsRows, BehindSteps DEF HandledInv
  <2>3. Steps(r)
    BY <2>1, AnsweredKept, RequestSteps
  <2>4. \A s \in Payments : stripe'[s] = "acked" => s \in payments \cap receipts \cap converted
    <3>1. CASE W!Acknowledge(r)
      <4>1. req[r].at = "respond" /\ stripe' = [stripe EXCEPT ![req[r].session] = "acked"]
        BY <3>1 DEF W!Acknowledge, W!RequestAt, W!Session
      <4>2. req[r].session \in payments \cap receipts \cap converted
        BY <4>1 DEF HandledInv, Behind, Paying, Receipted
      <4> QED
        BY <1>1, <4>1, <4>2 DEF HandledInv, RequestsOK
    <3>2. CASE ~W!Acknowledge(r)
      <4>1. UNCHANGED stripe
        BY <2>1, <3>2 DEF W!Serve, W!LookupPayment, W!InsertPayment, W!FindReport, W!ReadRun,
           W!InsertRun, W!WriteConfig, W!SendJob, W!QueueReceipt, W!Suppress, W!Fail
      <4> QED
        BY <4>1 DEF HandledInv
    <3> QED
      BY <3>1, <3>2
  <2> QED
    BY <1>3, <2>2, <2>3, <2>4
<1>7. CASE DeliverJob \/ (\E c \in Consumers : HandleJob(c) \/ CrashJob(c)) \/ UNCHANGED auditVars
  <2>1. UNCHANGED <<stripe, req, payments, receipts, converted>>
    BY <1>7 DEF DeliverJob, HandleJob, CrawlStep, CrawlEnds, CrawlThrows, HandleOutsideCrawl,
       CrashJob, webhookOnly, auditVars
  <2> QED
    BY <1>2, <2>1 DEF RowsStay
<1> QED
  BY <1>4, <1>5, <1>6, <1>7 DEF AuditNext

(***************************************************************************)
(* What CheckoutWebhook promises holds of the whole purchase: a session    *)
(* Stripe was told is handled has its payment, its receipt, a buyer who is *)
(* no longer in the marketing sequences, and a job or a report, while jobs *)
(* are delivered, crawled and given up and the crawl writes the config.    *)
(***************************************************************************)
THEOREM PurchaseIsHandled == AuditSpec => []W!AcknowledgedIsHandled
<1>1. AuditInit => HandledInv
  <2> SUFFICES ASSUME AuditInit PROVE HandledInv
    OBVIOUS
  <2>1. /\ \A s \in Payments : stripe[s] = "open"
        /\ \A r \in Requests : req[r].at = "idle"
    BY DEF AuditInit, W!WebhookInit, W!NoRequest
  <2> QED
    BY <2>1 DEF HandledInv, Behind, Paying, Receipted
<1>2. AuditIInv /\ HandledInv => W!AcknowledgedIsHandled
  <2> SUFFICES ASSUME AuditIInv, HandledInv, NEW s \in Payments, stripe[s] = "acked"
               PROVE  /\ s \in payments \cap receipts \cap converted
                      /\ sent[s] > 0 \/ Reported(TheScan)
    BY DEF W!AcknowledgedIsHandled
  <2> QED
    BY DEF AuditIInv, HandledInv, Answered
<1> QED
  BY <1>1, <1>2, AuditInvariant, HandledStep, PTL DEF AuditSpec

-----------------------------------------------------------------------------
(***************************************************************************)
(* The crawl of the job, with the webhook as a second writer of the run's  *)
(* config.  A request puts back a config it read before, over whatever     *)
(* the crawl has stored since: an older continuation, or none.  Any        *)
(* continuation that was ever stored may still be taken up, and one that   *)
(* was lost makes the crawl begin again over the rows that are there.      *)
(***************************************************************************)
\* What a request has read of the config, and may put back.
SeenTyped == \A r \in Requests : req[r].seen \in ConfigType
SeenOK == \A r \in Requests : Continuable(req[r].seen.crawl_pending)

\* An invocation crawls within its job only.
CrawlsInJob == \A c \in Consumers : at[c] # "idle" => pc[c] = "crawl"

CrawlPlaced == CrawlTypeOK /\ SeenTyped /\ CrawlsInJob

\* The configs there are: the one of the run, those the requests have read,
\* and what they go on with where they have read none.
NewRun == [page_limit |-> PageLimit, crawl_pending |-> NoPending]
Known == {config, LostConfig, NewRun} \cup {req[q].seen : q \in Requests}

\* A record that takes the place of a request's.
LEMMA KnownPut ==
  ASSUME RequestsOK, NEW r \in Requests, NEW k, req' = [req EXCEPT ![r] = k], k.seen \in Known
  PROVE  \A q \in Requests : req'[q].seen \in Known
BY DEF RequestsOK, Known

\* A request writes to the config, and holds, nothing but known configs.
LEMMA ServeWrites ==
  ASSUME RequestsOK, NEW r \in Requests, W!Serve(r) \/ W!SendJob(r) \/ W!Fail(r)
  PROVE  config' \in Known /\ \A q \in Requests : req'[q].seen \in Known
<1>1. ASSUME NEW label, W!Continue(r, label) PROVE \A q \in Requests : req'[q].seen \in Known
  <2>1. PICK k : k = [req[r] EXCEPT !.at = label]
    OBVIOUS
  <2>2. req' = [req EXCEPT ![r] = k] /\ k.seen = req[r].seen
    BY <1>1, <2>1 DEF W!Continue, RequestsOK, RequestRecords
  <2> QED
    BY <2>2, KnownPut DEF Known
<1>2. ASSUME W!Respond(r) PROVE \A q \in Requests : req'[q].seen \in Known
  <2>1. PICK k : k = W!NoRequest
    OBVIOUS
  <2>2. req' = [req EXCEPT ![r] = k] /\ k.seen = LostConfig
    BY <1>2, <2>1 DEF W!Respond, W!NoRequest
  <2> QED
    BY <2>2, KnownPut DEF Known
<1>3. ASSUME NEW label, NEW c \in Known, req' = [req EXCEPT ![r].at = label, ![r].seen = c]
      PROVE  \A q \in Requests : req'[q].seen \in Known
  <2>1. PICK k : k = [req[r] EXCEPT !.at = label, !.seen = c]
    OBVIOUS
  <2>2. req' = [req EXCEPT ![r] = k] /\ k.seen = c
    BY <1>3, <2>1 DEF RequestsOK, RequestRecords
  <2> QED
    BY <2>2, KnownPut
<1>4. \A q \in Requests : req'[q].seen \in Known
  <2>1. CASE W!ReadRun(r)
    BY <1>1, <1>3, <2>1 DEF W!ReadRun, Known
  <2>2. CASE W!InsertRun(r)
    <3>1. PICK c \in {LostConfig, NewRun} :
            req' = [req EXCEPT ![r].at = "write_config", ![r].seen = c]
      BY <2>2 DEF W!InsertRun, NewRun
    <3>2. c \in Known
      BY DEF Known
    <3> QED
      BY <1>3, <3>1, <3>2
  <2>3. CASE ~W!ReadRun(r) /\ ~W!InsertRun(r)
    <3>1. W!Respond(r) \/ \E label : W!Continue(r, label)
      BY <2>3 DEF W!Serve, W!LookupPayment, W!InsertPayment, W!FindReport, W!WriteConfig, W!SendJob,
         W!QueueReceipt, W!Suppress, W!Acknowledge, W!Fail, W!Queued
    <3> QED
      BY <1>1, <1>2, <3>1
  <2> QED
    BY <2>1, <2>2, <2>3
<1>5. config' \in Known
  <2>1. CASE W!InsertRun(r)
    BY <2>1 DEF W!InsertRun, NewRun, Known
  <2>2. CASE W!WriteConfig(r)
    BY <2>2 DEF W!WriteConfig, Known
  <2>3. CASE ~W!InsertRun(r) /\ ~W!WriteConfig(r)
    <3>1. UNCHANGED config
      BY <2>3 DEF W!Serve, W!LookupPayment, W!InsertPayment, W!FindReport, W!ReadRun, W!SendJob,
         W!QueueReceipt, W!Suppress, W!Acknowledge, W!Fail, W!rows
    <3> QED
      BY <3>1 DEF Known
  <2> QED
    BY <2>1, <2>2, <2>3
<1> QED
  BY <1>4, <1>5

LEMMA ArrivalSees ==
  ASSUME RequestsOK, NEW r \in Requests, NEW s \in Payments, W!Deliver(r, s) \/ W!Reconcile(r, s)
  PROVE  config' = config /\ \A q \in Requests : req'[q].seen \in Known
<1>1. PICK from \in {"stripe", "operator"} :
        req' = [req EXCEPT ![r] = [W!NoRequest EXCEPT !.at = "lookup", !.from = from, !.session = s]]
  BY DEF W!Deliver, W!Reconcile, W!Accept
<1>2. PICK k : k = [W!NoRequest EXCEPT !.at = "lookup", !.from = from, !.session = s]
  OBVIOUS
<1>3. k.seen = LostConfig
  BY <1>2 DEF W!NoRequest
<1>4. \A q \in Requests : req'[q].seen \in Known
  BY <1>1, <1>2, <1>3, KnownPut DEF Known
<1>5. UNCHANGED config
  BY DEF W!Deliver, W!Reconcile, W!rows
<1> QED
  BY <1>4, <1>5

-----------------------------------------------------------------------------
\* Which invocation has moved on: everybody else stays where it was.
LEMMA OthersStay ==
  ASSUME Shape, NEW c \in Consumers, Handle(c) \/ Crash(c), NEW d \in Consumers \ {c}
  PROVE  pc'[d] = pc[d]
BY HandlerSteps DEF Moves, Ends, Ack, Redeliver, Release, Shape, TypeOK

(***************************************************************************)
(* What a step of the composition is to the crawl: a step of one worker    *)
(* that is in its job, a step of somebody else, or a write of the config.  *)
(***************************************************************************)
CrawlMoves(c) ==
  /\ StepOf(c) /\ UNCHANGED req
  /\ \A d \in Consumers \ {c} : pc'[d] = pc[d] /\ at'[d] = at[d]
  /\ pc'[c] = "crawl" \/ at'[c] = "idle"

CrawlStays ==
  /\ UNCHANGED crawlVars /\ UNCHANGED req
  /\ \A c \in Consumers : pc[c] = "crawl" => pc'[c] = "crawl" \/ at[c] = "idle"

ConfigPut ==
  /\ UNCHANGED crawlOnly /\ UNCHANGED pc
  /\ config' \in Known /\ \A q \in Requests : req'[q].seen \in Known

LEMMA StepMovesOne ==
  ASSUME CrawlTypeOK, NEW c \in Workers, StepOf(c)
  PROVE  \A d \in Workers \ {c} : at'[d] = at[d]
BY DEF StepOf, Begin, Crawl, PlanRecovery, ClearPages, ReadPages, LoadToStart, LoadToContinue,
   LoadToRefuse, SeedBlocked, SeedUnreachable, SeedFetched, AuditPage, SliceDone, ReadConfig,
   SavePending, Finalize, ReadToClear, WriteClear, ClearNotWritten, Return, Abandon, Step,
   CrawlTypeOK

LEMMA AuditMoves ==
  ASSUME AuditIInv, CrawlTypeOK, [AuditNext]_auditVars
  PROVE  (\E c \in Consumers : CrawlMoves(c)) \/ CrawlStays \/ ConfigPut
<1>1. Shape /\ RequestsOK /\ Workers = Consumers
  BY OneScanAssumption DEF AuditIInv
<1>2. CASE Buy \/ UNCHANGED auditVars
  BY <1>2 DEF Buy, W!Complete, auditVars, webhookOnly, CrawlStays, vars
<1>3. CASE DeliverJob
  <2>1. PICK c \in Consumers, m \in Messages : Receive(c, m)
    BY <1>3 DEF DeliverJob, Deliver
  <2>2. \A d \in Consumers : pc[d] = "crawl" => pc'[d] = "crawl"
    BY <1>1, <2>1 DEF Receive, Goto, Shape, TypeOK
  <2> QED
    BY <1>3, <2>2 DEF DeliverJob, webhookOnly, CrawlStays
<1>4. CASE RequestArrives
  <2>1. PICK s \in Payments, r \in Requests : W!Deliver(r, s) \/ W!Reconcile(r, s)
    BY <1>4 DEF RequestArrives, W!Arrive
  <2>2. config' \in Known /\ \A q \in Requests : req'[q].seen \in Known
    BY <1>1, <2>1, ArrivalSees DEF Known
  <2> QED
    BY <1>4, <2>2 DEF RequestArrives, ConfigPut, vars, crawlVars, crawlOnly
<1>5. ASSUME NEW r \in Requests, HandleRequest(r) \/ RequestFails(r) PROVE ConfigPut
  <2>1. W!Serve(r) \/ W!SendJob(r) \/ W!Fail(r)
    BY <1>5 DEF HandleRequest, ServeRequest, SendJob, RequestFails
  <2>2. config' \in Known /\ \A q \in Requests : req'[q].seen \in Known
    BY <1>1, <2>1, ServeWrites
  <2>3. UNCHANGED <<crawlOnly, pc>>
    BY <1>5 DEF HandleRequest, ServeRequest, SendJob, RequestFails, Enqueue, vars, crawlVars,
       crawlOnly
  <2> QED
    BY <2>2, <2>3 DEF ConfigPut
<1>6. ASSUME NEW c \in Consumers, HandleJob(c) \/ CrashJob(c)
      PROVE  CrawlMoves(c) \/ CrawlStays
  <2>1. UNCHANGED req
    BY <1>6 DEF HandleJob, CrawlStep, CrawlEnds, CrawlThrows, HandleOutsideCrawl, CrashJob, webhookOnly
  <2>2. CASE CrawlStep(c)
    <3>1. StepOf(c) /\ UNCHANGED pc /\ pc[c] = "crawl"
      BY <2>2 DEF CrawlStep, StepOf, vars
    <3> QED
      BY <1>1, <2>1, <3>1, StepMovesOne DEF CrawlMoves
  <2>3. ASSUME Return(c) \/ Abandon(c), Handle(c) \/ Crash(c) PROVE CrawlMoves(c)
    <3>1. StepOf(c) /\ at'[c] = "idle"
      BY <1>1, <2>3 DEF StepOf, Return, Abandon, CrawlTypeOK
    <3> QED
      BY <1>1, <2>1, <2>3, <3>1, StepMovesOne, OthersStay DEF CrawlMoves
  <2>4. ASSUME UNCHANGED crawlVars, Handle(c) \/ Crash(c), pc[c] # "crawl" \/ at[c] = "idle"
        PROVE  CrawlStays
    BY <1>1, <2>1, <2>4, OthersStay DEF CrawlStays
  <2>5. CASE CrawlEnds(c)
    BY <2>3, <2>5 DEF CrawlEnds, Handle
  <2>6. CASE CrawlThrows(c)
    BY <2>3, <2>4, <2>6 DEF CrawlThrows, Handle
  <2>7. CASE HandleOutsideCrawl(c)
    BY <2>4, <2>7 DEF HandleOutsideCrawl
  <2>8. CASE CrashJob(c)
    BY <2>3, <2>4, <2>8 DEF CrashJob
  <2> QED
    BY <1>6, <2>2, <2>5, <2>6, <2>7, <2>8 DEF HandleJob
<1> QED
  BY <1>2, <1>3, <1>4, <1>5, <1>6 DEF AuditNext

-----------------------------------------------------------------------------
(***************************************************************************)
(* Types and places, which need no hypothesis.                             *)
(***************************************************************************)
LEMMA PlacedAtFirst == AuditInit => CrawlPlaced
<1> SUFFICES ASSUME AuditInit PROVE CrawlPlaced
  OBVIOUS
<1>1. /\ config = LostConfig /\ pages = [u \in Urls |-> "none"] /\ coverage = NoCoverage
      /\ report = NoReport /\ at = [w \in Workers |-> "idle"]
      /\ work = [w \in Workers |-> NoWork]
      /\ \A r \in Requests : req[r].seen = LostConfig
  BY DEF AuditInit, W!WebhookInit, W!NoRequest
<1>2. CrawlTypeOK
  BY <1>1, LostTyped, NoWorkTyped DEF CrawlTypeOK, Statuses
<1>3. SeenTyped /\ CrawlsInJob
  BY <1>1, LostTyped, OneScanAssumption DEF SeenTyped, CrawlsInJob
<1> QED
  BY <1>2, <1>3 DEF CrawlPlaced

LEMMA KnownTyped == CrawlTypeOK /\ SeenTyped => Known \subseteq ConfigType
<1>1. NewRun \in ConfigType
  BY DEF NewRun, ConfigType
<1> QED
  BY <1>1, LostTyped DEF Known, CrawlTypeOK, SeenTyped

LEMMA PlacedStep ==
  ASSUME AuditIInv, CrawlPlaced, [AuditNext]_auditVars
  PROVE  CrawlPlaced'
<1>1. Workers = Consumers
  BY OneScanAssumption
<1>2. ASSUME NEW c \in Consumers, CrawlMoves(c) PROVE CrawlPlaced'
  <2>1. CrawlTypeOK'
    BY <1>1, <1>2, StepTyped DEF CrawlMoves, StepOf, CrawlPlaced
  <2>2. SeenTyped' /\ CrawlsInJob'
    BY <1>2 DEF CrawlMoves, CrawlPlaced, SeenTyped, CrawlsInJob
  <2> QED
    BY <2>1, <2>2 DEF CrawlPlaced
<1>3. CASE CrawlStays
  <2>1. CrawlTypeOK'
    BY <1>3 DEF CrawlStays, crawlVars, CrawlPlaced, CrawlTypeOK
  <2>2. SeenTyped' /\ CrawlsInJob'
    BY <1>3 DEF CrawlStays, crawlVars, CrawlPlaced, SeenTyped, CrawlsInJob
  <2> QED
    BY <2>1, <2>2 DEF CrawlPlaced
<1>4. CASE ConfigPut
  <2>1. CrawlTypeOK'
    BY <1>4, KnownTyped DEF ConfigPut, crawlOnly, CrawlPlaced, CrawlTypeOK
  <2>2. SeenTyped' /\ CrawlsInJob'
    BY <1>4, KnownTyped DEF ConfigPut, crawlOnly, CrawlPlaced, SeenTyped, CrawlsInJob
  <2> QED
    BY <2>1, <2>2 DEF CrawlPlaced
<1> QED
  BY <1>2, <1>3, <1>4, AuditMoves DEF CrawlPlaced

LEMMA PlacedInvariant == AuditSpec => []CrawlPlaced
BY PlacedAtFirst, PlacedStep, AuditInvariant, PTL DEF AuditSpec

-----------------------------------------------------------------------------
(***************************************************************************)
(* Continuations stand at whole chunks, those included that requests hold  *)
(* and may put back.                                                       *)
(***************************************************************************)
PurchaseWhole ==
  /\ \A c \in Known : WholeChunks(c.crawl_pending)
  /\ \A w \in Workers : WorkerWhole(w)

LEMMA PurchaseWholeStep ==
  ASSUME DefaultFits, AuditIInv, CrawlPlaced, PurchaseWhole, [AuditNext]_auditVars
  PROVE  PurchaseWhole'
<1>1. Workers = Consumers /\ CrawlTypeOK /\ WholeChunks(Continuation)
  BY OneScanAssumption DEF CrawlPlaced, PurchaseWhole, Known, Continuation
<1>2. ASSUME NEW r \in Requests PROVE WholeChunks(req[r].seen.crawl_pending)
  BY DEF PurchaseWhole, Known
<1>3. WholeChunks(LostConfig.crawl_pending) /\ WholeChunks(NewRun.crawl_pending)
  BY DEF LostConfig, NewRun, WholeChunks
<1>4. ASSUME WholeChunks(config'.crawl_pending), \A w \in Workers : WorkerWhole(w)',
             \A r \in Requests : WholeChunks(req'[r].seen.crawl_pending)
      PROVE  PurchaseWhole'
  BY <1>3, <1>4 DEF PurchaseWhole, Known
<1>5. ASSUME NEW w \in Consumers, CrawlMoves(w) PROVE PurchaseWhole'
  <2>1. WholeChunks(Continuation)' /\ WorkerWhole(w)'
    BY <1>1, <1>5, WholeStep DEF CrawlMoves, PurchaseWhole
  <2>2. \A v \in Workers \ {w} : WorkerWhole(v)'
    BY <1>1, <1>5, OthersAsTheyWere DEF CrawlMoves, PurchaseWhole, WorkerWhole
  <2> QED
    BY <1>1, <1>2, <1>4, <1>5, <2>1, <2>2 DEF CrawlMoves, Continuation, WholeChunks, Counted
<1>6. CASE CrawlStays
  BY <1>1, <1>2, <1>4, <1>6 DEF CrawlStays, crawlVars, PurchaseWhole, WorkerWhole, Continuation,
     WholeChunks, Counted
<1>7. CASE ConfigPut
  <2>1. \A w \in Workers : WorkerWhole(w)'
    BY <1>7 DEF ConfigPut, crawlOnly, PurchaseWhole, WorkerWhole
  <2>2. /\ WholeChunks(config'.crawl_pending)
        /\ \A r \in Requests : WholeChunks(req'[r].seen.crawl_pending)
    BY <1>7 DEF ConfigPut, PurchaseWhole
  <2> QED
    BY <1>4, <2>1, <2>2
<1> QED
  BY <1>1, <1>5, <1>6, <1>7, AuditMoves

(***************************************************************************)
(* In the whole purchase no job fails on its own continuation: while the   *)
(* run has its page limit, planPendingContinuation refuses none that the   *)
(* crawl stored or a request put back, however many crawls and requests    *)
(* overlap.                                                                *)
(***************************************************************************)
THEOREM PurchaseContinues ==
  ASSUME DefaultFits
  PROVE  AuditSpec => []PendingIsUsable
<1>1. AuditInit => PurchaseWhole
  <2> SUFFICES ASSUME AuditInit PROVE PurchaseWhole
    OBVIOUS
  <2>1. /\ config = LostConfig /\ work = [w \in Workers |-> NoWork]
        /\ at = [w \in Workers |-> "idle"] /\ \A r \in Requests : req[r].seen = LostConfig
    BY DEF AuditInit, W!WebhookInit, W!NoRequest
  <2>2. \A c \in Known : WholeChunks(c.crawl_pending)
    BY <2>1 DEF Known, LostConfig, NewRun, WholeChunks
  <2> QED
    BY <2>1, <2>2 DEF PurchaseWhole, WorkerWhole, NoWork, Begun
<1>2. CrawlPlaced /\ PurchaseWhole => PendingIsUsable
  BY WholeIsUsable DEF CrawlPlaced, PurchaseWhole, Known, Continuation
<1>3. AuditIInv /\ CrawlPlaced /\ PurchaseWhole /\ [AuditNext]_auditVars => PurchaseWhole'
  BY PurchaseWholeStep
<1> QED
  BY <1>1, <1>2, <1>3, AuditInvariant, PlacedInvariant, PTL DEF AuditSpec

-----------------------------------------------------------------------------
(***************************************************************************)
(* Crawls that do not overlap.                                             *)
(***************************************************************************)
CrawlShared == CrawlIInv /\ SeenOK

LEMMA NothingSeen == Continuable(LostConfig.crawl_pending)
BY DEF LostConfig, Continuable

LEMMA KnownOK ==
  ASSUME CrawlShared, NEW c \in Known
  PROVE  Continuable(c.crawl_pending)
<1>1. CASE c = NewRun
  BY <1>1 DEF NewRun, Continuable
<1>2. CASE c = config
  BY <1>2 DEF CrawlShared, CrawlIInv, Continuation
<1>3. ASSUME NEW q \in Requests, c = req[q].seen PROVE Continuable(c.crawl_pending)
  BY <1>3 DEF CrawlShared, SeenOK
<1> QED
  BY <1>1, <1>2, <1>3, NothingSeen DEF Known

LEMMA SharedStarts == AuditInit => CrawlShared
<1> SUFFICES ASSUME AuditInit PROVE CrawlShared
  OBVIOUS
<1>1. CrawlTypeOK
  BY PlacedAtFirst DEF CrawlPlaced
<1>2. SeedOK /\ WayOK /\ SliceOK /\ CoverageIsHonest
  BY CrawlAssumption DEF AuditInit, SeedOK, WayOK, SliceOK, CoverageIsHonest, Urls, NoWork, Begun
<1>3. Continuable(Continuation)
  BY NothingSeen DEF AuditInit, W!WebhookInit, Continuation
<1>4. SeenOK
  BY NothingSeen DEF AuditInit, W!WebhookInit, W!NoRequest, SeenOK
<1> QED
  BY <1>1, <1>2, <1>3, <1>4 DEF CrawlIInv, CrawlShared

\* A continuation that a request holds is as good after a step of the crawl.
LEMMA SeenKept ==
  ASSUME CrawlShared, (\E w \in Workers : StepOf(w)) \/ UNCHANGED pages, UNCHANGED req
  PROVE  SeenOK'
<1> SUFFICES ASSUME NEW r \in Requests PROVE Continuable(req[r].seen.crawl_pending)'
  BY DEF SeenOK
<1>1. PICK p : p = req[r].seen.crawl_pending
  OBVIOUS
<1>2. Continuable(p) /\ p = req'[r].seen.crawl_pending
  BY <1>1 DEF CrawlShared, SeenOK
<1>3. Continuable(p)'
  <2>1. CASE \E w \in Workers : StepOf(w)
    BY <1>2, <2>1, StaysContinuable DEF CrawlShared
  <2>2. CASE UNCHANGED pages
    BY <1>2, <2>2 DEF Continuable, Seeded, Attempted
  <2> QED
    BY <2>1, <2>2
<1> QED
  BY <1>2, <1>3

\* The config that another writes leaves the crawl what it rests on, as long
\* as its continuation may be taken up.
LEMMA ConfigWritten ==
  ASSUME CrawlIInv, UNCHANGED crawlOnly, config' \in ConfigType,
         Continuable(config'.crawl_pending)
  PROVE  CrawlIInv'
<1>1. CrawlTypeOK'
  BY DEF crawlOnly, CrawlIInv, CrawlTypeOK
<1>2. WayOK' /\ SliceOK'
  BY DEF crawlOnly, CrawlIInv, WayOK, SliceOK, Fetched, Untouched, Seeded, Attempted
<1>3. SeedOK' /\ CoverageIsHonest'
  BY DEF crawlOnly, CrawlIInv, SeedOK, CoverageIsHonest, Seeded, Attempted
<1>4. Continuable(Continuation)'
  BY DEF crawlOnly, Continuable, Continuation, Seeded, Attempted
<1> QED
  BY <1>1, <1>2, <1>3, <1>4 DEF CrawlIInv

LEMMA SharedStep ==
  ASSUME OneCrawl, OneCrawl', AuditIInv, CrawlPlaced, CrawlPlaced', CrawlShared,
         [AuditNext]_auditVars
  PROVE  CrawlShared'
<1>1. Workers = Consumers /\ CrawlTypeOK
  BY OneScanAssumption DEF CrawlPlaced
<1>2. ASSUME NEW c \in Consumers, CrawlMoves(c) PROVE CrawlShared'
  BY <1>1, <1>2, CrawlIInvStep, SeenKept DEF CrawlShared, CrawlMoves
<1>3. CASE CrawlStays
  BY <1>3, CrawlStutter, SeenKept DEF CrawlShared, CrawlStays, crawlVars
<1>4. CASE ConfigPut
  <2>1. CrawlIInv'
    BY <1>4, KnownOK, ConfigWritten DEF CrawlShared, ConfigPut, CrawlPlaced, CrawlTypeOK
  <2>2. ASSUME NEW r \in Requests PROVE Continuable(req[r].seen.crawl_pending)'
    <3>1. PICK c : c = req'[r].seen
      OBVIOUS
    <3>2. PICK p : p = c.crawl_pending
      OBVIOUS
    <3>3. Continuable(p)
      BY <1>4, <3>1, <3>2, KnownOK DEF ConfigPut
    <3>4. Continuable(p)'
      BY <1>4, <3>3 DEF ConfigPut, crawlOnly, Continuable, Seeded, Attempted
    <3> QED
      BY <3>1, <3>2, <3>4
  <2> QED
    BY <2>1, <2>2 DEF CrawlShared, SeenOK
<1> QED
  BY <1>1, <1>2, <1>3, <1>4, AuditMoves

LEMMA SharedInvariant == AuditSpec /\ []OneCrawl => []CrawlShared
BY SharedStarts, SharedStep, AuditInvariant, PlacedInvariant, PTL DEF AuditSpec

(***************************************************************************)
(* In the whole purchase too, while crawls of the run do not overlap,      *)
(* urls_remaining: 0 is true of every coverage summary, whatever the       *)
(* webhook and the reconcile route write over the crawl's continuation.    *)
(***************************************************************************)
THEOREM PurchaseCoverage == AuditSpec /\ []OneCrawl => []CoverageIsHonest
<1>1. CrawlShared => CoverageIsHonest
  BY DEF CrawlShared, CrawlIInv
<1> QED
  BY <1>1, SharedInvariant, PTL

(***************************************************************************)
(* ... and no continuation starts past a URL that was not dealt with, an   *)
(* older one that a request put back included.                             *)
(***************************************************************************)
THEOREM PurchaseSkipsNothing == AuditSpec /\ []OneCrawl => []ContinuationSkipsNothing
<1>1. CrawlShared => ContinuationSkipsNothing
  BY ContinuableSkipsNothing DEF CrawlShared, CrawlIInv
<1> QED
  BY <1>1, SharedInvariant, PTL

-----------------------------------------------------------------------------
(***************************************************************************)
(* What was fetched stays, and with it whatever was dealt with: only a     *)
(* crawl with nothing fetched is cleared, and a crawl that begins again    *)
(* over rows finds its seed fetched.                                       *)
(***************************************************************************)
WorkKept ==
  Fetched # {} => /\ Fetched \subseteq Fetched'
                  /\ \A u \in Urls : Attempted(u) => Attempted(u)'

LEMMA WorkWithoutRows == UNCHANGED pages => WorkKept
BY DEF WorkKept, Fetched, Attempted

LEMMA StepKeepsWork ==
  ASSUME CrawlIInv, NEW w \in Workers, StepOf(w)
  PROVE  WorkKept
<1>1. CASE ClearPages(w)
  <2>1. Fetched = {}
    BY <1>1 DEF ClearPages, Step, CrawlIInv, WayOK
  <2> QED
    BY <2>1 DEF WorkKept
<1>2. CASE SeedBlocked(w) \/ SeedUnreachable(w)
  <2>1. Untouched \/ Seeded
    BY <1>2 DEF SeedBlocked, SeedUnreachable, Step, CrawlIInv, WayOK
  <2>2. PICK status \in {"skipped", "error", "lost"} : InsertPage(1, status) \/ UNCHANGED pages
    BY <1>2 DEF SeedBlocked, SeedUnreachable, InsertFailure
  <2>3. CASE Untouched
    BY <2>3 DEF WorkKept, Fetched, Untouched
  <2>4. CASE Seeded
    <3>1. UNCHANGED pages
      BY <2>1, <2>2, <2>4, SeedRefused DEF CrawlIInv
    <3> QED
      BY <3>1, WorkWithoutRows
  <2> QED
    BY <2>1, <2>3, <2>4
<1>3. CASE AuditPage(w)
  <2>1. PICK u \in Urls :
          /\ \A v \in Urls : v # u \/ pages[v] \notin {"none", "lost"} => pages'[v] = pages[v]
          /\ pages'[u] \in {"fetched", "error", "lost"}
    BY <1>3, AuditDeals
  <2>2. \A v \in Urls : pages[v] = "fetched" => pages'[v] = "fetched"
    BY <2>1
  <2>3. \A v \in Urls : Attempted(v) => pages'[v] \in {"fetched", "error", "lost"}
    BY <2>1 DEF Attempted
  <2> QED
    BY <2>2, <2>3 DEF WorkKept, Fetched, Attempted
<1>4. \/ UNCHANGED pages \/ ClearPages(w) \/ SeedBlocked(w) \/ SeedUnreachable(w)
      \/ AuditPage(w)
  BY DEF StepOf, Crawl, Begin, PlanRecovery, ReadPages, LoadToStart, LoadToContinue, LoadToRefuse,
     SeedFetched, SliceDone, ReadConfig, SavePending, Finalize, ReadToClear, WriteClear,
     ClearNotWritten, Return, Abandon
<1> QED
  BY <1>1, <1>2, <1>3, <1>4, WorkWithoutRows

(***************************************************************************)
(* In the whole purchase, while crawls of the run do not overlap, no page  *)
(* that was fetched is lost, and nothing that was dealt with once a page   *)
(* was, though the webhook makes a crawl begin again or go back to an      *)
(* older continuation.                                                     *)
(***************************************************************************)
THEOREM PurchaseKeepsItsWork == AuditSpec /\ []OneCrawl => WorkStays
<1>1. AuditIInv /\ CrawlShared /\ [AuditNext]_auditVars => [WorkKept]_pages
  <2> SUFFICES ASSUME AuditIInv, CrawlShared, [AuditNext]_auditVars PROVE WorkKept
    OBVIOUS
  <2>1. CrawlTypeOK /\ CrawlIInv /\ Workers = Consumers
    BY OneScanAssumption DEF CrawlShared, CrawlIInv
  <2>2. CASE \E c \in Consumers : CrawlMoves(c)
    BY <2>1, <2>2, StepKeepsWork DEF CrawlMoves
  <2>3. CASE CrawlStays \/ ConfigPut
    <3>1. UNCHANGED pages
      BY <2>3 DEF CrawlStays, ConfigPut, crawlVars, crawlOnly
    <3> QED
      BY <3>1, WorkWithoutRows
  <2> QED
    BY <2>1, <2>2, <2>3, AuditMoves
<1>2. [WorkKept]_pages <=> [Fetched # {} => /\ Fetched \subseteq Fetched'
                                            /\ \A u \in Urls : Attempted(u) => Attempted(u)']_pages
  BY DEF WorkKept
<1> QED
  BY <1>1, <1>2, AuditInvariant, SharedInvariant, PTL DEF AuditSpec, WorkStays

-----------------------------------------------------------------------------
(***************************************************************************)
(* Crawls do not overlap where no two invocations are between the check    *)
(* and the insert of processReportJob.  Then a purchase gets one report,   *)
(* and the coverage it tells of is true.                                   *)
(***************************************************************************)
THEOREM PurchaseHasOneReport ==
  AuditSpec /\ []ScansApart => [](OneReportPerScan /\ CoverageIsHonest)
<1>1. ScansApart /\ Shape /\ CrawlPlaced => OneCrawl
  <2> SUFFICES ASSUME ScansApart, Shape, CrawlPlaced, NEW v \in Workers, NEW w \in Workers,
                      at[v] # "idle", at[w] # "idle"
               PROVE  v = w
    BY DEF OneCrawl
  <2>1. v \in Consumers /\ w \in Consumers /\ pc[v] = "crawl" /\ pc[w] = "crawl"
    BY OneScanAssumption DEF CrawlPlaced, CrawlsInJob
  <2>2. Job(v) \in Payments /\ Job(w) \in Payments
    BY <2>1, Working
  <2>3. Scan(v) = Scan(w)
    BY <2>2, ScansAssumption, OneScanAssumption DEF Scan
  <2> QED
    BY <2>1, <2>3 DEF ScansApart, PastCheck
<1>2. AuditIInv => Shape
  BY DEF AuditIInv
<1> QED
  BY <1>1, <1>2, AuditInvariant, PlacedInvariant, AuditImplementsQueue, OneReport,
     PurchaseCoverage, PTL

=============================================================================
