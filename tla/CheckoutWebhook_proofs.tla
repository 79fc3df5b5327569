----------------------- MODULE CheckoutWebhook_proofs -----------------------
(***************************************************************************)
(* What the webhook tells Stripe is true: proofs of the type invariant of  *)
(* CheckoutWebhook and of AcknowledgedIsHandled, for any sessions, any     *)
(* number of requests at one time, and any number of failures.             *)
(*                                                                         *)
(* The invariant is not inductive: that the 200 is the last step says      *)
(* nothing of what the steps before it left.  AtLabel says for each label  *)
(* what a request that stands there has behind it; nothing of that is ever *)
(* taken back.                                                             *)
(***************************************************************************)
EXTENDS CheckoutWebhook, TLAPS

\* Labels behind the payment, behind the job, behind the receipt.
PaidFor == {"report", "run", "insert_run", "write_config", "send", "receipt", "suppress", "respond"}
JobDone == {"receipt", "suppress", "respond"}
ReceiptDone == {"suppress", "respond"}

AtLabel(r) ==
  LET s == req[r].session  l == req[r].at IN
  /\ l # "idle" => s \in Sessions
  /\ l \in PaidFor => s \in payments
  /\ l \in JobDone => jobs[s] > 0 \/ delivered
  /\ l \in ReceiptDone => s \in receipts
  /\ l = "respond" => s \in converted

WebhookIInv == WebhookTypeOK /\ AcknowledgedIsHandled /\ \A r \in Requests : AtLabel(r)

-----------------------------------------------------------------------------
\* What a request may be.
Entries ==
  [at : {"idle", "lookup", "insert_payment", "report", "run", "insert_run", "write_config",
         "send", "receipt", "suppress", "respond"},
   from : {"stripe", "operator"}, session : Sessions \cup {NoSession},
   seen : {NewConfig, EmptyConfig}]

LEMMA IdleRequest == NoRequest.at = "idle" /\ NoRequest \in Entries
BY DEF NoRequest, Entries

\* The webhook starts with nothing done.
LEMMA WebhookStarts == WebhookStart => WebhookIInv
<1> SUFFICES ASSUME WebhookStart PROVE WebhookIInv
  OBVIOUS
<1>1. WebhookTypeOK
  <2>1. req \in [Requests -> Entries]
    BY IdleRequest DEF WebhookStart, WebhookInit
  <2>2. deliveries \in [Sessions -> 0..MaxDeliveries] /\ reconciles \in [Sessions -> 0..MaxReconciles]
    BY RequestsAssumption DEF WebhookStart, WebhookInit
  <2>3. failures \in 0..MaxFailures /\ jobs \in [Sessions -> Nat]
    BY RequestsAssumption DEF WebhookStart, WebhookInit
  <2>4. /\ stripe \in [Sessions -> {"open", "paid", "acked"}]
        /\ payments \subseteq Sessions /\ receipts \subseteq Sessions /\ converted \subseteq Sessions
        /\ hasRun \in BOOLEAN /\ delivered \in BOOLEAN /\ config \in {NewConfig, EmptyConfig}
    BY DEF WebhookStart, WebhookInit
  <2> QED
    BY <2>1, <2>2, <2>3, <2>4 DEF WebhookTypeOK, Entries
<1>2. AcknowledgedIsHandled
  BY DEF WebhookStart, WebhookInit, AcknowledgedIsHandled
<1>3. \A r \in Requests : AtLabel(r)
  <2>1. \A r \in Requests : req[r].at = "idle"
    BY IdleRequest DEF WebhookStart, WebhookInit
  <2> QED
    BY <2>1 DEF AtLabel, PaidFor, JobDone, ReceiptDone
<1> QED
  BY <1>1, <1>2, <1>3 DEF WebhookIInv

-----------------------------------------------------------------------------
(***************************************************************************)
(* One request: a step of r leaves the others where they stand, and puts   *)
(* an entry in its own place.                                              *)
(***************************************************************************)
Moves(r, entry) ==
  /\ req'[r] = entry /\ req' \in [Requests -> Entries]
  /\ \A q \in Requests \ {r} : req'[q] = req[q]

LEMMA GoingOn ==
  ASSUME WebhookTypeOK, NEW r \in Requests, Continue(r, "report") \/ Continue(r, "insert_payment")
    \/ Continue(r, "run") \/ Continue(r, "insert_run") \/ Continue(r, "send") \/ Continue(r, "receipt")
    \/ Continue(r, "suppress") \/ Continue(r, "respond")
  PROVE  Moves(r, [req[r] EXCEPT !.at = req'[r].at])
<1>1. req \in [Requests -> Entries]
  BY DEF WebhookTypeOK, Entries
<1>2. PICK l \in {"report", "insert_payment", "run", "insert_run", "send", "receipt", "suppress", "respond"} :
        req' = [req EXCEPT ![r] = [req[r] EXCEPT !.at = l]]
  BY <1>1 DEF Continue
<1>3. [req[r] EXCEPT !.at = l] \in Entries /\ [req[r] EXCEPT !.at = l].at = l
  BY <1>1 DEF Entries
<1> QED
  BY <1>1, <1>2, <1>3 DEF Moves

LEMMA Responding ==
  ASSUME WebhookTypeOK, NEW r \in Requests, Respond(r)
  PROVE  Moves(r, NoRequest)
<1>1. req \in [Requests -> Entries]
  BY DEF WebhookTypeOK, Entries
<1> QED
  BY <1>1, IdleRequest DEF Respond, Moves

\* A request that is accepted starts at the lookup.
LEMMA Accepting ==
  ASSUME WebhookTypeOK, NEW r \in Requests, NEW s \in Sessions, Deliver(r, s) \/ Reconcile(r, s)
  PROVE  Moves(r, req'[r]) /\ req'[r].at = "lookup" /\ req'[r].session = s
<1>1. req \in [Requests -> Entries]
  BY DEF WebhookTypeOK, Entries
<1>2. PICK from \in {"stripe", "operator"} :
        req' = [req EXCEPT ![r] = [NoRequest EXCEPT !.at = "lookup", !.from = from, !.session = s]]
  BY DEF Deliver, Reconcile, Accept
<1>3. DEFINE entry == [NoRequest EXCEPT !.at = "lookup", !.from = from, !.session = s]
<1>4. entry \in Entries /\ entry.at = "lookup" /\ entry.session = s
  BY DEF Entries, NoRequest
<1> HIDE DEF entry
<1>5. req' = [req EXCEPT ![r] = entry]
  BY <1>2 DEF entry
<1> QED
  BY <1>1, <1>4, <1>5 DEF Moves

\* The two reads of a run change what is seen as well.
LEMMA Seeing ==
  ASSUME WebhookTypeOK, NEW r \in Requests, ReadRun(r) \/ InsertRun(r)
  PROVE  /\ req'[r].at \in {"write_config", "insert_run"} /\ Moves(r, req'[r])
         /\ req'[r].session = req[r].session
<1>1. req \in [Requests -> Entries] /\ config \in {NewConfig, EmptyConfig}
  BY DEF WebhookTypeOK, Entries
<1>2. PICK l \in {"write_config", "insert_run"}, c \in {NewConfig, EmptyConfig} :
        req' = [req EXCEPT ![r] = [req[r] EXCEPT !.at = l, !.seen = c]]
  <2>1. CASE ReadRun(r) /\ Continue(r, "insert_run")
    <3>1. req' = [req EXCEPT ![r] = [req[r] EXCEPT !.at = "insert_run", !.seen = req[r].seen]]
      BY <1>1, <2>1 DEF Continue, Entries
    <3> QED
      BY <1>1, <3>1 DEF Entries
  <2>2. CASE ReadRun(r) /\ ~Continue(r, "insert_run")
    <3>1. req' = [req EXCEPT ![r] = [req[r] EXCEPT !.at = "write_config", !.seen = config]]
      BY <1>1, <2>2 DEF ReadRun
    <3> QED
      BY <1>1, <3>1
  <2>3. CASE InsertRun(r)
    <3>1. req' = [req EXCEPT ![r] = [req[r] EXCEPT !.at = "write_config",
                                                  !.seen = IF hasRun THEN EmptyConfig ELSE NewConfig]]
      BY <1>1, <2>3 DEF InsertRun
    <3> QED
      BY <1>1, <3>1
  <2> QED
    BY <2>1, <2>2, <2>3
<1>3. /\ [req[r] EXCEPT !.at = l, !.seen = c] \in Entries
      /\ [req[r] EXCEPT !.at = l, !.seen = c].at = l
      /\ [req[r] EXCEPT !.at = l, !.seen = c].session = req[r].session
  BY <1>1 DEF Entries
<1> QED
  BY <1>1, <1>2, <1>3 DEF Moves

\* How a request that is being served moves: it ends, or goes on with the same
\* session.
LEMMA Serving ==
  ASSUME WebhookTypeOK, NEW r \in Requests, Serve(r) \/ SendJob(r) \/ Fail(r)
  PROVE  /\ req[r].at # "idle" /\ Moves(r, req'[r])
         /\ req'[r].at = "idle" \/ req'[r].session = req[r].session
<1>1. CASE LookupPayment(r) \/ InsertPayment(r) \/ FindReport(r) \/ WriteConfig(r) \/ SendJob(r)
           \/ QueueReceipt(r) \/ Suppress(r) \/ Acknowledge(r) \/ Fail(r)
  <2>1. /\ req[r].at # "idle"
        /\ \/ Respond(r)
           \/ \/ Continue(r, "report") \/ Continue(r, "insert_payment") \/ Continue(r, "run")
              \/ Continue(r, "insert_run") \/ Continue(r, "send") \/ Continue(r, "receipt")
              \/ Continue(r, "suppress") \/ Continue(r, "respond")
    BY <1>1 DEF LookupPayment, InsertPayment, FindReport, WriteConfig, SendJob, QueueReceipt, Suppress,
       Acknowledge, Fail, Queued, RequestAt
  <2>2. CASE Respond(r)
    BY <2>1, <2>2, Responding, IdleRequest DEF Moves
  <2>3. CASE ~Respond(r)
    <3>1. Moves(r, [req[r] EXCEPT !.at = req'[r].at])
      BY <2>1, <2>3, GoingOn
    <3>2. req[r] \in Entries
      BY DEF WebhookTypeOK, Entries
    <3> QED
      BY <2>1, <3>1, <3>2 DEF Moves, Entries
  <2> QED
    BY <2>2, <2>3
<1>2. CASE ReadRun(r) \/ InsertRun(r)
  <2>1. req[r].at # "idle"
    BY <1>2 DEF ReadRun, InsertRun, RequestAt
  <2> QED
    BY <1>2, <2>1, Seeing
<1> QED
  BY <1>1, <1>2 DEF Serve

-----------------------------------------------------------------------------
\* Types are kept.
LEMMA WebhookTypeStep == WebhookIInv /\ [WebhookNext]_webhookVars => WebhookTypeOK'
<1> SUFFICES ASSUME WebhookIInv, [WebhookNext]_webhookVars PROVE WebhookTypeOK'
  OBVIOUS
<1>0. WebhookTypeOK /\ \A r \in Requests : req[r].at # "idle" => req[r].session \in Sessions
  BY DEF WebhookIInv, AtLabel
<1>1. ASSUME NEW s \in Sessions, Complete(s) PROVE WebhookTypeOK'
  BY <1>0, <1>1 DEF WebhookTypeOK, Complete, counters, rows
<1>2. ASSUME NEW s \in Sessions, NEW r \in Requests, Deliver(r, s) \/ Reconcile(r, s)
      PROVE  WebhookTypeOK'
  <2>1. /\ deliveries' \in [Sessions -> 0..MaxDeliveries]
        /\ reconciles' \in [Sessions -> 0..MaxReconciles]
    BY <1>0, <1>2, RequestsAssumption DEF WebhookTypeOK, Deliver, Reconcile
  <2>2. req' \in [Requests -> Entries]
    BY <1>0, <1>2, Accepting DEF Moves
  <2> QED
    BY <1>0, <1>2, <2>1, <2>2 DEF WebhookTypeOK, Deliver, Reconcile, Entries, rows
<1>3. ASSUME NEW r \in Requests, Serve(r) \/ SendJob(r) \/ Fail(r) PROVE WebhookTypeOK'
  <2>1. req' \in [Requests -> Entries] /\ req[r].session \in Sessions
        /\ req[r].seen \in {NewConfig, EmptyConfig}
    BY <1>0, <1>3, Serving DEF Moves, WebhookTypeOK
  <2> USE DEF counters, rows, Session
  <2>2. CASE LookupPayment(r) \/ FindReport(r) \/ ReadRun(r)
    BY <1>0, <2>1, <2>2 DEF WebhookTypeOK, Entries, LookupPayment, FindReport, ReadRun
  <2>3. CASE InsertPayment(r) \/ QueueReceipt(r) \/ Suppress(r)
    BY <1>0, <2>1, <2>3 DEF WebhookTypeOK, Entries, InsertPayment, QueueReceipt, Suppress
  <2>4. CASE InsertRun(r) \/ WriteConfig(r)
    BY <1>0, <2>1, <2>4 DEF WebhookTypeOK, Entries, InsertRun, WriteConfig
  <2>5. CASE SendJob(r)
    BY <1>0, <2>1, <2>5 DEF WebhookTypeOK, Entries, SendJob
  <2>6. CASE Acknowledge(r)
    BY <1>0, <2>1, <2>6 DEF WebhookTypeOK, Entries, Acknowledge
  <2>7. CASE Fail(r)
    BY <1>0, <2>1, <2>7, RequestsAssumption DEF WebhookTypeOK, Entries, Fail
  <2> QED
    BY <1>3, <2>2, <2>3, <2>4, <2>5, <2>6, <2>7 DEF Serve
<1>4. CASE ReportAppears
  BY <1>0, <1>4 DEF WebhookTypeOK, ReportAppears, counters, rows
<1>5. CASE UNCHANGED webhookVars
  BY <1>0, <1>5 DEF WebhookTypeOK, webhookVars
<1> QED
  BY <1>1, <1>2, <1>3, <1>4, <1>5 DEF WebhookNext, Arrive

\* What was done stays done.
LEMMA NothingUndone ==
  ASSUME WebhookTypeOK, [WebhookNext]_webhookVars
  PROVE  /\ payments \subseteq payments' /\ receipts \subseteq receipts'
         /\ converted \subseteq converted' /\ (delivered => delivered')
         /\ \A s \in Sessions : jobs[s] > 0 => jobs'[s] > 0
<1> USE DEF counters, rows
<1>1. ASSUME NEW s \in Sessions, NEW r \in Requests, Deliver(r, s) \/ Reconcile(r, s)
      PROVE  UNCHANGED <<payments, receipts, converted, delivered, jobs>>
  BY <1>1 DEF Deliver, Reconcile
<1>2. ASSUME NEW r \in Requests, SendJob(r)
      PROVE  /\ UNCHANGED <<payments, receipts, converted, delivered>>
             /\ \A s \in Sessions : jobs[s] > 0 => jobs'[s] > 0
  BY <1>2 DEF SendJob, WebhookTypeOK
<1>3. ASSUME NEW r \in Requests, Serve(r) \/ Fail(r)
      PROVE  /\ payments \subseteq payments' /\ receipts \subseteq receipts'
             /\ converted \subseteq converted' /\ UNCHANGED <<delivered, jobs>>
  BY <1>3 DEF Serve, LookupPayment, InsertPayment, FindReport, ReadRun, InsertRun, WriteConfig,
     QueueReceipt, Suppress, Acknowledge, Fail
<1>4. ASSUME NEW s \in Sessions, Complete(s)
      PROVE  UNCHANGED <<payments, receipts, converted, delivered, jobs>>
  BY <1>4 DEF Complete
<1>5. CASE ReportAppears
  BY <1>5 DEF ReportAppears
<1>6. CASE UNCHANGED webhookVars
  BY <1>6 DEF webhookVars
<1> QED
  BY <1>1, <1>2, <1>3, <1>4, <1>5, <1>6 DEF WebhookNext, Arrive

\* So a request that does not move stands where it stood.
LEMMA Standing ==
  ASSUME WebhookIInv, [WebhookNext]_webhookVars, NEW q \in Requests, req'[q] = req[q]
  PROVE  AtLabel(q)'
<1>1. AtLabel(q) /\ WebhookTypeOK
  BY DEF WebhookIInv
<1> QED
  BY <1>1, NothingUndone DEF AtLabel, PaidFor, JobDone, ReceiptDone

-----------------------------------------------------------------------------
\* A request that is being served has behind it what its next label says.
LEMMA NextLabel ==
  ASSUME WebhookIInv, NEW r \in Requests, Serve(r) \/ SendJob(r) \/ Fail(r)
  PROVE  AtLabel(r)'
<1>1. WebhookTypeOK /\ AtLabel(r) /\ req[r].at # "idle"
  BY Serving DEF WebhookIInv
<1>2. req[r].session \in Sessions /\ jobs \in [Sessions -> Nat]
  BY <1>1 DEF AtLabel, WebhookTypeOK
<1>3. CASE req'[r].at = "idle"
  BY <1>3 DEF AtLabel, PaidFor, JobDone, ReceiptDone
<1>4. CASE req'[r].at # "idle"
  <2>1. req'[r].session = req[r].session
    BY <1>1, <1>4, Serving
  <2>2. ASSUME NEW l, Continue(r, l) PROVE req'[r].at = l
    BY <1>1, <2>2 DEF Continue, WebhookTypeOK
  <2>3. ~Respond(r)
    BY <1>1, <1>4, Responding, IdleRequest DEF Moves
  <2> USE DEF RequestAt, Session, counters, rows, AtLabel, PaidFor, JobDone, ReceiptDone
  <2>4. CASE LookupPayment(r)
    BY <1>1, <1>2, <2>1, <2>2, <2>4 DEF LookupPayment
  <2>5. CASE InsertPayment(r)
    BY <1>1, <1>2, <2>1, <2>2, <2>5 DEF InsertPayment
  <2>6. CASE FindReport(r)
    BY <1>1, <1>2, <2>1, <2>2, <2>3, <2>6 DEF FindReport, Queued
  <2>7. CASE ReadRun(r) \/ InsertRun(r)
    <3>1. req'[r].at \in {"write_config", "insert_run"} /\ payments' = payments
      BY <1>1, <2>7, Seeing DEF ReadRun, InsertRun
    <3>2. req[r].session \in payments
      BY <1>1, <2>7 DEF ReadRun, InsertRun
    <3> QED
      BY <1>2, <2>1, <3>1, <3>2
  <2>8. CASE WriteConfig(r)
    BY <1>1, <1>2, <2>1, <2>2, <2>8 DEF WriteConfig
  <2>9. CASE SendJob(r)
    <3>1. req'[r].at = "receipt" /\ jobs'[req[r].session] > 0
      BY <1>2, <2>2, <2>3, <2>9 DEF SendJob, Queued
    <3> QED
      BY <1>1, <1>2, <2>1, <2>9, <3>1 DEF SendJob
  <2>10. CASE QueueReceipt(r)
    BY <1>1, <1>2, <2>1, <2>2, <2>10 DEF QueueReceipt
  <2>11. CASE Suppress(r)
    BY <1>1, <1>2, <2>1, <2>2, <2>11 DEF Suppress
  <2>12. CASE Acknowledge(r) \/ Fail(r)
    BY <2>3, <2>12 DEF Acknowledge, Fail
  <2> QED
    BY <2>4, <2>5, <2>6, <2>7, <2>8, <2>9, <2>10, <2>11, <2>12 DEF Serve
<1> QED
  BY <1>3, <1>4

\* An event is acknowledged by a request at the last label.
LEMMA Acknowledging ==
  ASSUME WebhookIInv, [WebhookNext]_webhookVars,
         NEW s \in Sessions, stripe'[s] = "acked", stripe[s] # "acked"
  PROVE  \E r \in Requests : req[r].at = "respond" /\ req[r].session = s
<1>1. WebhookTypeOK
  BY DEF WebhookIInv
<1> USE DEF counters, rows
<1>2. ASSUME NEW t \in Sessions, Complete(t) PROVE FALSE
  BY <1>1, <1>2 DEF Complete, WebhookTypeOK
<1>3. ASSUME NEW t \in Sessions, NEW r \in Requests, Deliver(r, t) \/ Reconcile(r, t) PROVE FALSE
  BY <1>3 DEF Deliver, Reconcile
<1>4. ASSUME NEW r \in Requests, Serve(r) \/ SendJob(r) \/ Fail(r)
      PROVE  req[r].at = "respond" /\ req[r].session = s
  <2>1. CASE Acknowledge(r)
    BY <1>1, <2>1 DEF Acknowledge, WebhookTypeOK, RequestAt, Session
  <2>2. CASE ~Acknowledge(r)
    BY <1>4, <2>2 DEF Serve, LookupPayment, InsertPayment, FindReport, ReadRun, InsertRun,
       WriteConfig, SendJob, QueueReceipt, Suppress, Fail
  <2> QED
    BY <2>1, <2>2
<1> QED
  BY <1>2, <1>3, <1>4 DEF WebhookNext, Arrive, ReportAppears, webhookVars

LEMMA WebhookStep == WebhookIInv /\ [WebhookNext]_webhookVars => WebhookIInv'
<1> SUFFICES ASSUME WebhookIInv, [WebhookNext]_webhookVars PROVE WebhookIInv'
  OBVIOUS
<1>1. WebhookTypeOK /\ AcknowledgedIsHandled /\ \A r \in Requests : AtLabel(r)
  BY DEF WebhookIInv
<1>2. AcknowledgedIsHandled'
  <2> SUFFICES ASSUME NEW s \in Sessions, stripe'[s] = "acked"
               PROVE  /\ s \in payments' \cap receipts' \cap converted'
                      /\ jobs'[s] > 0 \/ delivered'
    BY DEF AcknowledgedIsHandled
  <2>1. s \in payments \cap receipts \cap converted /\ (jobs[s] > 0 \/ delivered)
    <3>1. CASE stripe[s] = "acked"
      BY <1>1, <3>1 DEF AcknowledgedIsHandled
    <3>2. CASE stripe[s] # "acked"
      BY <1>1, <3>2, Acknowledging DEF AtLabel, PaidFor, JobDone, ReceiptDone
    <3> QED
      BY <3>1, <3>2
  <2> QED
    BY <1>1, <2>1, NothingUndone
<1>3. ASSUME NEW q \in Requests PROVE AtLabel(q)'
  <2>1. CASE req'[q] = req[q]
    BY <2>1, Standing
  <2>2. ASSUME NEW s \in Sessions, NEW r \in Requests, Deliver(r, s) \/ Reconcile(r, s), r = q
        PROVE  AtLabel(q)'
    <3>1. req'[q].at = "lookup" /\ req'[q].session = s
      BY <1>1, <2>2, Accepting
    <3> QED
      BY <3>1 DEF AtLabel, PaidFor, JobDone, ReceiptDone
  <2>3. ASSUME NEW r \in Requests, Serve(r) \/ SendJob(r) \/ Fail(r)
        PROVE  AtLabel(q)'
    <3>1. CASE r = q
      BY <2>3, <3>1, NextLabel
    <3>2. CASE r # q
      BY <1>1, <2>1, <2>3, <3>2, Serving DEF Moves
    <3> QED
      BY <3>1, <3>2
  <2>4. ASSUME NEW s \in Sessions, NEW r \in Requests, Deliver(r, s) \/ Reconcile(r, s), r # q
        PROVE  AtLabel(q)'
    BY <1>1, <2>1, <2>4 DEF Deliver, Reconcile, Accept, WebhookTypeOK
  <2>5. ASSUME NEW s \in Sessions, Complete(s) PROVE AtLabel(q)'
    BY <2>1, <2>5 DEF Complete
  <2>6. CASE ReportAppears \/ UNCHANGED webhookVars
    BY <2>1, <2>6 DEF ReportAppears, webhookVars
  <2> QED
    BY <2>2, <2>3, <2>4, <2>5, <2>6 DEF WebhookNext, Arrive
<1> QED
  BY <1>2, <1>3, WebhookTypeStep DEF WebhookIInv

LEMMA WebhookInductive == WebhookSpec => []WebhookIInv
BY WebhookStarts, WebhookStep, PTL DEF WebhookSpec, WebhookSafety

(***************************************************************************)
(* Type correctness, for any sessions, requests and bounds.                *)
(***************************************************************************)
THEOREM WebhookTypeCorrect == WebhookSpec => []WebhookTypeOK
<1>1. WebhookIInv => WebhookTypeOK
  BY DEF WebhookIInv
<1> QED
  BY <1>1, WebhookInductive, PTL

(***************************************************************************)
(* However many deliveries and reconciles run at the same time, and        *)
(* wherever they fail: a session that Stripe was told is handled has its   *)
(* payment, its job or report, its receipt, and its buyer out of           *)
(* marketing.                                                              *)
(***************************************************************************)
THEOREM AcknowledgedIsAlwaysHandled == WebhookSpec => []AcknowledgedIsHandled
<1>1. WebhookIInv => AcknowledgedIsHandled
  BY DEF WebhookIInv
<1> QED
  BY <1>1, WebhookInductive, PTL

=============================================================================
