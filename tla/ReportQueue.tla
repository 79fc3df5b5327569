---------------------------- MODULE ReportQueue ----------------------------
(***************************************************************************)
(* The paid deep-audit job on Cloudflare Queues: the consumer of the main  *)
(* queue and of its dead-letter queue (workers/queue/report-queue-         *)
(* consumer.ts), the guarded replay (workers/queue/dlq-replay.ts), and the *)
(* platform's at-least-once delivery with its attempt counters.            *)
(*                                                                         *)
(* One action per point where the code touches a store, the queue or the   *)
(* mail provider; an invocation may die between any two of them.  What the *)
(* crawl does to its pages is the business of DeepAuditCrawl; here it only *)
(* has an outcome.                                                         *)
(***************************************************************************)
EXTENDS Integers, FiniteSets

CONSTANTS
  Payments,        \* payment references: one job each
  Scans,           \* rows of scans
  ScanOf,          \* the scan a payment bought the audit of
  Preview,         \* payments whose job is a v3 campaign preview: no email
  Messages,        \* slots for the messages that exist at one time
  Consumers,       \* invocations of the queue handler that run at one time
  NoJob, NoMessage,
  MaxAttempts,     \* REPORT_QUEUE_MAX_ATTEMPTS
  MaxRetries,      \* max_retries of the main queue
  DlqMaxRetries,   \* max_retries of the dead-letter queue
  MaxSends,        \* bound: messages the producers send for one payment
  MaxChunks,       \* bound: partial crawls of one scan
  MaxReplays       \* bound: replays of one payment; beyond it the send fails

ASSUME ScansAssumption == ScanOf \in [Payments -> Scans] /\ Preview \subseteq Payments
ASSUME NoneAssumption == NoJob \notin Payments /\ NoMessage \notin Messages
ASSUME LimitsAssumption ==
  /\ MaxAttempts \in Nat /\ MaxRetries \in Nat /\ DlqMaxRetries \in Nat
  /\ MaxSends \in Nat /\ MaxChunks \in Nat /\ MaxReplays \in Nat

ASSUME ConsumersAssumption == IsFiniteSet(Consumers)

VARIABLES
  msgs,      \* the messages on the two queues, held ones included
  pc,        \* where each invocation is in the handler
  held,      \* the message each invocation is handling
  mark,      \* payments with the key report:dlq-replay:<payment> in SCAN_CACHE
  scan,      \* scans.status
  reports,   \* deep_audit rows of reports inserted for each payment
  mailed,    \* payments whose report email the provider has accepted
  chunks,    \* partial crawls so far
  sent,      \* messages the producers have sent for each payment
  replays,   \* messages the dead-letter handler has sent for each payment
  ended      \* how copies of a payment's job were given up

vars == <<msgs, pc, held, mark, scan, reports, mailed, chunks, sent, replays, ended>>

-----------------------------------------------------------------------------
MainPcs == {"check", "crawl", "requeue", "render", "email", "insert", "failed"}
DlqPcs  == {"dlq_mail", "dlq_check", "dlq_send", "dlq_put"}
EndPcs  == {"ack", "retry"}
Endings == {"terminal", "suppressed", "exhausted"}

FreeSlot == [at |-> "free", job |-> NoJob, attempts |-> 0]
Fresh(queue, p) == [at |-> queue, job |-> p, attempts |-> 1]

Job(c) == msgs[held[c]].job
Scan(c) == ScanOf[Job(c)]
Held(m) == \E c \in Consumers : held[c] = m
Reported(s) == \E p \in Payments : ScanOf[p] = s /\ reports[p] > 0

Goto(c, label) == pc' = [pc EXCEPT ![c] = label]

Release(c) == /\ pc' = [pc EXCEPT ![c] = "idle"]
              /\ held' = [held EXCEPT ![c] = NoMessage]

\* queue.send(): a message of its own, with its own attempt counter.
Send(m, p) == /\ msgs[m].at = "free"
              /\ msgs' = [msgs EXCEPT ![m] = Fresh("main", p)]

-----------------------------------------------------------------------------
Init ==
  /\ msgs = [m \in Messages |-> FreeSlot]
  /\ pc = [c \in Consumers |-> "idle"]
  /\ held = [c \in Consumers |-> NoMessage]
  /\ mark = {}
  /\ scan \in [Scans -> {"queued", "complete"}]
  /\ reports = [p \in Payments |-> 0]
  /\ mailed = {}
  /\ chunks = [s \in Scans |-> 0]
  /\ sent = [p \in Payments |-> 0]
  /\ replays = [p \in Payments |-> 0]
  /\ ended = [p \in Payments |-> {}]

(***************************************************************************)
(* A producer (the Stripe webhook, the reconcile route, the campaign       *)
(* preparation) puts a job on the main queue.  It looked for a report      *)
(* earlier, so nothing here forbids a second message for a payment.        *)
(***************************************************************************)
Enqueue(p) ==
  /\ sent[p] < MaxSends
  /\ \E m \in Messages : Send(m, p)
  /\ sent' = [sent EXCEPT ![p] = @ + 1]
  /\ UNCHANGED <<pc, held, mark, scan, reports, mailed, chunks, replays, ended>>

\* The platform hands a message to an invocation: dispatchQueueBatch takes
\* the branch of the queue the batch came from.
Receive(c, m) ==
  /\ pc[c] = "idle"
  /\ msgs[m].at # "free" /\ ~Held(m)
  /\ held' = [held EXCEPT ![c] = m]
  /\ Goto(c, IF msgs[m].at = "main" THEN "check" ELSE "dlq_mail")
  /\ UNCHANGED <<msgs, mark, scan, reports, mailed, chunks, sent, replays, ended>>

-----------------------------------------------------------------------------
(***************************************************************************)
(* processReportJob.                                                       *)
(***************************************************************************)
\* Faulty variants: the report is not looked for; a completed scan is taken
\* for a delivered one.
CheckReportSkipped(c) ==
  /\ pc[c] = "check"
  /\ Goto(c, "crawl")
  /\ UNCHANGED <<msgs, held, mark, scan, reports, mailed, chunks, sent, replays, ended>>

CheckReportByStatus(c) ==
  /\ pc[c] = "check"
  /\ Goto(c, IF scan[Scan(c)] = "complete" THEN "ack" ELSE "crawl")
  /\ UNCHANGED <<msgs, held, mark, scan, reports, mailed, chunks, sent, replays, ended>>

\* A message for a scan that has its report is acknowledged, not run.
CheckReport(c) ==
  /\ pc[c] = "check"
  /\ Goto(c, IF Reported(Scan(c)) THEN "ack" ELSE "crawl")
  /\ UNCHANGED <<msgs, held, mark, scan, reports, mailed, chunks, sent, replays, ended>>

CrawlComplete(c) ==
  /\ pc[c] = "crawl"
  /\ Goto(c, "render")
  /\ UNCHANGED <<msgs, held, mark, scan, reports, mailed, chunks, sent, replays, ended>>

CrawlPartial(c) ==
  /\ pc[c] = "crawl"
  /\ chunks[Scan(c)] < MaxChunks
  /\ chunks' = [chunks EXCEPT ![Scan(c)] = @ + 1]
  /\ Goto(c, "requeue")
  /\ UNCHANGED <<msgs, held, mark, scan, reports, mailed, sent, replays, ended>>

\* Faulty variant: the message of a partial crawl is acknowledged unsent.
RequeueDropped(c) ==
  /\ pc[c] = "requeue"
  /\ Goto(c, "ack")
  /\ UNCHANGED <<msgs, held, mark, scan, reports, mailed, chunks, sent, replays, ended>>

\* SCAN_QUEUE.send(rawBody): the continuation is a new message.
Requeue(c) ==
  /\ pc[c] = "requeue"
  /\ \E m \in Messages : Send(m, Job(c))
  /\ Goto(c, "ack")
  /\ UNCHANGED <<held, mark, scan, reports, mailed, chunks, sent, replays, ended>>

\* The pages become a report: scans is completed whatever its status was.
Render(c) ==
  /\ pc[c] = "render"
  /\ scan' = [scan EXCEPT ![Scan(c)] = "complete"]
  /\ Goto(c, "email")
  /\ UNCHANGED <<msgs, held, mark, reports, mailed, chunks, sent, replays, ended>>

\* The QA gate or the upload throws after scans was completed.
RenderThrows(c) ==
  /\ pc[c] = "render"
  /\ scan' = [scan EXCEPT ![Scan(c)] = "complete"]
  /\ Goto(c, "failed")
  /\ UNCHANGED <<msgs, held, mark, reports, mailed, chunks, sent, replays, ended>>

\* Preview jobs skip the email; the others mail once per idempotency key.
SendEmail(c) ==
  /\ pc[c] = "email"
  /\ mailed' = IF Job(c) \in Preview THEN mailed ELSE mailed \cup {Job(c)}
  /\ Goto(c, "insert")
  /\ UNCHANGED <<msgs, held, mark, scan, reports, chunks, sent, replays, ended>>

\* Faulty variant: the result of the send is not looked at.
EmailUnchecked(c) ==
  /\ pc[c] = "email"
  /\ Job(c) \notin Preview
  /\ mailed' \in {mailed, mailed \cup {Job(c)}}
  /\ Goto(c, "insert")
  /\ UNCHANGED <<msgs, held, mark, scan, reports, chunks, sent, replays, ended>>

\* The request times out: the provider may have taken it all the same.
EmailTimesOut(c) ==
  /\ pc[c] = "email"
  /\ Job(c) \notin Preview
  /\ mailed' \in {mailed, mailed \cup {Job(c)}}
  /\ Goto(c, "failed")
  /\ UNCHANGED <<msgs, held, mark, scan, reports, chunks, sent, replays, ended>>

InsertReport(c) ==
  /\ pc[c] = "insert"
  /\ reports' = [reports EXCEPT ![Job(c)] = @ + 1]
  /\ Goto(c, "ack")
  /\ UNCHANGED <<msgs, held, mark, scan, mailed, chunks, sent, replays, ended>>

\* Faulty variant: the error is logged and swallowed.
ThrowSwallowed(c) ==
  /\ pc[c] \in MainPcs \ {"email", "failed"}
  /\ Goto(c, "ack")
  /\ UNCHANGED <<msgs, held, mark, scan, reports, mailed, chunks, sent, replays, ended>>

\* A store, the crawl or the queue fails, and the handler throws.
Throw(c) ==
  /\ pc[c] \in MainPcs \ {"email", "failed"}
  /\ Goto(c, "failed")
  /\ UNCHANGED <<msgs, held, mark, scan, reports, mailed, chunks, sent, replays, ended>>

(***************************************************************************)
(* persistReportJobFailure: the failure is terminal when the payment is    *)
(* marked as replayed and this delivery is at the limit.  A KV error reads *)
(* as "not replayed"; an error of the scans update is only logged.         *)
(***************************************************************************)
LastAttempt(c) == msgs[held[c]].attempts >= MaxAttempts   \* faulty: the mark is not read

LastReplayAttempt(c) == Job(c) \in mark /\ msgs[held[c]].attempts >= MaxAttempts

MarkFailedAlways(s) == [scan EXCEPT ![s] = "failed"]       \* faulty: no status guard
MarkErrored(s) == [scan EXCEPT ![s] = "errored"]           \* faulty: not a scan status

MarkFailed(s) == IF scan[s] = "queued" THEN [scan EXCEPT ![s] = "failed"] ELSE scan

RecordFailure(c) ==
  /\ pc[c] = "failed"
  /\ \/ /\ LastReplayAttempt(c)
        /\ scan' \in {scan, MarkFailed(Scan(c))}
        /\ ended' = [ended EXCEPT ![Job(c)] = @ \cup {"terminal"}]
        /\ Goto(c, "ack")
     \/ /\ Goto(c, "retry")
        /\ UNCHANGED <<scan, ended>>
  /\ UNCHANGED <<msgs, held, mark, reports, mailed, chunks, sent, replays>>

-----------------------------------------------------------------------------
(***************************************************************************)
(* handleDlqMessage and replayReportJobFromDlq.                            *)
(***************************************************************************)
\* The delay notice goes to the lifecycle queue; its result is not looked at.
DlqNotify(c) ==
  /\ pc[c] = "dlq_mail"
  /\ Goto(c, "dlq_check")
  /\ UNCHANGED <<msgs, held, mark, scan, reports, mailed, chunks, sent, replays, ended>>

DlqCheckMark(c) ==
  /\ pc[c] = "dlq_check"
  /\ IF Job(c) \in mark
     THEN /\ Goto(c, "ack")
          /\ ended' = [ended EXCEPT ![Job(c)] = @ \cup {"suppressed"}]
     ELSE /\ Goto(c, "dlq_send")
          /\ UNCHANGED ended
  /\ UNCHANGED <<msgs, held, mark, scan, reports, mailed, chunks, sent, replays>>

DlqSend(c) ==
  /\ pc[c] = "dlq_send"
  /\ replays[Job(c)] < MaxReplays
  /\ \E m \in Messages : Send(m, Job(c))
  /\ replays' = [replays EXCEPT ![Job(c)] = @ + 1]
  /\ Goto(c, "dlq_put")
  /\ UNCHANGED <<held, mark, scan, reports, mailed, chunks, sent, ended>>

DlqPutMark(c) ==
  /\ pc[c] = "dlq_put"
  /\ mark' = mark \cup {Job(c)}
  /\ Goto(c, "ack")
  /\ UNCHANGED <<msgs, held, scan, reports, mailed, chunks, sent, replays, ended>>

DlqThrow(c) ==
  /\ pc[c] \in DlqPcs
  /\ Goto(c, "retry")
  /\ UNCHANGED <<msgs, held, mark, scan, reports, mailed, chunks, sent, replays, ended>>

-----------------------------------------------------------------------------
(***************************************************************************)
(* How a delivery ends.                                                    *)
(***************************************************************************)
Ack(c) ==
  /\ pc[c] = "ack"
  /\ msgs' = [msgs EXCEPT ![held[c]] = FreeSlot]
  /\ Release(c)
  /\ UNCHANGED <<mark, scan, reports, mailed, chunks, sent, replays, ended>>

\* The platform redelivers up to max_retries times; then a main-queue message
\* moves to the dead-letter queue, and a dead letter is deleted.
RetriesLeft(msg) == msg.attempts <= IF msg.at = "main" THEN MaxRetries ELSE DlqMaxRetries

DeadLetter(msg) == msg.at = "dlq" /\ ~RetriesLeft(msg)

Redelivered(msg) == IF RetriesLeft(msg) THEN [msg EXCEPT !.attempts = @ + 1]
                    ELSE IF DeadLetter(msg) THEN FreeSlot ELSE Fresh("dlq", msg.job)

Redeliver(c) ==
  /\ msgs' = [msgs EXCEPT ![held[c]] = Redelivered(msgs[held[c]])]
  /\ ended' = IF DeadLetter(msgs[held[c]])
              THEN [ended EXCEPT ![Job(c)] = @ \cup {"exhausted"}] ELSE ended
  /\ Release(c)
  /\ UNCHANGED <<mark, scan, reports, mailed, chunks, sent, replays>>

Retry(c) == pc[c] = "retry" /\ Redeliver(c)

\* The invocation is killed before it answered for its message.
Crash(c) == pc[c] \notin {"idle", "retry"} /\ Redeliver(c)

-----------------------------------------------------------------------------
Handle(c) ==
  \/ CheckReport(c) \/ CrawlComplete(c) \/ CrawlPartial(c) \/ Requeue(c)
  \/ Render(c) \/ RenderThrows(c) \/ SendEmail(c) \/ EmailTimesOut(c)
  \/ InsertReport(c) \/ Throw(c) \/ RecordFailure(c)
  \/ DlqNotify(c) \/ DlqCheckMark(c) \/ DlqSend(c) \/ DlqPutMark(c) \/ DlqThrow(c)
  \/ Ack(c) \/ Retry(c)

Deliver == \E c \in Consumers, m \in Messages : Receive(c, m)

Next ==
  \/ \E p \in Payments : Enqueue(p)
  \/ Deliver
  \/ \E c \in Consumers : Handle(c) \/ Crash(c)

Safety == Init /\ [][Next]_vars

(***************************************************************************)
(* The platform keeps delivering and an invocation that is not killed runs *)
(* on.  Nothing is assumed of the producers, and a crash is never due.     *)
(***************************************************************************)
Fairness == WF_vars(Deliver) /\ \A c \in Consumers : WF_vars(Handle(c))

Spec == Safety /\ Fairness

-----------------------------------------------------------------------------
TypeOK ==
  /\ msgs \in [Messages -> [at : {"free", "main", "dlq"},
                            job : Payments \cup {NoJob}, attempts : Nat]]
  /\ pc \in [Consumers -> {"idle"} \cup MainPcs \cup DlqPcs \cup EndPcs]
  /\ held \in [Consumers -> Messages \cup {NoMessage}]
  /\ mark \subseteq Payments
  /\ scan \in [Scans -> {"queued", "complete", "failed"}]
  /\ reports \in [Payments -> Nat]
  /\ mailed \subseteq Payments
  /\ chunks \in [Scans -> 0..MaxChunks]
  /\ sent \in [Payments -> 0..MaxSends]
  /\ replays \in [Payments -> Nat]
  /\ ended \in [Payments -> SUBSET Endings]

\* An invocation that has answered for its message, or is about to: the
\* message it holds no longer counts as a copy of the job.
Spent(c) == pc[c] \in {"ack", "dlq_put"}

\* A copy of p's job that will still be worked on.
Pending(p) ==
  \E m \in Messages :
    /\ msgs[m].at # "free" /\ msgs[m].job = p
    /\ \A c \in Consumers : held[c] = m => ~Spent(c)

Settled(p) == Reported(ScanOf[p]) \/ ended[p] # {}

(***************************************************************************)
(* A paid job is never silently lost: once a message was sent for a        *)
(* payment, either a copy that nobody has finished with is on a queue, or  *)
(* the scan has its report, or the job was given up in a recorded way      *)
(* (terminal failure, suppressed replay, dead letter exhausted).  About    *)
(* the order of send and acknowledge in continuation, replay and failure.  *)
(***************************************************************************)
NoSilentLoss == \A p \in Payments : sent[p] > 0 => Pending(p) \/ Settled(p)

(***************************************************************************)
(* The handler gives a job up (a terminal failure, a suppressed dead       *)
(* letter) only after the one replay the dead-letter handler owes it was   *)
(* put on the main queue: about send-before-put in replayReportJobFromDlq. *)
(***************************************************************************)
GiveUpOnlyAfterReplay ==
  \A p \in Payments : ended[p] \cap {"terminal", "suppressed"} # {} => replays[p] > 0

(***************************************************************************)
(* A report row stamped email_delivered_at belongs to a job whose email    *)
(* the provider accepted, and no campaign preview is ever mailed: about    *)
(* the order of email and insert across retries.                           *)
(***************************************************************************)
DeliveredMeansMailed ==
  /\ \A p \in Payments \ Preview : reports[p] > 0 => p \in mailed
  /\ mailed \cap Preview = {}

(***************************************************************************)
(* A delivered scan is never shown as failed, whichever of two copies of   *)
(* the job fails terminally while another one delivers: about the          *)
(* .eq('status', 'queued') guard of persistReportJobFailure.               *)
(***************************************************************************)
DeliveredIsComplete ==
  \A p \in Payments : reports[p] > 0 => scan[ScanOf[p]] = "complete"

\* With one invocation at a time a scan gets one report, however often its
\* message is redelivered, continued, replayed or sent again: about the
\* existing-report check at the top of processReportJob.
OneReportPerScan ==
  \A p, q \in Payments :
    ScanOf[p] = ScanOf[q] /\ reports[p] > 0 => reports[p] = 1 /\ (q = p \/ reports[q] = 0)

(***************************************************************************)
(* A payment's report is inserted again only by a copy of its job that was *)
(* past the check when the first one was inserted: never more reports than *)
(* invocations at one time, however many copies, redeliveries and replays  *)
(* come after.  About the check and the insert with other copies between   *)
(* them, as reports has no unique key on the scan.                         *)
(***************************************************************************)
DuplicatesWereInFlight == \A p \in Payments : reports[p] <= Cardinality(Consumers)

\* Every paid job comes to an end: a report, or a recorded giving-up.
JobSettles == \A p \in Payments : (sent[p] > 0) ~> Settled(p)

-----------------------------------------------------------------------------
(***************************************************************************)
(* What the safety invariants rest on (ReportQueue_proofs).                *)
(***************************************************************************)
\* A message on a queue carries a job.
MessagesOK == \A m \in Messages : msgs[m].at # "free" => msgs[m].job \in Payments

\* An invocation at work holds a message of the queue its branch belongs to,
\* and holds it alone.
HoldersOK ==
  /\ \A c \in Consumers :
       /\ pc[c] = "idle" <=> held[c] = NoMessage
       /\ pc[c] # "idle" => msgs[held[c]].at # "free"
       /\ pc[c] \in MainPcs => msgs[held[c]].at = "main"
       /\ pc[c] \in DlqPcs => msgs[held[c]].at = "dlq"
  /\ \A c, d \in Consumers : held[c] # NoMessage /\ held[c] = held[d] => c = d

\* The steps that come before a report row, and before a mark.
OrderOK ==
  /\ \A c \in Consumers :
       /\ pc[c] = "insert" => Job(c) \in mailed \cup Preview
       /\ pc[c] \in {"email", "insert"} => scan[Scan(c)] = "complete"
       /\ pc[c] = "dlq_put" => replays[Job(c)] > 0
  /\ \A p \in mark : replays[p] > 0

IInv == /\ TypeOK /\ MessagesOK /\ HoldersOK /\ OrderOK
        /\ NoSilentLoss /\ GiveUpOnlyAfterReplay /\ DeliveredMeansMailed /\ DeliveredIsComplete

=============================================================================
