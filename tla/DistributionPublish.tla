-------------------------- MODULE DistributionPublish --------------------------
(***************************************************************************)
(* Publishing of a distribution job (distribution-job-dispatcher.ts): the  *)
(* sweep that puts due jobs on the queue, the consumer and the operator    *)
(* that dispatch them, the dead letters, and the agent Maya, who queues    *)
(* again what looks stalled.                                               *)
(*                                                                         *)
(* Nobody claims a job: dispatchers of one job may run at the same time,   *)
(* die between two calls, and find that a call failed, with or without its *)
(* effect.  LinkedIn's rules differ from those of the other providers.     *)
(*                                                                         *)
(* A job is its status.  "queued" is also a scheduled job whose time has   *)
(* come, "published" also a draft left at the provider, and "exhausted" a  *)
(* failed job whose error says that its retries ran out.                   *)
(***************************************************************************)
EXTENDS Integers

CONSTANTS
  Jobs,
  Consumers,       \* invocations of the queue consumer at one time
  Operators,       \* requests of operators at one time
  Messages,        \* places for messages on the two queues
  Direct,          \* stands for no message: an operator dispatches
  MaxAttempts,     \* MAX_AUTONOMOUS_DISTRIBUTION_ATTEMPTS
  Deliveries,      \* max_retries + 1 of the queue
  DeadDeliveries,  \* max_retries + 1 of its dead-letter queue
  MaxFaults,       \* bound: calls and invocations that fail
  MaxRequeues      \* bound: jobs that Maya queues again

ASSUME JobsAssumption == Jobs # {} /\ Direct \notin Messages
ASSUME LimitsAssumption ==
  /\ MaxAttempts \in Nat \ {0} /\ Deliveries \in Nat \ {0} /\ DeadDeliveries \in Nat \ {0}
  /\ MaxFaults \in Nat /\ MaxRequeues \in Nat

VARIABLES
  job,          \* status of each row of distribution_jobs; "none" is not there yet
  linkedIn,     \* the jobs of LinkedIn accounts
  attempts,     \* number of attempt rows of a job
  evidence,     \* jobs with the row of an attempt that posted
  rescheduled,  \* how often the error path scheduled a job again
  posts,        \* what the provider accepted for a job, counted up to two
  disturbed,    \* jobs dispatched twice at one time, or queued again by Maya
  message,      \* the two queues
  run,          \* what each dispatch is doing
  seen,         \* jobs that Maya found stalled when she read them
  requeues, faults

publishVars == <<job, linkedIn, attempts, evidence, rescheduled, posts, disturbed, message,
                 run, seen, requeues, faults>>
rowVars == <<attempts, evidence>>
historyVars == <<rescheduled, posts, disturbed>>
mayaVars == <<linkedIn, seen, requeues>>

-----------------------------------------------------------------------------
Dispatchers == Consumers \cup Operators

Dispatchable == {"scheduled", "queued", "processing"}
Ended == {"published", "failed", "exhausted"}
Working == {"claim", "prepare", "publish", "record", "finish", "list", "note", "settle"}

NoMessage == [queue |-> "none", job |-> CHOOSE j \in Jobs : TRUE, tries |-> 0, held |-> FALSE]
Idle == [at |-> "idle", job |-> CHOOSE j \in Jobs : TRUE, message |-> Direct,
         stale |-> FALSE, number |-> 0, transient |-> FALSE]

Fault == faults < MaxFaults /\ faults' = faults + 1
NoFault == UNCHANGED faults

\* A call that fails may have had its effect.
Call(effect, nothing, succeeds, fails) ==
  \/ effect /\ succeeds /\ NoFault
  \/ (effect \/ nothing) /\ fails /\ Fault

Job(d) == run[d].job
At(d, label) == run[d].at = label
Step(d, next) == run' = [run EXCEPT ![d] = next]
On(d) == [Idle EXCEPT !.job = Job(d), !.message = run[d].message]
Goto(d, label) == Step(d, [On(d) EXCEPT !.at = label])
Counted(d, label) == Step(d, [run[d] EXCEPT !.at = label, !.number = attempts[Job(d)] + 1])
FailAs(d, transient) == Step(d, [On(d) EXCEPT !.at = "list", !.transient = transient])
SetStatus(j, status) == job' = [job EXCEPT ![j] = status]

WorksOn(d, j) == run[d].at \in Working /\ Job(d) = j

PublishInit ==
  /\ job = [j \in Jobs |-> "none"]
  /\ linkedIn \in SUBSET Jobs
  /\ attempts = [j \in Jobs |-> 0] /\ evidence = {}
  /\ rescheduled = [j \in Jobs |-> 0] /\ posts = [j \in Jobs |-> 0]
  /\ disturbed = {} /\ seen = {}
  /\ message = [m \in Messages |-> NoMessage]
  /\ run = [d \in Dispatchers |-> Idle]
  /\ requeues = 0 /\ faults = 0

-----------------------------------------------------------------------------
(***************************************************************************)
(* How jobs come up, and how they reach a dispatcher.                      *)
(***************************************************************************)
CreateJob(j) ==
  /\ job[j] = "none"
  /\ \E status \in {"queued", "scheduled"} : SetStatus(j, status)
  /\ UNCHANGED <<rowVars, historyVars, message, run, mayaVars, faults>>

ComeDue(j) ==
  /\ job[j] = "scheduled" /\ SetStatus(j, "queued")
  /\ UNCHANGED <<rowVars, historyVars, message, run, mayaVars, faults>>

ListedOnce(j) == job[j] = "queued" /\ attempts[j] = 0   \* faulty: no second try

\* listDispatchableJobs.
Listed(j) == job[j] = "queued"

\* runScheduledDistributionDispatch, twice in each run of the cron handler: a
\* message for a due job, whether or not there is one already.
SendDue(j, m) ==
  /\ Listed(j) /\ message[m].queue = "none"
  /\ message' = [message EXCEPT ![m] = [NoMessage EXCEPT !.queue = "main", !.job = j]]
  /\ UNCHANGED <<job, rowVars, historyVars, run, mayaVars, faults>>

\* A dispatch that ends, well or with an error, acknowledges its message.
Done(d) == IF run[d].message = Direct THEN Step(d, Idle) ELSE Goto(d, "ack")

-----------------------------------------------------------------------------
(***************************************************************************)
(* dispatchDistributionJobById.                                            *)
(***************************************************************************)
\* The status is all that is looked at, not the time the job is scheduled for.
Begin(d, j, m) ==
  /\ Step(d, [Idle EXCEPT !.job = j, !.message = m, !.at = "claim", !.stale = (job[j] = "processing")])
  /\ disturbed' = disturbed \cup {k \in {j} : \E e \in Dispatchers : WorksOn(e, k)}

Taken(m) == [message[m] EXCEPT !.held = TRUE, !.tries = message[m].tries + 1]

\* A job that is not dispatchable is left alone; a read that fails ends the
\* dispatch.
Receive(d, m) ==
  /\ At(d, "idle") /\ message[m].queue = "main" /\ ~message[m].held
  /\ message' = [message EXCEPT ![m] = Taken(m)]
  /\ \/ job[message[m].job] \in Dispatchable /\ Begin(d, message[m].job, m) /\ NoFault
     \/ /\ IF job[message[m].job] \in Dispatchable THEN Fault ELSE NoFault
        /\ Step(d, [Idle EXCEPT !.job = message[m].job, !.message = m, !.at = "ack"])
        /\ UNCHANGED disturbed
  /\ UNCHANGED <<job, rowVars, rescheduled, posts, mayaVars>>

\* dispatchDistributionJobs, over a list that may be old when it comes to a job.
DispatchDirectly(d, j) ==
  /\ At(d, "idle") /\ job[j] \in Dispatchable /\ Begin(d, j, Direct)
  /\ UNCHANGED <<job, rowVars, rescheduled, posts, message, mayaVars, faults>>

\* Not a compare-and-set.
Claim(d) ==
  /\ At(d, "claim")
  /\ IF run[d].stale
     THEN UNCHANGED job /\ Step(d, [run[d] EXCEPT !.at = "prepare"]) /\ NoFault
     ELSE Call(SetStatus(Job(d), "processing"), UNCHANGED job, Goto(d, "prepare"), FailAs(d, FALSE))
  /\ UNCHANGED <<rowVars, historyVars, message, mayaVars>>

MayAlwaysStart(d) == TRUE                     \* faulty: a stale job is published

\* canStartLinkedInProviderPublish, on the status that was read.
MayStart(d) == Job(d) \notin linkedIn \/ ~run[d].stale

\* The checks, the token, the uploads, and a refusal of the post, each of
\* which may be the end; the attempt is numbered before the post.
Prepare(d) ==
  /\ At(d, "prepare")
  /\ \/ FailAs(d, FALSE)
     \/ MayStart(d) /\ FailAs(d, TRUE)
     \/ MayStart(d) /\ Counted(d, "publish")
  /\ UNCHANGED <<job, rowVars, historyVars, message, mayaVars, faults>>

Post(j) == posts' = [posts EXCEPT ![j] = IF @ < 2 THEN @ + 1 ELSE @]

\* A post whose outcome is unknown is tried again, but not on LinkedIn.
TransientPost(d) == Job(d) \notin linkedIn

\* faulty: a timeout counts as accepted
PublishHopefully(d) ==
  /\ At(d, "publish")
  /\ Post(Job(d)) \/ UNCHANGED posts
  /\ Step(d, [run[d] EXCEPT !.at = "record"])
  /\ UNCHANGED <<job, rowVars, rescheduled, disturbed, message, mayaVars, faults>>

Publish(d) ==
  /\ At(d, "publish")
  /\ \/ Post(Job(d)) /\ Step(d, [run[d] EXCEPT !.at = "record"])
     \/ (Post(Job(d)) \/ UNCHANGED posts) /\ FailAs(d, TransientPost(d))
  /\ UNCHANGED <<job, rowVars, rescheduled, disturbed, message, mayaVars, faults>>

InsertAlways(d) == TRUE                       \* faulty: no unique key

\* Rows are numbered by a count of the rows and unique in it: 1 to attempts.
Insertable(d) == run[d].number > attempts[Job(d)]
Insert(d) == attempts' = [attempts EXCEPT ![Job(d)] = @ + 1]

RecordSuccess(d) ==
  /\ At(d, "record")
  /\ IF Insertable(d)
     THEN Call(Insert(d) /\ evidence' = evidence \cup {Job(d)}, UNCHANGED rowVars,
               Goto(d, "finish"), FailAs(d, FALSE))
     ELSE UNCHANGED rowVars /\ FailAs(d, FALSE) /\ NoFault
  /\ UNCHANGED <<job, historyVars, message, mayaVars>>

MarkPublished(d) ==
  /\ At(d, "finish")
  /\ Call(SetStatus(Job(d), "published"), UNCHANGED job, Done(d), FailAs(d, FALSE))
  /\ UNCHANGED <<rowVars, historyVars, message, mayaVars>>

\* The error path: whatever fails in it ends the dispatch.
ListAttempts(d) ==
  /\ At(d, "list")
  /\ \/ Counted(d, "note") /\ NoFault
     \/ Done(d) /\ Fault
  /\ UNCHANGED <<job, rowVars, historyVars, message, mayaVars>>

RecordError(d) ==
  /\ At(d, "note")
  /\ IF Insertable(d)
     THEN Call(Insert(d), UNCHANGED attempts, Step(d, [run[d] EXCEPT !.at = "settle"]), Done(d))
     ELSE UNCHANGED attempts /\ Done(d) /\ NoFault
  /\ UNCHANGED <<job, evidence, historyVars, message, mayaVars>>

RetryAllowed(d) == run[d].transient /\ run[d].number < MaxAttempts

Reschedule(d) ==
  /\ SetStatus(Job(d), "scheduled")
  /\ rescheduled' = [rescheduled EXCEPT ![Job(d)] = @ + 1]

GiveUp(d) ==
  /\ SetStatus(Job(d), IF run[d].transient THEN "exhausted" ELSE "failed")
  /\ UNCHANGED rescheduled

\* Neither looks at the status the job has by now.
Settle(d) ==
  /\ At(d, "settle")
  /\ Call(IF RetryAllowed(d) THEN Reschedule(d) ELSE GiveUp(d), UNCHANGED <<job, rescheduled>>,
          Done(d), Done(d))
  /\ UNCHANGED <<rowVars, posts, disturbed, message, mayaVars>>

-----------------------------------------------------------------------------
(***************************************************************************)
(* The queues: a message is acknowledged when its dispatch has ended; one  *)
(* whose dispatch died is delivered again.                                 *)
(***************************************************************************)
Ack(d) ==
  /\ At(d, "ack") /\ Step(d, Idle)
  /\ message' = [message EXCEPT ![run[d].message] = NoMessage]
  /\ UNCHANGED <<job, rowVars, historyVars, mayaVars, faults>>

ReturnedForever(m) == [message[m] EXCEPT !.held = FALSE]   \* faulty: never a dead letter

Returned(m) ==
  CASE message[m].queue = "main" /\ message[m].tries >= Deliveries ->
         [NoMessage EXCEPT !.queue = "dead", !.job = message[m].job]
    [] message[m].queue = "dead" /\ message[m].tries >= DeadDeliveries -> NoMessage
    [] OTHER -> [message[m] EXCEPT !.held = FALSE]

Return(d) ==
  /\ Step(d, Idle)
  /\ message' = [m \in Messages |-> IF m = run[d].message THEN Returned(m) ELSE message[m]]

\* handleDistributionDlqMessage: an attempt more, and the job has failed,
\* whatever its status; an error delivers the dead letter again.
ReceiveDead(d, m) ==
  /\ At(d, "idle") /\ message[m].queue = "dead" /\ ~message[m].held
  /\ message' = [message EXCEPT ![m] = Taken(m)]
  /\ Step(d, [Idle EXCEPT !.job = message[m].job, !.message = m, !.at = "dead_note",
                !.number = attempts[message[m].job] + 1])
  /\ UNCHANGED <<job, rowVars, historyVars, mayaVars, faults>>

DeadRecord(d) ==
  /\ At(d, "dead_note")
  /\ IF Insertable(d)
     THEN Call(Insert(d), UNCHANGED attempts, Goto(d, "dead_fail") /\ UNCHANGED message, Return(d))
     ELSE UNCHANGED attempts /\ Return(d) /\ NoFault
  /\ UNCHANGED <<job, evidence, historyVars, mayaVars>>

DeadFail(d) ==
  /\ At(d, "dead_fail")
  /\ Call(SetStatus(Job(d), "exhausted"), UNCHANGED job, Done(d) /\ UNCHANGED message, Return(d))
  /\ UNCHANGED <<rowVars, historyVars, mayaVars>>

Crash(d) ==
  /\ ~At(d, "idle") /\ Return(d) /\ Fault
  /\ UNCHANGED <<job, rowVars, historyVars, mayaVars>>

-----------------------------------------------------------------------------
(***************************************************************************)
(* attemptSafeCampaignRemediation: jobs that are overdue, that have been   *)
(* processing for two hours, or whose error reads like one that passes.    *)
(* The text of an error decides; that of an exhausted job never does.      *)
(***************************************************************************)
LooksRetryable(j) ==
  \/ Listed(j) \/ job[j] = "failed"
  \/ job[j] = "processing" /\ \A d \in Dispatchers : ~WorksOn(d, j)

Look(j) ==
  /\ requeues < MaxRequeues /\ j \notin seen /\ LooksRetryable(j)
  /\ seen' = seen \cup {j} /\ requeues' = requeues + 1
  /\ UNCHANGED <<job, linkedIn, rowVars, historyVars, message, run, faults>>

\* What was seen may be old.
Requeue(j) ==
  /\ j \in seen /\ seen' = seen \ {j}
  /\ SetStatus(j, "queued")
  /\ disturbed' = disturbed \cup {j}
  /\ UNCHANGED <<linkedIn, rowVars, rescheduled, posts, message, run, requeues, faults>>

Dispatch(d) ==
  \/ Claim(d) \/ Prepare(d) \/ Publish(d) \/ RecordSuccess(d) \/ MarkPublished(d)
  \/ ListAttempts(d) \/ RecordError(d) \/ Settle(d) \/ Ack(d)
  \/ DeadRecord(d) \/ DeadFail(d)

PublishNext ==
  \/ \E j \in Jobs : \/ CreateJob(j) \/ ComeDue(j) \/ Look(j) \/ Requeue(j)
                     \/ \E m \in Messages : SendDue(j, m)
                     \/ \E d \in Operators : DispatchDirectly(d, j)
  \/ \E d \in Consumers, m \in Messages : Receive(d, m) \/ ReceiveDead(d, m)
  \/ \E d \in Dispatchers : Dispatch(d) \/ Crash(d)

(***************************************************************************)
(* Time passes, the cron handler runs, the queue delivers, and a dispatch  *)
(* that nothing kills runs on.  Nothing is assumed of Maya or the operator.*)
(***************************************************************************)
PublishFairness ==
  /\ \A j \in Jobs : /\ WF_publishVars(ComeDue(j))
                     /\ WF_publishVars(\E m \in Messages : SendDue(j, m))
  /\ \A d \in Dispatchers : WF_publishVars(Dispatch(d))
  /\ \A m \in Messages : SF_publishVars(\E d \in Consumers : Receive(d, m) \/ ReceiveDead(d, m))

PublishSpec == PublishInit /\ [][PublishNext]_publishVars /\ PublishFairness

-----------------------------------------------------------------------------
Labels == {"idle", "ack", "dead_note", "dead_fail"} \cup Working

RunType == [at : Labels, job : Jobs, message : Messages \cup {Direct},
            stale : BOOLEAN, number : Nat, transient : BOOLEAN]

Limit(queue) == IF queue = "dead" THEN DeadDeliveries ELSE Deliveries

\* A message that may be delivered has deliveries left.
MessageOK(entry) ==
  /\ entry \in [queue : {"none", "main", "dead"}, job : Jobs, tries : Nat, held : BOOLEAN]
  /\ entry.tries <= Limit(entry.queue) /\ (~entry.held => entry.tries < Limit(entry.queue))
  /\ entry.queue = "none" => entry.tries = 0

PublishTypeOK ==
  /\ job \in [Jobs -> {"none"} \cup Dispatchable \cup Ended]
  /\ linkedIn \subseteq Jobs /\ disturbed \subseteq Jobs /\ seen \subseteq Jobs
  /\ attempts \in [Jobs -> Nat] /\ evidence \subseteq Jobs
  /\ rescheduled \in [Jobs -> Nat] /\ posts \in [Jobs -> 0..2]
  /\ DOMAIN message = Messages /\ \A m \in Messages : MessageOK(message[m])
  /\ run \in [Dispatchers -> RunType]
  /\ requeues \in 0..MaxRequeues /\ faults \in 0..MaxFaults

(***************************************************************************)
(* However many dispatchers work on a job, and whatever they overwrite,    *)
(* the error path schedules it again less than MaxAttempts times: about    *)
(* the count of attempts that each takes before its own, and the unique    *)
(* key that lets one of them through.                                      *)
(***************************************************************************)
RetriesAreBounded == \A j \in Jobs : rescheduled[j] < MaxAttempts

(***************************************************************************)
(* A job shown as published was accepted by the provider, and has the row  *)
(* of the attempt that posted it: about the order post, row, status, and   *)
(* the other dispatchers and dead letters that write the status meanwhile. *)
(***************************************************************************)
PublishedIsEvidenced ==
  \A j \in Jobs : job[j] = "published" => posts[j] > 0 /\ j \in evidence

(***************************************************************************)
(* A LinkedIn job that is dispatched by one dispatcher at a time, and that *)
(* Maya does not queue again, is posted once at most, whatever fails and   *)
(* whoever dies after the post: about the status that was read, and errors *)
(* that leave the outcome unknown.                                         *)
(***************************************************************************)
LinkedInPostsOnce == \A j \in linkedIn \ disturbed : posts[j] <= 1

(***************************************************************************)
(* A job that waits is published or fails, or its dispatch broke off in    *)
(* the error path and left it processing, for Maya to find: about retries  *)
(* that end, and messages of dispatchers that died.                        *)
(***************************************************************************)
LeftProcessing(j) ==
  /\ job[j] = "processing" /\ \A d \in Dispatchers : ~WorksOn(d, j)
  /\ \A m \in Messages : message[m].queue # "none" => message[m].job # j

JobComesToAnEnd ==
  \A j \in Jobs : (job[j] \in {"queued", "scheduled"}) ~> (job[j] \in Ended \/ LeftProcessing(j))

\* "fails closed for stale LinkedIn jobs" (distribution-job-dispatcher.test.ts):
\* "its external outcome is unknown. Reconcile the Company Page before creating
\* a replacement job." (distribution-job-dispatcher.ts)
LinkedInFailsClosed ==
  [][\A j \in linkedIn : job[j] = "failed" /\ posts[j] > 0 => job'[j] # "queued"]_publishVars

=============================================================================
