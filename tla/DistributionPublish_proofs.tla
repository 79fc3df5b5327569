----------------------- MODULE DistributionPublish_proofs -----------------------
(***************************************************************************)
(* What holds of the publishing of distribution jobs for any jobs,         *)
(* dispatchers, queues and bounds.                                         *)
(***************************************************************************)
EXTENDS DistributionPublish, FiniteSetTheorems, TLAPS

-----------------------------------------------------------------------------
(***************************************************************************)
(* The records, and what the steps of a dispatch do to them.               *)
(***************************************************************************)
LEMMA SomeJob == (CHOOSE j \in Jobs : TRUE) \in Jobs
<1>1. \E j \in Jobs : TRUE
  BY JobsAssumption
<1> QED
  BY <1>1

LEMMA IdleTyped == Idle \in RunType /\ Idle.at = "idle" /\ Idle.message = Direct
BY SomeJob DEF Idle, RunType, Labels

LEMMA NoMessageTyped == MessageOK(NoMessage) /\ NoMessage.queue = "none" /\ NoMessage.tries = 0
BY SomeJob, LimitsAssumption DEF NoMessage, MessageOK, Limit

\* A message that was just sent.
LEMMA FreshTyped ==
  ASSUME NEW queue \in {"main", "dead"}, NEW j \in Jobs
  PROVE  MessageOK([NoMessage EXCEPT !.queue = queue, !.job = j])
<1> DEFINE fresh == [NoMessage EXCEPT !.queue = queue, !.job = j]
<1>1. /\ fresh \in [queue : {"none", "main", "dead"}, job : Jobs, tries : Nat, held : BOOLEAN]
      /\ fresh.queue = queue /\ fresh.tries = 0
  BY SomeJob DEF NoMessage
<1> HIDE DEF fresh
<1>2. MessageOK(fresh)
  BY <1>1, LimitsAssumption DEF MessageOK, Limit
<1> QED
  BY <1>2 DEF fresh

LEMMA RunTyped ==
  ASSUME PublishTypeOK, NEW d \in Dispatchers
  PROVE  /\ run[d] \in RunType /\ Job(d) \in Jobs /\ run[d].at \in Labels
         /\ run[d].message \in Messages \cup {Direct} /\ run[d].number \in Nat
         /\ run[d].stale \in BOOLEAN /\ run[d].transient \in BOOLEAN
BY DEF PublishTypeOK, RunType, Job

Others(d) == \A e \in Dispatchers : e # d => run'[e] = run[e]

LEMMA StepEffect ==
  ASSUME PublishTypeOK, NEW d \in Dispatchers, NEW next \in RunType, Step(d, next)
  PROVE  run' \in [Dispatchers -> RunType] /\ run'[d] = next /\ Others(d)
BY DEF PublishTypeOK, Step, Others

\* A dispatch that goes on under another label, or fails.
LEMMA GotoEffect ==
  ASSUME PublishTypeOK, NEW d \in Dispatchers, NEW label \in Labels, Goto(d, label)
  PROVE  /\ run' \in [Dispatchers -> RunType] /\ Others(d)
         /\ run'[d].at = label /\ run'[d].job = Job(d) /\ run'[d].message = run[d].message
         /\ run'[d].stale = FALSE /\ run'[d].number = 0 /\ run'[d].transient = FALSE
<1> DEFINE next == [On(d) EXCEPT !.at = label]
<1>1. next \in RunType /\ next.at = label /\ next.job = Job(d) /\ next.message = run[d].message
      /\ next.stale = FALSE /\ next.number = 0 /\ next.transient = FALSE
  BY RunTyped, SomeJob DEF On, Idle, RunType
<1>2. Step(d, next)
  BY DEF Goto
<1> HIDE DEF next
<1> QED
  BY <1>1, <1>2, StepEffect

LEMMA FailEffect ==
  ASSUME PublishTypeOK, NEW d \in Dispatchers, NEW transient \in BOOLEAN, FailAs(d, transient)
  PROVE  /\ run' \in [Dispatchers -> RunType] /\ Others(d)
         /\ run'[d].at = "list" /\ run'[d].job = Job(d) /\ run'[d].number = 0
         /\ run'[d].transient = transient
<1> DEFINE next == [On(d) EXCEPT !.at = "list", !.transient = transient]
<1>1. next \in RunType /\ next.at = "list" /\ next.job = Job(d) /\ next.number = 0
      /\ next.transient = transient
  BY RunTyped, SomeJob DEF On, Idle, RunType, Labels, Working
<1>2. Step(d, next)
  BY DEF FailAs
<1> HIDE DEF next
<1> QED
  BY <1>1, <1>2, StepEffect

LEMMA CountEffect ==
  ASSUME PublishTypeOK, NEW d \in Dispatchers, NEW label \in Labels, Counted(d, label)
  PROVE  /\ run' \in [Dispatchers -> RunType] /\ Others(d)
         /\ run'[d].at = label /\ run'[d].job = Job(d) /\ run'[d].stale = run[d].stale
         /\ run'[d].number = attempts[Job(d)] + 1 /\ run'[d].transient = run[d].transient
<1> DEFINE next == [run[d] EXCEPT !.at = label, !.number = attempts[Job(d)] + 1]
<1>1. attempts[Job(d)] + 1 \in Nat
  BY RunTyped DEF PublishTypeOK
<1>2. next \in RunType /\ next.at = label /\ next.job = Job(d) /\ next.stale = run[d].stale
      /\ next.number = attempts[Job(d)] + 1 /\ next.transient = run[d].transient
  BY <1>1, RunTyped DEF RunType, Job
<1>3. Step(d, next)
  BY DEF Counted
<1> HIDE DEF next
<1> QED
  BY <1>2, <1>3, StepEffect

LEMMA OnwardEffect ==
  ASSUME PublishTypeOK, NEW d \in Dispatchers, NEW label \in Labels,
         Step(d, [run[d] EXCEPT !.at = label])
  PROVE  /\ run' \in [Dispatchers -> RunType] /\ Others(d)
         /\ run'[d].at = label /\ run'[d].job = Job(d) /\ run'[d].stale = run[d].stale
         /\ run'[d].number = run[d].number /\ run'[d].transient = run[d].transient
<1> DEFINE next == [run[d] EXCEPT !.at = label]
<1>1. next \in RunType /\ next.at = label /\ next.job = Job(d) /\ next.stale = run[d].stale
      /\ next.number = run[d].number /\ next.transient = run[d].transient
  BY RunTyped DEF RunType, Job
<1> HIDE DEF next
<1>2. Step(d, next)
  BY DEF next
<1> QED
  BY <1>1, <1>2, StepEffect

LEMMA DoneEffect ==
  ASSUME PublishTypeOK, NEW d \in Dispatchers, Done(d)
  PROVE  run' \in [Dispatchers -> RunType] /\ Others(d) /\ run'[d].at \in {"idle", "ack"}
         /\ run'[d].number = 0
<1>1. CASE run[d].message = Direct
  BY <1>1, IdleTyped, StepEffect DEF Done, Idle
<1>2. CASE run[d].message # Direct
  BY <1>2, GotoEffect DEF Done, Labels
<1> QED
  BY <1>1, <1>2

LEMMA ReturnedTyped ==
  ASSUME PublishTypeOK, NEW m \in Messages
  PROVE  MessageOK(Returned(m))
<1>1. MessageOK(message[m])
  BY DEF PublishTypeOK
<1>2. CASE message[m].queue = "main" /\ message[m].tries >= Deliveries
  <2>1. Returned(m) = [NoMessage EXCEPT !.queue = "dead", !.job = message[m].job]
    BY <1>2 DEF Returned
  <2>2. message[m].job \in Jobs
    BY <1>1 DEF MessageOK
  <2> QED
    BY <2>1, <2>2, FreshTyped
<1>3. CASE message[m].queue = "dead" /\ message[m].tries >= DeadDeliveries
  BY <1>3, NoMessageTyped DEF Returned
<1>4. CASE /\ ~(message[m].queue = "main" /\ message[m].tries >= Deliveries)
           /\ ~(message[m].queue = "dead" /\ message[m].tries >= DeadDeliveries)
  <2> DEFINE back == [message[m] EXCEPT !.held = FALSE]
  <2>1. Returned(m) = back
    BY <1>4 DEF Returned
  <2>2. /\ back \in [queue : {"none", "main", "dead"}, job : Jobs, tries : Nat, held : BOOLEAN]
        /\ back.queue = message[m].queue /\ back.tries = message[m].tries
    BY <1>1 DEF MessageOK
  <2>3. message[m].tries < Limit(message[m].queue)
    BY <1>1, <1>4, LimitsAssumption DEF MessageOK, Limit
  <2> HIDE DEF back
  <2> QED
    BY <1>1, <2>1, <2>2, <2>3, LimitsAssumption DEF MessageOK, Limit
<1> QED
  BY <1>2, <1>3, <1>4

LEMMA ReturnEffect ==
  ASSUME PublishTypeOK, NEW d \in Dispatchers, Return(d)
  PROVE  /\ run' \in [Dispatchers -> RunType] /\ Others(d) /\ run'[d] = Idle
         /\ DOMAIN message' = Messages /\ \A m \in Messages : MessageOK(message'[m])
<1>1. run' \in [Dispatchers -> RunType] /\ Others(d) /\ run'[d] = Idle
  BY IdleTyped, StepEffect DEF Return
<1>2. \A m \in Messages : message'[m] \in {Returned(m), message[m]}
  BY DEF Return
<1>3. \A m \in Messages : MessageOK(message'[m])
  BY <1>2, ReturnedTyped DEF PublishTypeOK
<1> QED
  BY <1>1, <1>3 DEF Return

\* A message that is taken.
LEMMA TakeEffect ==
  ASSUME PublishTypeOK, NEW m \in Messages, message[m].queue # "none", ~message[m].held,
         message' = [message EXCEPT ![m] = Taken(m)]
  PROVE  DOMAIN message' = Messages /\ (\A n \in Messages : MessageOK(message'[n]))
         /\ message[m].job \in Jobs
<1>1. MessageOK(message[m])
  BY DEF PublishTypeOK
<1>2. message[m].tries + 1 \in Nat
  BY <1>1 DEF MessageOK
<1>3. Taken(m) \in [queue : {"none", "main", "dead"}, job : Jobs, tries : Nat, held : BOOLEAN]
  BY <1>1, <1>2 DEF MessageOK, Taken
<1>4. Taken(m).queue = message[m].queue /\ Taken(m).tries = message[m].tries + 1 /\ Taken(m).held = TRUE
  BY <1>1 DEF MessageOK, Taken
<1>5. MessageOK(Taken(m))
  BY <1>1, <1>3, <1>4, LimitsAssumption DEF MessageOK, Limit
<1> QED
  BY <1>1, <1>5 DEF PublishTypeOK, MessageOK

\* A dispatch that begins.
LEMMA BeginEffect ==
  ASSUME PublishTypeOK, NEW d \in Dispatchers, NEW j \in Jobs, NEW m \in Messages \cup {Direct},
         Begin(d, j, m)
  PROVE  /\ run' \in [Dispatchers -> RunType] /\ Others(d)
         /\ run'[d].at = "claim" /\ run'[d].job = j /\ run'[d].number = 0
         /\ run'[d].stale = (job[j] = "processing") /\ run'[d].transient = FALSE
<1> DEFINE next == [Idle EXCEPT !.job = j, !.message = m, !.at = "claim", !.stale = (job[j] = "processing")]
<1>1. next \in RunType /\ next.at = "claim" /\ next.job = j /\ next.number = 0
      /\ next.stale = (job[j] = "processing") /\ next.transient = FALSE
  BY SomeJob DEF Idle, RunType, Labels, Working
<1>2. Step(d, next)
  BY DEF Begin
<1> HIDE DEF next
<1> QED
  BY <1>1, <1>2, StepEffect

-----------------------------------------------------------------------------
(***************************************************************************)
(* Type correctness.                                                       *)
(***************************************************************************)
LEMMA InitTyped == PublishInit => PublishTypeOK
BY IdleTyped, NoMessageTyped, LimitsAssumption DEF PublishInit, PublishTypeOK

LEMMA FaultTyped == ASSUME PublishTypeOK, Fault PROVE faults' \in 0..MaxFaults
BY LimitsAssumption DEF Fault, PublishTypeOK

LEMMA StatusTyped ==
  ASSUME PublishTypeOK, NEW j \in Jobs, NEW status \in Dispatchable \cup Ended, SetStatus(j, status)
  PROVE  job' \in [Jobs -> {"none"} \cup Dispatchable \cup Ended]
BY DEF SetStatus, PublishTypeOK

LEMMA JobSteps ==
  ASSUME PublishTypeOK, NEW j \in Jobs,
         CreateJob(j) \/ ComeDue(j) \/ Look(j) \/ Requeue(j) \/ \E m \in Messages : SendDue(j, m)
  PROVE  PublishTypeOK'
<1>1. CASE CreateJob(j) \/ ComeDue(j)
  <2>1. job' \in [Jobs -> {"none"} \cup Dispatchable \cup Ended]
    BY <1>1, StatusTyped DEF CreateJob, ComeDue, Dispatchable
  <2> QED
    BY <1>1, <2>1 DEF CreateJob, ComeDue, PublishTypeOK, rowVars, historyVars, mayaVars
<1>2. CASE Look(j)
  BY <1>2, LimitsAssumption DEF Look, PublishTypeOK, rowVars, historyVars
<1>3. CASE Requeue(j)
  <2>1. job' \in [Jobs -> {"none"} \cup Dispatchable \cup Ended]
    BY <1>3, StatusTyped DEF Requeue, Dispatchable
  <2> QED
    BY <1>3, <2>1 DEF Requeue, PublishTypeOK, rowVars
<1>4. ASSUME NEW m \in Messages, SendDue(j, m) PROVE PublishTypeOK'
  BY <1>4, FreshTyped DEF SendDue, PublishTypeOK, rowVars, historyVars, mayaVars
<1> QED
  BY <1>1, <1>2, <1>3, <1>4

LEMMA TakeSteps ==
  ASSUME PublishTypeOK, NEW d \in Dispatchers, NEW m \in Messages, Receive(d, m) \/ ReceiveDead(d, m)
  PROVE  PublishTypeOK'
<1>1. DOMAIN message' = Messages /\ (\A n \in Messages : MessageOK(message'[n])) /\ message[m].job \in Jobs
  BY TakeEffect DEF Receive, ReceiveDead
<1>2. CASE Receive(d, m)
  <2> DEFINE next == [Idle EXCEPT !.job = message[m].job, !.message = m, !.at = "ack"]
  <2>1. next \in RunType
    BY <1>1, IdleTyped, SomeJob DEF Idle, RunType, Labels
  <2>2. run' \in [Dispatchers -> RunType] /\ disturbed' \subseteq Jobs
    <3>1. CASE Begin(d, message[m].job, m)
      BY <1>1, <3>1, BeginEffect DEF Begin, PublishTypeOK
    <3>2. CASE Step(d, next) /\ UNCHANGED disturbed
      <4> HIDE DEF next
      <4> QED
        BY <2>1, <3>2, StepEffect DEF PublishTypeOK
    <3> QED
      BY <1>2, <3>1, <3>2 DEF Receive
  <2>3. faults' \in 0..MaxFaults
    BY <1>2, FaultTyped DEF Receive, NoFault, PublishTypeOK
  <2> QED
    BY <1>1, <1>2, <2>2, <2>3 DEF Receive, PublishTypeOK, rowVars, mayaVars
<1>3. CASE ReceiveDead(d, m)
  <2> DEFINE next == [Idle EXCEPT !.job = message[m].job, !.message = m, !.at = "dead_note",
                        !.number = attempts[message[m].job] + 1]
  <2>0. attempts[message[m].job] + 1 \in Nat
    BY <1>1 DEF PublishTypeOK
  <2>1. next \in RunType
    BY <1>1, <2>0, SomeJob DEF Idle, RunType, Labels
  <2>2. Step(d, next)
    BY <1>3 DEF ReceiveDead
  <2> HIDE DEF next
  <2>3. run' \in [Dispatchers -> RunType]
    BY <2>1, <2>2, StepEffect
  <2> QED
    BY <1>1, <1>3, <2>3 DEF ReceiveDead, PublishTypeOK, rowVars, historyVars, mayaVars
<1> QED
  BY <1>2, <1>3

LEMMA ClaimTyped == ASSUME PublishTypeOK, NEW d \in Dispatchers, Claim(d) PROVE PublishTypeOK'
<1>1. run' \in [Dispatchers -> RunType]
  BY OnwardEffect, GotoEffect, FailEffect DEF Claim, Call, Labels, Working
<1>2. job' \in [Jobs -> {"none"} \cup Dispatchable \cup Ended]
  BY RunTyped, StatusTyped DEF Claim, Call, Dispatchable, PublishTypeOK
<1>3. faults' \in 0..MaxFaults
  BY FaultTyped DEF Claim, Call, NoFault, PublishTypeOK
<1> QED
  BY <1>1, <1>2, <1>3 DEF Claim, PublishTypeOK, rowVars, historyVars, mayaVars

LEMMA PostTyped == ASSUME PublishTypeOK, NEW j \in Jobs, Post(j) PROVE posts' \in [Jobs -> 0..2]
BY DEF Post, PublishTypeOK

LEMMA PublishTyped ==
  ASSUME PublishTypeOK, NEW d \in Dispatchers, Prepare(d) \/ Publish(d) PROVE PublishTypeOK'
<1>1. run' \in [Dispatchers -> RunType]
  BY OnwardEffect, CountEffect, FailEffect DEF Prepare, Publish, TransientPost, Labels, Working
<1>2. posts' \in [Jobs -> 0..2]
  BY RunTyped, PostTyped DEF Prepare, Publish, historyVars, PublishTypeOK
<1> QED
  BY <1>1, <1>2 DEF Prepare, Publish, PublishTypeOK, rowVars, historyVars, mayaVars

LEMMA InsertTyped ==
  ASSUME PublishTypeOK, NEW d \in Dispatchers, Insert(d) PROVE attempts' \in [Jobs -> Nat]
BY RunTyped DEF Insert, PublishTypeOK

LEMMA RecordTyped ==
  ASSUME PublishTypeOK, NEW d \in Dispatchers, RecordSuccess(d) \/ RecordError(d) PROVE PublishTypeOK'
<1>1. run' \in [Dispatchers -> RunType]
  <2>1. CASE RecordSuccess(d)
    BY <2>1, GotoEffect, FailEffect DEF RecordSuccess, Call, Labels, Working
  <2>2. CASE RecordError(d)
    BY <2>2, OnwardEffect, DoneEffect DEF RecordError, Call, Labels, Working
  <2> QED
    BY <2>1, <2>2
<1>2. attempts' \in [Jobs -> Nat] /\ evidence' \subseteq Jobs
  <2>1. CASE RecordSuccess(d)
    <3>1. \/ Insert(d) /\ evidence' = evidence \cup {Job(d)}
          \/ attempts' = attempts /\ evidence' = evidence
      BY <2>1 DEF RecordSuccess, Call, rowVars
    <3>2. Job(d) \in Jobs
      BY RunTyped
    <3> QED
      BY <3>1, <3>2, InsertTyped DEF PublishTypeOK
  <2>2. CASE RecordError(d)
    BY <2>2, InsertTyped DEF RecordError, Call, PublishTypeOK
  <2> QED
    BY <2>1, <2>2
<1>3. faults' \in 0..MaxFaults
  BY FaultTyped DEF RecordSuccess, RecordError, Call, NoFault, PublishTypeOK
<1> QED
  BY <1>1, <1>2, <1>3 DEF RecordSuccess, RecordError, PublishTypeOK, historyVars, mayaVars

LEMMA FinishTyped ==
  ASSUME PublishTypeOK, NEW d \in Dispatchers, MarkPublished(d) \/ ListAttempts(d) \/ Settle(d)
  PROVE  PublishTypeOK'
<1>1. run' \in [Dispatchers -> RunType]
  BY CountEffect, FailEffect, DoneEffect DEF MarkPublished, ListAttempts, Settle, Call, Labels, Working
<1>2. job' \in [Jobs -> {"none"} \cup Dispatchable \cup Ended] /\ rescheduled' \in [Jobs -> Nat]
  <2>1. CASE MarkPublished(d) \/ ListAttempts(d)
    BY <2>1, RunTyped, StatusTyped DEF MarkPublished, ListAttempts, Call, historyVars, Ended, PublishTypeOK
  <2>2. CASE Settle(d)
    BY <2>2, RunTyped, StatusTyped
    DEF Settle, Call, Reschedule, GiveUp, Ended, Dispatchable, PublishTypeOK
  <2> QED
    BY <2>1, <2>2
<1>3. faults' \in 0..MaxFaults
  BY FaultTyped DEF MarkPublished, ListAttempts, Settle, Call, NoFault, PublishTypeOK
<1> QED
  BY <1>1, <1>2, <1>3
  DEF MarkPublished, ListAttempts, Settle, PublishTypeOK, rowVars, historyVars, mayaVars

LEMMA QueueTyped ==
  ASSUME PublishTypeOK, NEW d \in Dispatchers,
         Ack(d) \/ DeadRecord(d) \/ DeadFail(d) \/ Crash(d)
  PROVE  PublishTypeOK'
<1>1. run' \in [Dispatchers -> RunType]
  BY IdleTyped, StepEffect, GotoEffect, DoneEffect, ReturnEffect
  DEF Ack, DeadRecord, DeadFail, Crash, Call, Labels
<1>2. DOMAIN message' = Messages /\ \A m \in Messages : MessageOK(message'[m])
  <2>1. CASE Ack(d)
    BY <2>1, NoMessageTyped DEF Ack, PublishTypeOK
  <2>2. CASE DeadRecord(d) \/ DeadFail(d) \/ Crash(d)
    BY <2>2, ReturnEffect DEF DeadRecord, DeadFail, Crash, Call, PublishTypeOK
  <2> QED
    BY <2>1, <2>2
<1>3. job' \in [Jobs -> {"none"} \cup Dispatchable \cup Ended] /\ attempts' \in [Jobs -> Nat]
  BY RunTyped, StatusTyped, InsertTyped
  DEF Ack, DeadRecord, DeadFail, Crash, Call, rowVars, Ended, PublishTypeOK
<1>4. faults' \in 0..MaxFaults
  BY FaultTyped DEF Ack, DeadRecord, DeadFail, Crash, Call, NoFault, PublishTypeOK
<1> QED
  BY <1>1, <1>2, <1>3, <1>4
  DEF Ack, DeadRecord, DeadFail, Crash, PublishTypeOK, rowVars, historyVars, mayaVars

LEMMA DirectTyped ==
  ASSUME PublishTypeOK, NEW d \in Dispatchers, NEW j \in Jobs, DispatchDirectly(d, j)
  PROVE  PublishTypeOK'
<1>1. run' \in [Dispatchers -> RunType]
  BY BeginEffect DEF DispatchDirectly
<1> QED
  BY <1>1 DEF DispatchDirectly, Begin, PublishTypeOK, rowVars, mayaVars

LEMMA StepTyped == PublishTypeOK /\ [PublishNext]_publishVars => PublishTypeOK'
<1> SUFFICES ASSUME PublishTypeOK, [PublishNext]_publishVars PROVE PublishTypeOK'
  OBVIOUS
<1>1. CASE UNCHANGED publishVars
  BY <1>1 DEF publishVars, PublishTypeOK
<1>2. ASSUME NEW j \in Jobs,
             CreateJob(j) \/ ComeDue(j) \/ Look(j) \/ Requeue(j) \/ \E m \in Messages : SendDue(j, m)
      PROVE  PublishTypeOK'
  BY <1>2, JobSteps
<1>3. ASSUME NEW j \in Jobs, NEW d \in Operators, DispatchDirectly(d, j) PROVE PublishTypeOK'
  BY <1>3, DirectTyped DEF Dispatchers
<1>4. ASSUME NEW d \in Consumers, NEW m \in Messages, Receive(d, m) \/ ReceiveDead(d, m)
      PROVE  PublishTypeOK'
  BY <1>4, TakeSteps DEF Dispatchers
<1>5. ASSUME NEW d \in Dispatchers, Dispatch(d) \/ Crash(d) PROVE PublishTypeOK'
  BY <1>5, ClaimTyped, PublishTyped, RecordTyped, FinishTyped, QueueTyped DEF Dispatch
<1> QED
  BY <1>1, <1>2, <1>3, <1>4, <1>5 DEF PublishNext

(***************************************************************************)
(* Every variable keeps its type; a message that may be delivered has      *)
(* deliveries left, however many dispatchers die or fail.                  *)
(***************************************************************************)
THEOREM PublishTypeCorrect == PublishSpec => []PublishTypeOK
BY InitTyped, StepTyped, PTL DEF PublishSpec

-----------------------------------------------------------------------------
(***************************************************************************)
(* A published job was posted, and has the row of the attempt.             *)
(***************************************************************************)
Posted(d) ==
  /\ run[d].at \in {"record", "finish"} => posts[Job(d)] > 0
  /\ run[d].at = "finish" => Job(d) \in evidence

EvidenceInv == PublishedIsEvidenced /\ \A d \in Dispatchers : Posted(d)

\* Posts and evidence are never taken back.
LEMMA NothingTakenBack ==
  ASSUME PublishTypeOK, [PublishNext]_publishVars
  PROVE  /\ evidence \subseteq evidence' /\ linkedIn' = linkedIn /\ disturbed \subseteq disturbed'
         /\ \A j \in Jobs : posts'[j] >= posts[j]
<1>1. \A j \in Jobs : posts[j] \in 0..2
  BY DEF PublishTypeOK
<1>2. CASE UNCHANGED publishVars
  BY <1>1, <1>2 DEF publishVars
<1>3. ASSUME NEW j \in Jobs, CreateJob(j) \/ ComeDue(j) \/ Look(j) \/ Requeue(j)
      PROVE  posts' = posts /\ evidence' = evidence /\ linkedIn' = linkedIn /\ disturbed \subseteq disturbed'
  BY <1>3 DEF CreateJob, ComeDue, Look, Requeue, rowVars, historyVars, mayaVars
<1>4. ASSUME NEW j \in Jobs, NEW m \in Messages, SendDue(j, m)
      PROVE  posts' = posts /\ evidence' = evidence /\ linkedIn' = linkedIn /\ disturbed \subseteq disturbed'
  BY <1>4 DEF SendDue, rowVars, historyVars, mayaVars
<1>5. ASSUME NEW j \in Jobs, NEW d \in Operators, DispatchDirectly(d, j)
      PROVE  posts' = posts /\ evidence' = evidence /\ linkedIn' = linkedIn /\ disturbed \subseteq disturbed'
  BY <1>5 DEF DispatchDirectly, Begin, rowVars, mayaVars
<1>6. ASSUME NEW d \in Consumers, NEW m \in Messages, Receive(d, m) \/ ReceiveDead(d, m)
      PROVE  posts' = posts /\ evidence' = evidence /\ linkedIn' = linkedIn /\ disturbed \subseteq disturbed'
  BY <1>6 DEF Receive, ReceiveDead, Begin, rowVars, historyVars, mayaVars
<1>7. ASSUME NEW d \in Dispatchers, Crash(d) \/ Dispatch(d), ~Publish(d)
      PROVE  posts' = posts /\ evidence \subseteq evidence' /\ linkedIn' = linkedIn /\ disturbed' = disturbed
  BY <1>7 DEF Crash, Dispatch, Claim, Prepare, RecordSuccess, MarkPublished, ListAttempts, RecordError,
     Settle, Ack, DeadRecord, DeadFail, Call, Reschedule, GiveUp, rowVars, historyVars, mayaVars
<1>8. ASSUME NEW d \in Dispatchers, Publish(d)
      PROVE  /\ evidence' = evidence /\ linkedIn' = linkedIn /\ disturbed' = disturbed
             /\ \A j \in Jobs : posts'[j] >= posts[j]
  BY <1>1, <1>8, RunTyped DEF Publish, Post, rowVars, mayaVars, PublishTypeOK
<1> QED
  BY <1>1, <1>2, <1>3, <1>4, <1>5, <1>6, <1>7, <1>8 DEF PublishNext

LEMMA EvidenceInit == PublishInit => EvidenceInv
BY IdleTyped DEF PublishInit, EvidenceInv, PublishedIsEvidenced, Posted

\* A step of one dispatcher that neither posts nor publishes.
LEMMA EvidenceKept ==
  ASSUME PublishTypeOK, EvidenceInv, [PublishNext]_publishVars,
         \A j \in Jobs : job'[j] = "published" => job[j] = "published",
         \A d \in Dispatchers : run'[d] = run[d] \/ run'[d].at \notin {"record", "finish"}
  PROVE  EvidenceInv'
<1>1. \A j \in Jobs : posts[j] \in Nat /\ posts'[j] >= posts[j]
  BY NothingTakenBack DEF PublishTypeOK
<1>2. \A j \in Jobs : posts[j] > 0 => posts'[j] > 0
  <2> SUFFICES ASSUME NEW j \in Jobs, posts[j] > 0 PROVE posts'[j] > 0
    OBVIOUS
  <2>1. posts'[j] \in Nat
    BY StepTyped DEF PublishTypeOK
  <2> QED
    BY <1>1, <2>1
<1>3. PublishedIsEvidenced'
  BY <1>2, NothingTakenBack DEF EvidenceInv, PublishedIsEvidenced
<1>4. ASSUME NEW d \in Dispatchers PROVE Posted(d)'
  BY <1>2, RunTyped, NothingTakenBack DEF EvidenceInv, Posted, Job
<1> QED
  BY <1>3, <1>4 DEF EvidenceInv

LEMMA EvidenceStep ==
  ASSUME PublishTypeOK, EvidenceInv, NEW d \in Dispatchers,
         Publish(d) \/ RecordSuccess(d) \/ MarkPublished(d)
  PROVE  EvidenceInv'
<1>0. [PublishNext]_publishVars /\ Job(d) \in Jobs
  BY RunTyped DEF PublishNext, Dispatch
<1>1. \A j \in Jobs : posts[j] \in 0..2 /\ (posts[j] > 0 => posts'[j] > 0)
  <2>1. \A j \in Jobs : posts[j] \in 0..2 /\ posts'[j] \in 0..2 /\ posts'[j] >= posts[j]
    BY <1>0, NothingTakenBack, StepTyped DEF PublishTypeOK
  <2> QED
    BY <2>1
<1>2. evidence \subseteq evidence'
  BY <1>0, NothingTakenBack
<1>3. CASE Publish(d)
  <2>1. CASE Post(Job(d)) /\ Step(d, [run[d] EXCEPT !.at = "record"])
    <3>1. posts'[Job(d)] > 0
      BY <1>0, <1>1, <2>1 DEF Post, PublishTypeOK
    <3>2. Others(d) /\ run'[d].at = "record" /\ run'[d].job = Job(d)
      BY <2>1, OnwardEffect DEF Labels, Working
    <3>3. \A e \in Dispatchers : Posted(e)'
      BY <1>1, <1>2, <3>1, <3>2, RunTyped DEF EvidenceInv, Posted, Job, Others
    <3> QED
      BY <1>1, <1>2, <1>3, <3>3 DEF Publish, EvidenceInv, PublishedIsEvidenced
  <2>2. CASE FailAs(d, TransientPost(d))
    <3>1. Others(d) /\ run'[d].at = "list"
      BY <2>2, FailEffect DEF TransientPost
    <3> QED
      BY <1>0, <1>3, <3>1, EvidenceKept DEF Publish, Others
  <2> QED
    BY <1>3, <2>1, <2>2 DEF Publish
<1>4. CASE RecordSuccess(d)
  <2>1. CASE Goto(d, "finish") /\ evidence' = evidence \cup {Job(d)}
    <3>1. Others(d) /\ run'[d].at = "finish" /\ run'[d].job = Job(d)
      BY <2>1, GotoEffect DEF Labels, Working
    <3>2. posts[Job(d)] > 0
      BY <1>4 DEF RecordSuccess, At, EvidenceInv, Posted
    <3>3. \A e \in Dispatchers : Posted(e)'
      BY <1>0, <1>1, <1>2, <2>1, <3>1, <3>2, RunTyped DEF EvidenceInv, Posted, Job, Others
    <3> QED
      BY <1>1, <1>2, <1>4, <3>3 DEF RecordSuccess, EvidenceInv, PublishedIsEvidenced
  <2>2. CASE FailAs(d, FALSE)
    <3>1. Others(d) /\ run'[d].at = "list"
      BY <2>2, FailEffect
    <3> QED
      BY <1>0, <1>4, <3>1, EvidenceKept DEF RecordSuccess, Others
  <2> QED
    BY <1>4, <2>1, <2>2 DEF RecordSuccess, Call
<1>5. CASE MarkPublished(d)
  <2>1. posts[Job(d)] > 0 /\ Job(d) \in evidence
    BY <1>5 DEF MarkPublished, At, EvidenceInv, Posted
  <2>2. Others(d) /\ run'[d].at \in {"list", "idle", "ack"}
    BY <1>5, FailEffect, DoneEffect DEF MarkPublished, Call
  <2>3. \A e \in Dispatchers : Posted(e)'
    BY <1>0, <1>1, <1>2, <2>2, RunTyped DEF EvidenceInv, Posted, Job, Others
  <2>4. \A j \in Jobs : job'[j] = "published" => job[j] = "published" \/ j = Job(d)
    BY <1>0, <1>5 DEF MarkPublished, Call, SetStatus, PublishTypeOK
  <2> QED
    BY <1>1, <1>2, <2>1, <2>3, <2>4 DEF EvidenceInv, PublishedIsEvidenced
<1> QED
  BY <1>3, <1>4, <1>5

\* Every other step of a dispatch.
LEMMA OtherSteps ==
  ASSUME PublishTypeOK, NEW d \in Dispatchers,
         Claim(d) \/ Prepare(d) \/ ListAttempts(d) \/ RecordError(d) \/ Settle(d) \/ Ack(d)
           \/ DeadRecord(d) \/ DeadFail(d) \/ Crash(d)
  PROVE  /\ \A j \in Jobs : job'[j] = "published" => job[j] = "published"
         /\ Others(d) /\ run'[d].at \notin {"record", "finish"}
<1>0. Job(d) \in Jobs
  BY RunTyped
<1>1. CASE Claim(d)
  <2>1. Others(d) /\ run'[d].at \in {"prepare", "list"}
    BY <1>1, OnwardEffect, GotoEffect, FailEffect DEF Claim, Call, Labels, Working
  <2>2. UNCHANGED job \/ SetStatus(Job(d), "processing")
    BY <1>1 DEF Claim, Call
  <2> QED
    BY <1>0, <2>1, <2>2 DEF SetStatus, PublishTypeOK
<1>2. CASE Prepare(d)
  <2>1. Others(d) /\ run'[d].at \in {"list", "publish"}
    BY <1>2, CountEffect, FailEffect DEF Prepare, Labels, Working
  <2> QED
    BY <1>2, <2>1 DEF Prepare
<1>3. CASE ListAttempts(d)
  <2>1. Others(d) /\ run'[d].at \in {"note", "idle", "ack"}
    BY <1>3, CountEffect, DoneEffect DEF ListAttempts, Labels, Working
  <2> QED
    BY <1>3, <2>1 DEF ListAttempts
<1>4. CASE RecordError(d)
  <2>1. Others(d) /\ run'[d].at \in {"settle", "idle", "ack"}
    BY <1>4, OnwardEffect, DoneEffect DEF RecordError, Call, Labels, Working
  <2> QED
    BY <1>4, <2>1 DEF RecordError
<1>5. CASE Settle(d)
  <2>1. Others(d) /\ run'[d].at \in {"idle", "ack"}
    BY <1>5, DoneEffect DEF Settle, Call
  <2> QED
    BY <1>0, <1>5, <2>1 DEF Settle, Call, Reschedule, GiveUp, SetStatus, PublishTypeOK
<1>6. CASE Ack(d)
  BY <1>6, IdleTyped, StepEffect DEF Ack
<1>7. CASE DeadRecord(d)
  <2>1. Others(d) /\ run'[d].at \in {"dead_fail", "idle"}
    BY <1>7, GotoEffect, ReturnEffect, IdleTyped DEF DeadRecord, Call, Labels
  <2> QED
    BY <1>7, <2>1 DEF DeadRecord
<1>8. CASE DeadFail(d)
  <2>1. Others(d) /\ run'[d].at \in {"idle", "ack"}
    BY <1>8, DoneEffect, ReturnEffect, IdleTyped DEF DeadFail, Call
  <2> QED
    BY <1>0, <1>8, <2>1 DEF DeadFail, Call, SetStatus, PublishTypeOK
<1>9. CASE Crash(d)
  BY <1>9, ReturnEffect, IdleTyped DEF Crash
<1> QED
  BY <1>1, <1>2, <1>3, <1>4, <1>5, <1>6, <1>7, <1>8, <1>9

\* A dispatch that is taken up.
LEMMA TakenUp ==
  ASSUME PublishTypeOK, NEW d \in Dispatchers,
         \/ \E m \in Messages : Receive(d, m) \/ ReceiveDead(d, m)
         \/ \E j \in Jobs : DispatchDirectly(d, j)
  PROVE  Others(d) /\ run'[d].at \in {"claim", "ack", "dead_note"} /\ job' = job
<1>1. ASSUME NEW j \in Jobs, DispatchDirectly(d, j)
      PROVE  Others(d) /\ run'[d].at = "claim" /\ job' = job
  BY <1>1, BeginEffect DEF DispatchDirectly
<1>2. ASSUME NEW m \in Messages, Receive(d, m) \/ ReceiveDead(d, m)
      PROVE  Others(d) /\ run'[d].at \in {"claim", "ack", "dead_note"} /\ job' = job
  <2>0. message[m].job \in Jobs
    BY <1>2, TakeEffect DEF Receive, ReceiveDead
  <2>1. CASE Begin(d, message[m].job, m)
    BY <1>2, <2>0, <2>1, BeginEffect DEF Receive, ReceiveDead
  <2>2. CASE Step(d, [Idle EXCEPT !.job = message[m].job, !.message = m, !.at = "ack"])
    <3> DEFINE next == [Idle EXCEPT !.job = message[m].job, !.message = m, !.at = "ack"]
    <3>1. next \in RunType /\ next.at = "ack"
      BY <2>0, SomeJob DEF Idle, RunType, Labels
    <3>2. Step(d, next)
      BY <2>2
    <3> HIDE DEF next
    <3> QED
      BY <1>2, <3>1, <3>2, StepEffect DEF Receive, ReceiveDead
  <2>3. CASE ReceiveDead(d, m)
    <3> DEFINE next == [Idle EXCEPT !.job = message[m].job, !.message = m, !.at = "dead_note",
                          !.number = attempts[message[m].job] + 1]
    <3>0. attempts[message[m].job] + 1 \in Nat
      BY <2>0 DEF PublishTypeOK
    <3>1. next \in RunType /\ next.at = "dead_note"
      BY <2>0, <3>0, SomeJob DEF Idle, RunType, Labels
    <3>2. Step(d, next)
      BY <2>3 DEF ReceiveDead
    <3> HIDE DEF next
    <3> QED
      BY <2>3, <3>1, <3>2, StepEffect DEF ReceiveDead
  <2> QED
    BY <1>2, <2>1, <2>2, <2>3 DEF Receive
<1> QED
  BY <1>1, <1>2

LEMMA EvidenceNext == PublishTypeOK /\ EvidenceInv /\ [PublishNext]_publishVars => EvidenceInv'
<1> SUFFICES ASSUME PublishTypeOK, EvidenceInv, [PublishNext]_publishVars PROVE EvidenceInv'
  OBVIOUS
<1>1. CASE UNCHANGED publishVars
  BY <1>1, EvidenceKept DEF publishVars
<1>2. ASSUME NEW j \in Jobs,
             CreateJob(j) \/ ComeDue(j) \/ Look(j) \/ Requeue(j) \/ \E m \in Messages : SendDue(j, m)
      PROVE  EvidenceInv'
  <2>1. run' = run /\ \A k \in Jobs : job'[k] = "published" => job[k] = "published"
    BY <1>2 DEF CreateJob, ComeDue, Look, Requeue, SendDue, SetStatus, PublishTypeOK
  <2> QED
    BY <2>1, EvidenceKept
<1>3. ASSUME NEW d \in Dispatchers,
             \/ \E m \in Messages : Receive(d, m) \/ ReceiveDead(d, m)
             \/ \E j \in Jobs : DispatchDirectly(d, j)
      PROVE  EvidenceInv'
  BY <1>3, TakenUp, EvidenceKept DEF Others
<1>4. ASSUME NEW d \in Dispatchers, Dispatch(d) \/ Crash(d) PROVE EvidenceInv'
  <2>1. CASE Publish(d) \/ RecordSuccess(d) \/ MarkPublished(d)
    BY <2>1, EvidenceStep
  <2>2. CASE ~(Publish(d) \/ RecordSuccess(d) \/ MarkPublished(d))
    BY <1>4, <2>2, OtherSteps, EvidenceKept DEF Dispatch, Others
  <2> QED
    BY <2>1, <2>2
<1> QED
  BY <1>1, <1>2, <1>3, <1>4 DEF PublishNext, Dispatchers

(***************************************************************************)
(* A job shown as published was accepted by the provider and has the row   *)
(* of the attempt that posted it, for any number of dispatchers and        *)
(* whatever fails.                                                         *)
(***************************************************************************)
THEOREM PublishedIsAlwaysEvidenced == PublishSpec => []PublishedIsEvidenced
<1>1. PublishTypeOK /\ EvidenceInv /\ [PublishNext]_publishVars => EvidenceInv'
  BY EvidenceNext
<1>2. EvidenceInv => PublishedIsEvidenced
  BY DEF EvidenceInv
<1> QED
  BY <1>1, <1>2, EvidenceInit, PublishTypeCorrect, PTL DEF PublishSpec

-----------------------------------------------------------------------------
(***************************************************************************)
(* Retries.  The dispatchers that are about to schedule a job again have   *)
(* each inserted a row of their own, so that they and those that did       *)
(* already are no more than the rows.                                      *)
(***************************************************************************)
Retrying(j) == {d \in Dispatchers : At(d, "settle") /\ Job(d) = j /\ run[d].number < MaxAttempts}

Budget(j) ==
  /\ IsFiniteSet(Retrying(j))
  /\ rescheduled[j] + Cardinality(Retrying(j)) <= attempts[j]
  /\ rescheduled[j] + Cardinality(Retrying(j)) < MaxAttempts

RetryInv ==
  /\ \A d \in Dispatchers : run[d].number <= attempts[Job(d)] + 1
  /\ \A j \in Jobs : Budget(j)

LEMMA RetryInit == PublishInit => RetryInv
<1> SUFFICES ASSUME PublishInit PROVE RetryInv
  OBVIOUS
<1>1. PublishTypeOK
  BY InitTyped
<1>2. \A d \in Dispatchers : run[d].number = 0 /\ ~At(d, "settle")
  BY IdleTyped DEF PublishInit, At, Idle
<1>3. \A j \in Jobs : Retrying(j) = {}
  BY <1>2 DEF Retrying
<1>4. \A j \in Jobs : Budget(j)
  <2> SUFFICES ASSUME NEW j \in Jobs PROVE Budget(j)
    OBVIOUS
  <2>1. IsFiniteSet(Retrying(j)) /\ Cardinality(Retrying(j)) = 0
    BY <1>3, FS_EmptySet
  <2>2. rescheduled[j] = 0 /\ attempts[j] = 0
    BY DEF PublishInit
  <2> QED
    BY <2>1, <2>2, LimitsAssumption DEF Budget
<1>5. \A d \in Dispatchers : attempts[Job(d)] \in Nat
  BY <1>1, RunTyped DEF PublishTypeOK
<1> QED
  BY <1>2, <1>4, <1>5 DEF RetryInv

\* A step of d that does not bring it to its settling.
LEMMA RetryKept ==
  ASSUME PublishTypeOK, PublishTypeOK', RetryInv, NEW d \in Dispatchers, Others(d),
         run'[d].at # "settle", rescheduled' = rescheduled,
         \A j \in Jobs : attempts'[j] >= attempts[j],
         run'[d].number = 0 \/ run'[d].number <= attempts[run'[d].job] + 1
  PROVE  RetryInv'
<1>1. \A j \in Jobs : attempts[j] \in Nat /\ attempts'[j] \in Nat /\ rescheduled[j] \in Nat
  BY DEF PublishTypeOK
<1>2. \A e \in Dispatchers : /\ run[e].job \in Jobs /\ run'[e].job \in Jobs
                             /\ run[e].number \in Nat /\ run'[e].number \in Nat
  BY DEF PublishTypeOK, RunType
<1>3. ASSUME NEW e \in Dispatchers PROVE run'[e].number <= attempts'[Job(e)'] + 1
  <2>1. attempts[run'[e].job] \in Nat /\ attempts'[run'[e].job] \in Nat
        /\ attempts'[run'[e].job] >= attempts[run'[e].job]
    BY <1>1, <1>2
  <2>2. run'[e].number = 0 \/ run'[e].number <= attempts[run'[e].job] + 1
    BY DEF RetryInv, Others, Job
  <2> QED
    BY <1>2, <2>1, <2>2 DEF Job
<1>4. ASSUME NEW j \in Jobs PROVE Budget(j)'
  <2>1. Retrying(j)' = Retrying(j) \ {d}
    BY DEF Retrying, At, Job, Others
  <2>2. Budget(j)
    BY DEF RetryInv
  <2>3. IsFiniteSet(Retrying(j)') /\ Cardinality(Retrying(j)') <= Cardinality(Retrying(j))
        /\ Cardinality(Retrying(j)) \in Nat /\ Cardinality(Retrying(j)') \in Nat
    <3>1. IsFiniteSet(Retrying(j)) /\ Cardinality(Retrying(j)) \in Nat
      BY <2>2, FS_CardinalityType DEF Budget
    <3>2. IsFiniteSet(Retrying(j)')
          /\ Cardinality(Retrying(j)') = IF d \in Retrying(j) THEN Cardinality(Retrying(j)) - 1
                                                              ELSE Cardinality(Retrying(j))
      BY <2>1, <3>1, FS_RemoveElement
    <3>3. Cardinality(Retrying(j)') \in Nat
      BY <3>2, FS_CardinalityType
    <3> HIDE DEF Retrying
    <3> QED
      BY <3>1, <3>2, <3>3
  <2>4. /\ rescheduled[j] + Cardinality(Retrying(j)) <= attempts[j]
        /\ rescheduled[j] + Cardinality(Retrying(j)) < MaxAttempts /\ rescheduled'[j] = rescheduled[j]
        /\ attempts'[j] >= attempts[j]
    BY <2>2 DEF Budget
  <2> HIDE DEF Retrying
  <2>5. rescheduled[j] + Cardinality(Retrying(j)') <= attempts'[j]
        /\ rescheduled[j] + Cardinality(Retrying(j)') < MaxAttempts
    BY <1>1, <2>3, <2>4, LimitsAssumption
  <2> QED
    BY <2>3, <2>4, <2>5 DEF Budget
<1> QED
  BY <1>3, <1>4 DEF RetryInv

LEMMA InsertGrows ==
  ASSUME PublishTypeOK, NEW d \in Dispatchers, Insert(d) \/ UNCHANGED attempts
  PROVE  \A j \in Jobs : attempts'[j] >= attempts[j]
BY RunTyped DEF Insert, PublishTypeOK

\* The row of an error: one more dispatcher may schedule the job again.
LEMMA RetryRecorded ==
  ASSUME PublishTypeOK, PublishTypeOK', RetryInv, NEW d \in Dispatchers, At(d, "note"),
         Insertable(d), Insert(d), Step(d, [run[d] EXCEPT !.at = "settle"]), rescheduled' = rescheduled
  PROVE  RetryInv'
<1>0. Job(d) \in Jobs /\ attempts[Job(d)] \in Nat /\ run[d].number \in Nat
  BY RunTyped DEF PublishTypeOK
<1>1. Others(d) /\ run'[d].at = "settle" /\ run'[d].job = Job(d) /\ run'[d].number = run[d].number
  BY OnwardEffect DEF Labels, Working
<1>2. run[d].number = attempts[Job(d)] + 1 /\ attempts'[Job(d)] = attempts[Job(d)] + 1
  BY <1>0 DEF RetryInv, Insertable, Insert, PublishTypeOK
<1>3. \A j \in Jobs : j # Job(d) => attempts'[j] = attempts[j]
  BY <1>0 DEF Insert, PublishTypeOK
<1>4. ASSUME NEW e \in Dispatchers PROVE run'[e].number <= attempts'[Job(e)'] + 1
  <2>1. run[e].number <= attempts[Job(e)] + 1 /\ Job(e) \in Jobs /\ run[e].number \in Nat
    BY RunTyped DEF RetryInv
  <2>2. run'[e].number = run[e].number /\ Job(e)' = Job(e)
    BY <1>1 DEF Others, Job
  <2>3. attempts'[Job(e)] >= attempts[Job(e)] /\ attempts[Job(e)] \in Nat /\ attempts'[Job(e)] \in Nat
    BY <2>1, InsertGrows DEF PublishTypeOK
  <2> QED
    BY <2>1, <2>2, <2>3
<1>5. ASSUME NEW j \in Jobs PROVE Budget(j)'
  <2>1. Budget(j) /\ rescheduled[j] \in Nat /\ attempts[j] \in Nat
    BY DEF RetryInv, PublishTypeOK
  <2>2. CASE j # Job(d) \/ run[d].number >= MaxAttempts
    <3>1. Retrying(j)' = Retrying(j)
      BY <1>0, <1>1, <2>2, LimitsAssumption DEF Retrying, At, Job, Others
    <3>2. attempts'[j] = attempts[j] \/ attempts'[j] = attempts[j] + 1
      BY <1>2, <1>3
    <3>3. Cardinality(Retrying(j)) \in Nat
      BY <2>1, FS_CardinalityType DEF Budget
    <3> QED
      BY <2>1, <3>1, <3>2, <3>3 DEF Budget
  <2>3. CASE j = Job(d) /\ run[d].number < MaxAttempts
    <3>1. Retrying(j)' = Retrying(j) \cup {d} /\ d \notin Retrying(j)
      BY <1>1, <2>3 DEF Retrying, At, Job, Others
    <3>2. IsFiniteSet(Retrying(j)') /\ Cardinality(Retrying(j)') = Cardinality(Retrying(j)) + 1
          /\ Cardinality(Retrying(j)) \in Nat
      BY <2>1, <3>1, FS_AddElement, FS_CardinalityType DEF Budget
    <3>3. rescheduled[j] + Cardinality(Retrying(j)) <= attempts[j]
      BY <2>1 DEF Budget
    <3> HIDE DEF Retrying
    <3>4. rescheduled[j] + (Cardinality(Retrying(j)) + 1) <= attempts[j] + 1
          /\ rescheduled[j] + (Cardinality(Retrying(j)) + 1) < MaxAttempts
      BY <1>0, <1>2, <2>1, <2>3, <3>2, <3>3, LimitsAssumption
    <3> QED
      BY <1>2, <2>3, <3>2, <3>4 DEF Budget
  <2> QED
    BY <1>0, <2>2, <2>3, LimitsAssumption
<1> QED
  BY <1>4, <1>5 DEF RetryInv

\* The job is scheduled again: its dispatcher is no longer one that may.
LEMMA RetrySettled ==
  ASSUME PublishTypeOK, PublishTypeOK', RetryInv, NEW d \in Dispatchers, At(d, "settle"),
         RetryAllowed(d), Reschedule(d), Done(d), attempts' = attempts
  PROVE  RetryInv'
<1>0. Job(d) \in Jobs
  BY RunTyped
<1>1. Others(d) /\ run'[d].at # "settle" /\ run'[d].number = 0
  BY DoneEffect
<1>2. ASSUME NEW e \in Dispatchers PROVE run'[e].number <= attempts'[Job(e)'] + 1
  <2>1. run'[e].job \in Jobs
    BY DEF PublishTypeOK, RunType
  <2>2. attempts[run'[e].job] \in Nat
    BY <2>1 DEF PublishTypeOK
  <2> QED
    BY <1>1, <2>2 DEF RetryInv, Others, Job
<1>3. ASSUME NEW j \in Jobs PROVE Budget(j)'
  <2>1. Budget(j) /\ rescheduled[j] \in Nat
    BY DEF RetryInv, PublishTypeOK
  <2>2. Retrying(j)' = Retrying(j) \ {d}
    BY <1>1 DEF Retrying, At, Job, Others
  <2>3. IsFiniteSet(Retrying(j)') /\ Cardinality(Retrying(j)) \in Nat
        /\ Cardinality(Retrying(j)') = IF d \in Retrying(j) THEN Cardinality(Retrying(j)) - 1
                                                           ELSE Cardinality(Retrying(j))
    BY <2>1, <2>2, FS_RemoveElement, FS_CardinalityType DEF Budget
  <2>4. d \in Retrying(j) <=> j = Job(d)
    BY DEF Retrying, RetryAllowed
  <2>5. rescheduled'[j] = IF j = Job(d) THEN rescheduled[j] + 1 ELSE rescheduled[j]
    BY <1>0 DEF Reschedule, PublishTypeOK
  <2>6. rescheduled'[j] + Cardinality(Retrying(j)') = rescheduled[j] + Cardinality(Retrying(j))
    BY <2>1, <2>3, <2>4, <2>5
  <2> QED
    BY <2>1, <2>3, <2>6 DEF Budget
<1> QED
  BY <1>2, <1>3 DEF RetryInv

LEMMA RetryTaken ==
  ASSUME PublishTypeOK, NEW d \in Dispatchers, NEW m \in Messages, Receive(d, m) \/ ReceiveDead(d, m)
  PROVE  /\ run'[d].number = 0 \/ run'[d].number <= attempts[run'[d].job] + 1
         /\ rescheduled' = rescheduled /\ attempts' = attempts
<1>0. message[m].job \in Jobs /\ attempts[message[m].job] + 1 \in Nat
  BY TakeEffect DEF Receive, ReceiveDead, PublishTypeOK
<1>1. CASE Begin(d, message[m].job, m)
  BY <1>0, <1>1, BeginEffect DEF Receive, ReceiveDead, rowVars, historyVars
<1>2. CASE Step(d, [Idle EXCEPT !.job = message[m].job, !.message = m, !.at = "ack"])
  <2> DEFINE next == [Idle EXCEPT !.job = message[m].job, !.message = m, !.at = "ack"]
  <2>1. next \in RunType /\ next.number = 0
    BY <1>0, SomeJob DEF Idle, RunType, Labels
  <2>2. Step(d, next)
    BY <1>2
  <2> HIDE DEF next
  <2>3. run'[d].number = 0
    BY <2>1, <2>2, StepEffect
  <2> QED
    BY <2>3 DEF Receive, ReceiveDead, rowVars, historyVars
<1>3. CASE ReceiveDead(d, m)
  <2> DEFINE next == [Idle EXCEPT !.job = message[m].job, !.message = m, !.at = "dead_note",
                        !.number = attempts[message[m].job] + 1]
  <2>1. next \in RunType /\ next.number = attempts[message[m].job] + 1 /\ next.job = message[m].job
    BY <1>0, SomeJob DEF Idle, RunType, Labels
  <2>2. Step(d, next)
    BY <1>3 DEF ReceiveDead
  <2> HIDE DEF next
  <2>3. run'[d] = next
    BY <2>1, <2>2, StepEffect
  <2> QED
    BY <1>0, <1>3, <2>1, <2>3 DEF ReceiveDead, rowVars, historyVars
<1> QED
  BY <1>1, <1>2, <1>3 DEF Receive

LEMMA AllLabels ==
  Labels = {"idle", "ack", "dead_note", "dead_fail", "claim", "prepare", "publish", "record", "finish",
            "list", "note", "settle"}
BY DEF Labels, Working

\* What a step of a dispatch other than the two above does to numbers and rows.
LEMMA RetryOthers ==
  ASSUME PublishTypeOK, NEW d \in Dispatchers,
         \/ Claim(d) \/ Prepare(d) \/ Publish(d) \/ RecordSuccess(d) \/ MarkPublished(d)
         \/ ListAttempts(d) \/ Ack(d) \/ DeadRecord(d) \/ DeadFail(d) \/ Crash(d)
  PROVE  /\ Others(d) /\ run'[d].at # "settle" /\ rescheduled' = rescheduled
         /\ \A j \in Jobs : attempts'[j] >= attempts[j]
         /\ \/ run'[d].number = 0
            \/ run'[d].job = Job(d) /\ run'[d].number \in {run[d].number, attempts[Job(d)] + 1}
<1>1. CASE Claim(d)
  <2>1. Others(d) /\ run'[d].at \in {"prepare", "list"}
        /\ (run'[d].number = 0 \/ (run'[d].job = Job(d) /\ run'[d].number = run[d].number))
    <3>1. Step(d, [run[d] EXCEPT !.at = "prepare"]) \/ Goto(d, "prepare") \/ FailAs(d, FALSE)
      BY <1>1 DEF Claim, Call
    <3>2. CASE Step(d, [run[d] EXCEPT !.at = "prepare"])
      BY <3>2, OnwardEffect, AllLabels
    <3>3. CASE Goto(d, "prepare")
      BY <3>3, GotoEffect, AllLabels
    <3>4. CASE FailAs(d, FALSE)
      BY <3>4, FailEffect
    <3> QED
      BY <3>1, <3>2, <3>3, <3>4
  <2> QED
    BY <1>1, <2>1, InsertGrows DEF Claim, rowVars, historyVars
<1>2. CASE Prepare(d)
  <2>1. Others(d) /\ run'[d].at \in {"list", "publish"}
        /\ (run'[d].number = 0 \/ (run'[d].job = Job(d) /\ run'[d].number = attempts[Job(d)] + 1))
    <3>1. Counted(d, "publish") \/ FailAs(d, FALSE) \/ FailAs(d, TRUE)
      BY <1>2 DEF Prepare
    <3>2. CASE Counted(d, "publish")
      BY <3>2, CountEffect, AllLabels
    <3>3. CASE FailAs(d, FALSE) \/ FailAs(d, TRUE)
      BY <3>3, FailEffect
    <3> QED
      BY <3>1, <3>2, <3>3
  <2> QED
    BY <1>2, <2>1, InsertGrows DEF Prepare, rowVars, historyVars
<1>3. CASE Publish(d)
  <2>1. Others(d) /\ run'[d].at \in {"list", "record"}
        /\ (run'[d].number = 0 \/ (run'[d].job = Job(d) /\ run'[d].number = run[d].number))
    <3>1. Step(d, [run[d] EXCEPT !.at = "record"]) \/ FailAs(d, TransientPost(d))
      BY <1>3 DEF Publish
    <3>2. CASE Step(d, [run[d] EXCEPT !.at = "record"])
      BY <3>2, OnwardEffect, AllLabels
    <3>3. CASE FailAs(d, TransientPost(d))
      BY <3>3, FailEffect DEF TransientPost
    <3> QED
      BY <3>1, <3>2, <3>3
  <2> QED
    BY <1>3, <2>1, InsertGrows DEF Publish, rowVars
<1>4. CASE RecordSuccess(d)
  <2>1. Others(d) /\ run'[d].at \in {"list", "finish"} /\ run'[d].number = 0
    BY <1>4, GotoEffect, FailEffect DEF RecordSuccess, Call, Labels, Working
  <2>2. Insert(d) \/ UNCHANGED attempts
    BY <1>4 DEF RecordSuccess, Call, rowVars
  <2> QED
    BY <1>4, <2>1, <2>2, InsertGrows DEF RecordSuccess, historyVars
<1>5. CASE MarkPublished(d)
  <2>1. Others(d) /\ run'[d].at \in {"list", "idle", "ack"} /\ run'[d].number = 0
    BY <1>5, FailEffect, DoneEffect DEF MarkPublished, Call
  <2> QED
    BY <1>5, <2>1, InsertGrows DEF MarkPublished, rowVars, historyVars
<1>6. CASE ListAttempts(d)
  <2>1. Others(d) /\ run'[d].at \in {"note", "idle", "ack"}
        /\ (run'[d].number = 0 \/ (run'[d].job = Job(d) /\ run'[d].number = attempts[Job(d)] + 1))
    <3>1. Counted(d, "note") \/ Done(d)
      BY <1>6 DEF ListAttempts
    <3>2. CASE Counted(d, "note")
      BY <3>2, CountEffect, AllLabels
    <3>3. CASE Done(d)
      BY <3>3, DoneEffect
    <3> QED
      BY <3>1, <3>2, <3>3
  <2> QED
    BY <1>6, <2>1, InsertGrows DEF ListAttempts, rowVars, historyVars
<1>7. CASE Ack(d) \/ Crash(d)
  <2>1. Others(d) /\ run'[d] = Idle
    BY <1>7, IdleTyped, StepEffect, ReturnEffect DEF Ack, Crash
  <2> QED
    BY <1>7, <2>1, InsertGrows, IdleTyped DEF Ack, Crash, rowVars, historyVars, Idle
<1>8. CASE DeadRecord(d)
  <2>1. Others(d) /\ run'[d].at \in {"dead_fail", "idle"} /\ run'[d].number = 0
    <3>1. Goto(d, "dead_fail") \/ Return(d)
      BY <1>8 DEF DeadRecord, Call
    <3>2. CASE Goto(d, "dead_fail")
      BY <3>2, GotoEffect, AllLabels
    <3>3. CASE Return(d)
      <4>1. Idle.at = "idle" /\ Idle.number = 0
        BY DEF Idle
      <4> QED
        BY <3>3, <4>1, ReturnEffect
    <3> QED
      BY <3>1, <3>2, <3>3
  <2>2. Insert(d) \/ UNCHANGED attempts
    BY <1>8 DEF DeadRecord, Call
  <2> QED
    BY <1>8, <2>1, <2>2, InsertGrows DEF DeadRecord, historyVars
<1>9. CASE DeadFail(d)
  <2>1. Others(d) /\ run'[d].at \in {"idle", "ack"} /\ run'[d].number = 0
    BY <1>9, DoneEffect, ReturnEffect, IdleTyped DEF DeadFail, Call, Idle
  <2> QED
    BY <1>9, <2>1, InsertGrows DEF DeadFail, rowVars, historyVars
<1> QED
  BY <1>1, <1>2, <1>3, <1>4, <1>5, <1>6, <1>7, <1>8, <1>9

LEMMA RetryNext ==
  PublishTypeOK /\ PublishTypeOK' /\ RetryInv /\ [PublishNext]_publishVars => RetryInv'
<1> SUFFICES ASSUME PublishTypeOK, PublishTypeOK', RetryInv, [PublishNext]_publishVars PROVE RetryInv'
  OBVIOUS
<1>1. CASE UNCHANGED <<run, attempts, rescheduled>>
  BY <1>1 DEF RetryInv, Budget, Retrying, At, Job
<1>2. ASSUME NEW j \in Jobs,
             CreateJob(j) \/ ComeDue(j) \/ Look(j) \/ Requeue(j) \/ \E m \in Messages : SendDue(j, m)
      PROVE  RetryInv'
  BY <1>1, <1>2 DEF CreateJob, ComeDue, Look, Requeue, SendDue, rowVars, historyVars
<1>3. ASSUME NEW d \in Dispatchers, NEW j \in Jobs, DispatchDirectly(d, j) PROVE RetryInv'
  <2>1. Others(d) /\ run'[d].at = "claim" /\ run'[d].number = 0
    BY <1>3, BeginEffect DEF DispatchDirectly
  <2> QED
    BY <1>3, <2>1, RetryKept, InsertGrows DEF DispatchDirectly, rowVars
<1>4. ASSUME NEW d \in Dispatchers, NEW m \in Messages, Receive(d, m) \/ ReceiveDead(d, m)
      PROVE  RetryInv'
  <2>1. Others(d) /\ run'[d].at # "settle"
    BY <1>4, TakenUp
  <2> QED
    BY <1>4, <2>1, RetryTaken, RetryKept, InsertGrows
<1>5. ASSUME NEW d \in Dispatchers, RecordError(d) PROVE RetryInv'
  <2>0. rescheduled' = rescheduled
    BY <1>5 DEF RecordError, historyVars
  <2>1. CASE Insertable(d) /\ Insert(d) /\ Step(d, [run[d] EXCEPT !.at = "settle"])
    BY <1>5, <2>0, <2>1, RetryRecorded DEF RecordError
  <2>2. CASE Done(d)
    <3>1. Others(d) /\ run'[d].at # "settle" /\ run'[d].number = 0
      BY <2>2, DoneEffect
    <3>2. Insert(d) \/ UNCHANGED attempts
      BY <1>5 DEF RecordError, Call
    <3> QED
      BY <2>0, <3>1, <3>2, RetryKept, InsertGrows
  <2> QED
    BY <1>5, <2>1, <2>2 DEF RecordError, Call
<1>6. ASSUME NEW d \in Dispatchers, Settle(d) PROVE RetryInv'
  <2>1. Done(d) /\ attempts' = attempts
    BY <1>6 DEF Settle, Call, rowVars
  <2>2. CASE RetryAllowed(d) /\ Reschedule(d)
    BY <1>6, <2>1, <2>2, RetrySettled DEF Settle
  <2>3. CASE rescheduled' = rescheduled
    <3>1. Others(d) /\ run'[d].at # "settle" /\ run'[d].number = 0
      BY <2>1, DoneEffect
    <3> QED
      BY <2>1, <2>3, <3>1, RetryKept, InsertGrows
  <2> QED
    BY <1>6, <2>2, <2>3 DEF Settle, Call, GiveUp
<1>7. ASSUME NEW d \in Dispatchers, Dispatch(d) \/ Crash(d), ~RecordError(d), ~Settle(d) PROVE RetryInv'
  <2>1. run[d].number <= attempts[Job(d)] + 1 /\ attempts[Job(d)] + 1 \in Nat
    BY RunTyped DEF RetryInv, PublishTypeOK
  <2>2. /\ Others(d) /\ run'[d].at # "settle" /\ rescheduled' = rescheduled
        /\ \A j \in Jobs : attempts'[j] >= attempts[j]
        /\ \/ run'[d].number = 0
           \/ run'[d].job = Job(d) /\ run'[d].number \in {run[d].number, attempts[Job(d)] + 1}
    BY <1>7, RetryOthers DEF Dispatch
  <2>3. run'[d].number = 0 \/ run'[d].number <= attempts[run'[d].job] + 1
    BY <2>1, <2>2
  <2> QED
    BY <2>2, <2>3, RetryKept
<1> QED
  BY <1>1, <1>2, <1>3, <1>4, <1>5, <1>6, <1>7 DEF PublishNext, Dispatchers, publishVars

(***************************************************************************)
(* A job is scheduled again less than MaxAttempts times, however many      *)
(* dispatchers work on it at one time and whatever they overwrite.         *)
(***************************************************************************)
THEOREM RetriesAreAlwaysBounded == PublishSpec => []RetriesAreBounded
<1>1. PublishTypeOK /\ PublishTypeOK' /\ RetryInv /\ [PublishNext]_publishVars => RetryInv'
  BY RetryNext
<1>2. PublishTypeOK /\ RetryInv => RetriesAreBounded
  <2> SUFFICES ASSUME PublishTypeOK, RetryInv, NEW j \in Jobs PROVE rescheduled[j] < MaxAttempts
    BY DEF RetriesAreBounded
  <2>1. Budget(j) /\ rescheduled[j] \in Nat
    BY DEF RetryInv, PublishTypeOK
  <2>2. Cardinality(Retrying(j)) \in Nat /\ rescheduled[j] + Cardinality(Retrying(j)) < MaxAttempts
    BY <2>1, FS_CardinalityType DEF Budget
  <2> HIDE DEF Retrying
  <2> QED
    BY <2>1, <2>2, LimitsAssumption
<1> QED
  BY <1>1, <1>2, RetryInit, PublishTypeCorrect, PTL DEF PublishSpec

-----------------------------------------------------------------------------
(***************************************************************************)
(* LinkedIn.  While one dispatcher at a time works on a job, it knows that *)
(* the job was not posted, unless it found it processing; and a job that   *)
(* was posted never waits again.                                           *)
(***************************************************************************)
Waiting == {"none", "scheduled", "queued"}

Once(j) == posts[j] <= 1 /\ (posts[j] > 0 => job[j] \notin Waiting)

Alone(j) == \A d, e \in Dispatchers : WorksOn(d, j) /\ WorksOn(e, j) => d = e

Careful(d, j) ==
  /\ run[d].at \in {"claim", "prepare", "publish"} => ~run[d].transient
  /\ posts[j] > 0 => /\ ~run[d].transient /\ run[d].at # "publish"
                     /\ run[d].at \in {"claim", "prepare"} => run[d].stale
  /\ run[d].at \in {"prepare", "publish"} => job[j] \notin Waiting
  /\ run[d].at = "claim" /\ run[d].stale => job[j] \notin Waiting

OnceInv ==
  \A j \in linkedIn \ disturbed :
    Once(j) /\ Alone(j) /\ \A d \in Dispatchers : WorksOn(d, j) => Careful(d, j)

LEMMA OnceInit == PublishInit => OnceInv
<1> SUFFICES ASSUME PublishInit PROVE OnceInv
  OBVIOUS
<1>1. \A d \in Dispatchers : run[d].at = "idle"
  BY IdleTyped DEF PublishInit
<1>2. linkedIn \subseteq Jobs /\ \A j \in Jobs : posts[j] = 0
  BY DEF PublishInit
<1> QED
  <2> SUFFICES ASSUME NEW j \in linkedIn \ disturbed
               PROVE  Once(j) /\ \A d \in Dispatchers : ~WorksOn(d, j)
    BY DEF OnceInv, Alone
  <2>1. Once(j)
    BY <1>2 DEF Once
  <2>2. \A d \in Dispatchers : ~WorksOn(d, j)
    BY <1>1 DEF WorksOn, Working
  <2> QED
    BY <2>1, <2>2

\* A step of d, or of nobody, and a job that it moves.
LEMMA OnceMoves ==
  ASSUME PublishTypeOK, OnceInv, NEW d, NEW j \in linkedIn \ disturbed,
         \A e \in Dispatchers : e # d => run'[e] = run[e],
         d \in Dispatchers /\ WorksOn(d, j)' =>
           Careful(d, j)' /\ (WorksOn(d, j) \/ \A e \in Dispatchers : ~WorksOn(e, j)),
         Once(j)',
         \/ posts'[j] = posts[j] /\ (job'[j] = job[j] \/ job'[j] \notin Waiting)
         \/ d \in Dispatchers /\ WorksOn(d, j)
         \/ \A e \in Dispatchers : ~WorksOn(e, j)
  PROVE  Once(j)' /\ Alone(j)' /\ \A e \in Dispatchers : WorksOn(e, j)' => Careful(e, j)'
<1>1. Alone(j) /\ \A e \in Dispatchers : WorksOn(e, j) => Careful(e, j)
  BY DEF OnceInv
<1>2. \A e \in Dispatchers : e # d => (WorksOn(e, j)' <=> WorksOn(e, j))
  BY DEF WorksOn, Job
<1>3. Alone(j)'
  BY <1>1, <1>2 DEF Alone
<1>4. ASSUME NEW e \in Dispatchers, e # d, WorksOn(e, j) PROVE Careful(e, j)'
  <2>1. posts'[j] = posts[j] /\ (job'[j] = job[j] \/ job'[j] \notin Waiting)
    BY <1>1, <1>4 DEF Alone
  <2>2. run'[e] = run[e] /\ Careful(e, j)
    BY <1>1, <1>4
  <2> QED
    BY <2>1, <2>2 DEF Careful
<1> QED
  BY <1>1, <1>2, <1>3, <1>4

\* What a step of d leaves of the other jobs.
LEMMA OtherJobs ==
  ASSUME PublishTypeOK, NEW d \in Dispatchers, Dispatch(d) \/ Crash(d)
  PROVE  /\ Others(d) /\ linkedIn' = linkedIn /\ disturbed' = disturbed
         /\ \A j \in Jobs : j # Job(d) => posts'[j] = posts[j] /\ job'[j] = job[j]
         /\ run'[d].at \in Working => run'[d].job = Job(d) /\ run[d].at \in Working
<1>0. Job(d) \in Jobs
  BY RunTyped
<1>1. CASE Claim(d)
  <2>1. Others(d) /\ run'[d].job = Job(d)
    <3>1. Step(d, [run[d] EXCEPT !.at = "prepare"]) \/ Goto(d, "prepare") \/ FailAs(d, FALSE)
      BY <1>1 DEF Claim, Call
    <3>2. CASE Step(d, [run[d] EXCEPT !.at = "prepare"])
      BY <3>2, OnwardEffect, AllLabels
    <3>3. CASE Goto(d, "prepare")
      BY <3>3, GotoEffect, AllLabels
    <3>4. CASE FailAs(d, FALSE)
      BY <3>4, FailEffect
    <3> QED
      BY <3>1, <3>2, <3>3, <3>4
  <2>2. UNCHANGED job \/ SetStatus(Job(d), "processing")
    BY <1>1 DEF Claim, Call
  <2> QED
    BY <1>0, <1>1, <2>1, <2>2 DEF Claim, At, SetStatus, PublishTypeOK, Working, historyVars, mayaVars
<1>2. CASE Prepare(d)
  <2>1. Others(d) /\ run'[d].job = Job(d)
    BY <1>2, CountEffect, FailEffect, AllLabels DEF Prepare
  <2> QED
    BY <1>2, <2>1 DEF Prepare, At, Working, historyVars, mayaVars
<1>3. CASE Publish(d)
  <2>1. Others(d) /\ run'[d].job = Job(d)
    BY <1>3, OnwardEffect, FailEffect, AllLabels DEF Publish, TransientPost
  <2> QED
    BY <1>0, <1>3, <2>1 DEF Publish, Post, At, PublishTypeOK, Working, mayaVars
<1>4. CASE RecordSuccess(d)
  <2>1. Others(d) /\ run'[d].job = Job(d)
    BY <1>4, GotoEffect, FailEffect, AllLabels DEF RecordSuccess, Call
  <2> QED
    BY <1>4, <2>1 DEF RecordSuccess, At, Working, historyVars, mayaVars
<1>5. CASE MarkPublished(d)
  <2>1. Others(d) /\ (run'[d].job = Job(d) \/ run'[d].at \in {"idle", "ack"})
    BY <1>5, FailEffect, DoneEffect DEF MarkPublished, Call
  <2>2. UNCHANGED job \/ SetStatus(Job(d), "published")
    BY <1>5 DEF MarkPublished, Call
  <2> QED
    BY <1>0, <1>5, <2>1, <2>2
    DEF MarkPublished, At, SetStatus, PublishTypeOK, Working, historyVars, mayaVars
<1>6. CASE ListAttempts(d)
  <2>1. Others(d) /\ (run'[d].job = Job(d) \/ run'[d].at \in {"idle", "ack"})
    BY <1>6, CountEffect, DoneEffect, AllLabels DEF ListAttempts
  <2> QED
    BY <1>6, <2>1 DEF ListAttempts, At, Working, historyVars, mayaVars
<1>7. CASE RecordError(d)
  <2>1. Others(d) /\ (run'[d].job = Job(d) \/ run'[d].at \in {"idle", "ack"})
    BY <1>7, OnwardEffect, DoneEffect, AllLabels DEF RecordError, Call
  <2> QED
    BY <1>7, <2>1 DEF RecordError, At, Working, historyVars, mayaVars
<1>8. CASE Settle(d)
  <2>1. Others(d) /\ run'[d].at \in {"idle", "ack"}
    BY <1>8, DoneEffect DEF Settle, Call
  <2>2. \/ UNCHANGED job
        \/ \E status \in {"scheduled", "exhausted", "failed"} : SetStatus(Job(d), status)
    BY <1>8 DEF Settle, Call, Reschedule, GiveUp
  <2> QED
    BY <1>0, <1>8, <2>1, <2>2 DEF Settle, SetStatus, PublishTypeOK, Working, mayaVars
<1>9. CASE Ack(d) \/ Crash(d)
  <2>1. Others(d) /\ run'[d].at = "idle"
    BY <1>9, IdleTyped, StepEffect, ReturnEffect DEF Ack, Crash
  <2> QED
    BY <1>9, <2>1 DEF Ack, Crash, Working, historyVars, mayaVars
<1>10. CASE DeadRecord(d)
  <2>1. Others(d) /\ run'[d].at \in {"dead_fail", "idle"}
    <3>1. Goto(d, "dead_fail") \/ Return(d)
      BY <1>10 DEF DeadRecord, Call
    <3> QED
      BY <3>1, GotoEffect, ReturnEffect, IdleTyped, AllLabels
  <2> QED
    BY <1>10, <2>1 DEF DeadRecord, Working, historyVars, mayaVars
<1>11. CASE DeadFail(d)
  <2>1. Others(d) /\ run'[d].at \in {"idle", "ack"}
    BY <1>11, DoneEffect, ReturnEffect, IdleTyped DEF DeadFail, Call
  <2>2. UNCHANGED job \/ SetStatus(Job(d), "exhausted")
    BY <1>11 DEF DeadFail, Call
  <2> QED
    BY <1>0, <1>11, <2>1, <2>2 DEF DeadFail, SetStatus, PublishTypeOK, Working, historyVars, mayaVars
<1> QED
  BY <1>1, <1>2, <1>3, <1>4, <1>5, <1>6, <1>7, <1>8, <1>9, <1>10, <1>11 DEF Dispatch

\* The step of a dispatcher on the job that it works on.
LEMMA OwnStep ==
  ASSUME PublishTypeOK, NEW d \in Dispatchers, Dispatch(d) \/ Crash(d),
         NEW j \in linkedIn \ disturbed, WorksOn(d, j), Once(j), Careful(d, j)
  PROVE  Once(j)' /\ (run'[d].at \in Working => Careful(d, j)')
<1>0. j = Job(d) /\ Job(d) \in Jobs /\ run[d].at \in Working /\ posts[j] \in 0..2
  BY RunTyped DEF WorksOn, PublishTypeOK
<1>a. /\ run[d].at \notin {"idle", "ack", "dead_note", "dead_fail"}
      /\ run[d].transient \in BOOLEAN /\ run[d].stale \in BOOLEAN
  BY <1>0, RunTyped DEF Working
<1>1. CASE Claim(d)
  <2>0. run[d].at = "claim" /\ posts' = posts /\ ~run[d].transient
    BY <1>1 DEF Claim, At, historyVars, Careful
  <2>1. CASE run[d].stale
    <3>1. job' = job /\ job[j] \notin Waiting /\ Step(d, [run[d] EXCEPT !.at = "prepare"])
      BY <1>1, <2>0, <2>1 DEF Claim, Careful
    <3>2. run'[d].at = "prepare" /\ run'[d].stale /\ ~run'[d].transient
      BY <2>0, <2>1, <3>1, OnwardEffect, AllLabels
    <3> QED
      BY <2>0, <3>1, <3>2 DEF Once, Careful
  <2>2. CASE ~run[d].stale
    <3>1. posts[j] = 0
      BY <1>0, <2>0, <2>2 DEF Careful
    <3>2. CASE Goto(d, "prepare") /\ SetStatus(Job(d), "processing")
      <4>1. run'[d].at = "prepare" /\ ~run'[d].transient
        BY <3>2, GotoEffect, AllLabels
      <4>2. job'[j] \notin Waiting
        BY <1>0, <3>2 DEF SetStatus, PublishTypeOK, Waiting
      <4> QED
        BY <2>0, <3>1, <4>1, <4>2 DEF Once, Careful
    <3>3. CASE FailAs(d, FALSE)
      <4>1. run'[d].at = "list" /\ ~run'[d].transient
        BY <3>3, FailEffect
      <4> QED
        BY <2>0, <3>1, <4>1 DEF Once, Careful
    <3> QED
      BY <1>1, <2>2, <3>2, <3>3 DEF Claim, Call
  <2> QED
    BY <1>a, <2>1, <2>2
<1>2. CASE Prepare(d)
  <2>0. run[d].at = "prepare" /\ posts' = posts /\ job' = job /\ ~run[d].transient /\ job[j] \notin Waiting
    BY <1>2 DEF Prepare, At, historyVars, Careful
  <2>1. MayStart(d) => posts[j] = 0
    BY <1>0, <2>0 DEF MayStart, Careful
  <2>2. CASE FailAs(d, FALSE)
    <3>1. run'[d].at = "list" /\ ~run'[d].transient
      BY <2>2, FailEffect
    <3> QED
      BY <2>0, <3>1 DEF Once, Careful
  <2>3. CASE MayStart(d) /\ FailAs(d, TRUE)
    <3>1. run'[d].at = "list"
      BY <2>3, FailEffect
    <3> QED
      BY <2>0, <2>1, <2>3, <3>1 DEF Once, Careful
  <2>4. CASE MayStart(d) /\ Counted(d, "publish")
    <3>1. run'[d].at = "publish" /\ ~run'[d].transient
      BY <2>0, <2>4, CountEffect, AllLabels
    <3> QED
      BY <2>0, <2>1, <2>4, <3>1 DEF Once, Careful
  <2> QED
    BY <1>2, <2>2, <2>3, <2>4 DEF Prepare
<1>3. CASE Publish(d)
  <2>0. run[d].at = "publish" /\ posts[j] = 0 /\ job' = job /\ ~run[d].transient /\ job[j] \notin Waiting
    BY <1>0, <1>3 DEF Publish, At, Careful
  <2>1. posts'[j] \in 0..1
    BY <1>0, <1>3, <2>0 DEF Publish, Post, PublishTypeOK
  <2>2. CASE Step(d, [run[d] EXCEPT !.at = "record"])
    <3>1. run'[d].at = "record" /\ ~run'[d].transient
      BY <2>0, <2>2, OnwardEffect, AllLabels
    <3> QED
      BY <2>0, <2>1, <3>1 DEF Once, Careful
  <2>3. CASE FailAs(d, TransientPost(d))
    <3>1. run'[d].at = "list" /\ ~run'[d].transient
      BY <1>0, <2>3, FailEffect DEF TransientPost
    <3> QED
      BY <2>0, <2>1, <3>1 DEF Once, Careful
  <2> QED
    BY <1>3, <2>2, <2>3 DEF Publish
<1>4. CASE RecordSuccess(d)
  <2>0. posts' = posts /\ job' = job
    BY <1>4 DEF RecordSuccess, historyVars
  <2>1. run'[d].at \in {"finish", "list"} /\ ~run'[d].transient
    <3>1. Goto(d, "finish") \/ FailAs(d, FALSE)
      BY <1>4 DEF RecordSuccess, Call
    <3>2. CASE Goto(d, "finish")
      BY <3>2, GotoEffect, AllLabels
    <3>3. CASE FailAs(d, FALSE)
      BY <3>3, FailEffect
    <3> QED
      BY <3>1, <3>2, <3>3
  <2> QED
    BY <2>0, <2>1 DEF Once, Careful
<1>5. CASE MarkPublished(d)
  <2>0. posts' = posts /\ (job'[j] = job[j] \/ job'[j] = "published")
    BY <1>0, <1>5 DEF MarkPublished, Call, SetStatus, PublishTypeOK, historyVars
  <2>1. run'[d].at \in {"idle", "ack"} \/ (run'[d].at = "list" /\ ~run'[d].transient)
    BY <1>5, FailEffect, DoneEffect DEF MarkPublished, Call
  <2> QED
    BY <2>0, <2>1 DEF Once, Careful, Waiting, Working
<1>6. CASE ListAttempts(d)
  <2>0. posts' = posts /\ job' = job
    BY <1>6 DEF ListAttempts, historyVars
  <2>1. \/ run'[d].at \in {"idle", "ack"}
        \/ run'[d].at = "note" /\ run'[d].transient = run[d].transient
    BY <1>6, CountEffect, DoneEffect, AllLabels DEF ListAttempts
  <2> QED
    BY <2>0, <2>1 DEF Once, Careful, Working
<1>7. CASE RecordError(d)
  <2>0. posts' = posts /\ job' = job
    BY <1>7 DEF RecordError, historyVars
  <2>1. \/ run'[d].at \in {"idle", "ack"}
        \/ run'[d].at = "settle" /\ run'[d].transient = run[d].transient
    BY <1>7, OnwardEffect, DoneEffect, AllLabels DEF RecordError, Call
  <2> QED
    BY <2>0, <2>1 DEF Once, Careful, Working
<1>8. CASE Settle(d)
  <2>0. posts' = posts /\ run'[d].at \in {"idle", "ack"}
    BY <1>8, DoneEffect DEF Settle, Call
  <2>1. posts[j] > 0 => ~run[d].transient
    BY DEF Careful
  <2>2. posts[j] > 0 => job'[j] \notin Waiting
    BY <1>0, <1>8, <2>1 DEF Settle, Call, RetryAllowed, GiveUp, SetStatus, Once, Waiting, PublishTypeOK
  <2> QED
    BY <2>0, <2>2 DEF Once, Working
<1>9. CASE Crash(d)
  <2>1. posts' = posts /\ job' = job /\ run'[d].at = "idle"
    BY <1>9, ReturnEffect, IdleTyped DEF Crash, historyVars
  <2> QED
    BY <2>1 DEF Once, Working
<1>10. ~Ack(d) /\ ~DeadRecord(d) /\ ~DeadFail(d)
  BY <1>a DEF Ack, DeadRecord, DeadFail, At
<1> QED
  BY <1>1, <1>2, <1>3, <1>4, <1>5, <1>6, <1>7, <1>8, <1>9, <1>10 DEF Dispatch

\* A dead letter of a job, and an acknowledgement, post nothing.
LEMMA IdleStep ==
  ASSUME PublishTypeOK, NEW d \in Dispatchers, Dispatch(d) \/ Crash(d), run[d].at \notin Working,
         NEW j \in Jobs
  PROVE  posts'[j] = posts[j] /\ (job'[j] = job[j] \/ job'[j] \notin Waiting)
<1>1. Ack(d) \/ Crash(d) \/ DeadRecord(d) \/ DeadFail(d)
  BY DEF Dispatch, Claim, Prepare, Publish, RecordSuccess, MarkPublished, ListAttempts, RecordError,
     Settle, At, Working
<1>2. posts' = posts
  BY <1>1 DEF Ack, Crash, DeadRecord, DeadFail, historyVars
<1>3. job' = job \/ SetStatus(Job(d), "exhausted")
  BY <1>1 DEF Ack, Crash, DeadRecord, DeadFail, Call
<1> QED
  BY <1>2, <1>3, RunTyped DEF SetStatus, PublishTypeOK, Waiting

LEMMA OnceDispatch ==
  ASSUME PublishTypeOK, OnceInv, NEW d \in Dispatchers, Dispatch(d) \/ Crash(d)
  PROVE  OnceInv'
<1>0. /\ Others(d) /\ linkedIn' = linkedIn /\ disturbed' = disturbed
      /\ \A k \in Jobs : k # Job(d) => posts'[k] = posts[k] /\ job'[k] = job[k]
      /\ run'[d].at \in Working => run'[d].job = Job(d) /\ run[d].at \in Working
  BY OtherJobs
<1> SUFFICES ASSUME NEW j \in linkedIn \ disturbed
             PROVE  Once(j)' /\ Alone(j)' /\ \A e \in Dispatchers : WorksOn(e, j)' => Careful(e, j)'
  BY <1>0 DEF OnceInv
<1>1. j \in Jobs /\ Once(j) /\ (WorksOn(d, j) => Careful(d, j))
  BY DEF OnceInv, PublishTypeOK
<1>2. WorksOn(d, j)' => WorksOn(d, j)
  BY <1>0 DEF WorksOn, Job
<1>3. CASE WorksOn(d, j)
  <2>1. Once(j)' /\ (run'[d].at \in Working => Careful(d, j)')
    BY <1>1, <1>3, OwnStep
  <2>2. WorksOn(d, j)' => Careful(d, j)'
    BY <2>1 DEF WorksOn
  <2> QED
    BY <1>0, <1>3, <2>1, <2>2, OnceMoves DEF Others
<1>4. CASE ~WorksOn(d, j)
  <2>1. posts'[j] = posts[j] /\ (job'[j] = job[j] \/ job'[j] \notin Waiting)
    BY <1>0, <1>1, <1>4, IdleStep DEF WorksOn
  <2>2. Once(j)'
    BY <1>1, <2>1 DEF Once
  <2> QED
    BY <1>0, <1>2, <1>4, <2>1, <2>2, OnceMoves DEF Others
<1> QED
  BY <1>3, <1>4

\* A step that leaves every dispatch alone.
LEMMA OnceQuiet ==
  ASSUME OnceInv, run' = run, posts' = posts, linkedIn' = linkedIn, disturbed \subseteq disturbed',
         \A j \in linkedIn \ disturbed' : job'[j] \in Waiting => job[j] \in Waiting
  PROVE  OnceInv'
<1> SUFFICES ASSUME NEW j \in linkedIn \ disturbed'
             PROVE  Once(j)' /\ Alone(j)' /\ \A d \in Dispatchers : WorksOn(d, j)' => Careful(d, j)'
  BY DEF OnceInv
<1>1. Once(j) /\ Alone(j) /\ \A d \in Dispatchers : WorksOn(d, j) => Careful(d, j)
  BY DEF OnceInv
<1>2. \A d \in Dispatchers : WorksOn(d, j)' <=> WorksOn(d, j)
  BY DEF WorksOn, Job
<1>3. Once(j)' /\ Alone(j)'
  BY <1>1, <1>2 DEF Once, Alone
<1>4. ASSUME NEW d \in Dispatchers, WorksOn(d, j) PROVE Careful(d, j)'
  BY <1>1, <1>4 DEF Careful
<1> QED
  BY <1>2, <1>3, <1>4

\* A dispatch that begins: it read the status, and nobody else works on the job.
LEMMA OnceBegin ==
  ASSUME PublishTypeOK, OnceInv, NEW d \in Dispatchers, run[d].at = "idle", NEW k \in Jobs,
         NEW m \in Messages \cup {Direct}, job[k] \in Dispatchable, Begin(d, k, m),
         job' = job, posts' = posts, linkedIn' = linkedIn
  PROVE  OnceInv'
<1>0. /\ Others(d) /\ run'[d].at = "claim" /\ run'[d].job = k /\ run'[d].transient = FALSE
      /\ run'[d].stale = (job[k] = "processing")
  BY BeginEffect
<1>1. disturbed' = disturbed \cup {i \in {k} : \E e \in Dispatchers : WorksOn(e, i)}
  BY DEF Begin
<1> SUFFICES ASSUME NEW j \in linkedIn \ disturbed'
             PROVE  Once(j)' /\ Alone(j)' /\ \A e \in Dispatchers : WorksOn(e, j)' => Careful(e, j)'
  BY DEF OnceInv
<1>2. j \in linkedIn \ disturbed /\ Once(j) /\ j \in Jobs /\ posts[j] \in 0..2
  BY <1>1 DEF OnceInv, PublishTypeOK
<1>3. Once(j)'
  BY <1>2 DEF Once
<1>4. ASSUME WorksOn(d, j)' PROVE Careful(d, j)' /\ \A e \in Dispatchers : ~WorksOn(e, j)
  <2>1. j = k
    BY <1>0, <1>4 DEF WorksOn, Job
  <2>2. \A e \in Dispatchers : ~WorksOn(e, j)
    BY <1>1, <2>1
  <2>3. posts[j] > 0 => job[j] = "processing"
    BY <1>2, <2>1 DEF Once, Waiting, Dispatchable
  <2>4. job[j] = "processing" => job[j] \notin Waiting
    BY DEF Waiting
  <2>5. Careful(d, j)'
    BY <1>0, <2>1, <2>3, <2>4 DEF Careful
  <2> QED
    BY <2>2, <2>5
<1> QED
  BY <1>0, <1>2, <1>3, <1>4, OnceMoves DEF Others

\* A message that is taken without a dispatch.
LEMMA OnceTaken ==
  ASSUME PublishTypeOK, OnceInv, NEW d \in Dispatchers, Others(d), run'[d].at \in {"ack", "dead_note"},
         job' = job, posts' = posts, linkedIn' = linkedIn, disturbed' = disturbed
  PROVE  OnceInv'
<1> SUFFICES ASSUME NEW j \in linkedIn \ disturbed
             PROVE  Once(j)' /\ Alone(j)' /\ \A e \in Dispatchers : WorksOn(e, j)' => Careful(e, j)'
  BY DEF OnceInv
<1>1. Once(j)'
  BY DEF OnceInv, Once
<1>2. ~WorksOn(d, j)'
  BY DEF WorksOn, Working
<1> QED
  BY <1>1, <1>2, OnceMoves DEF Others

LEMMA OnceNext == PublishTypeOK /\ OnceInv /\ [PublishNext]_publishVars => OnceInv'
<1> SUFFICES ASSUME PublishTypeOK, OnceInv, [PublishNext]_publishVars PROVE OnceInv'
  OBVIOUS
<1>1. CASE UNCHANGED publishVars
  BY <1>1, OnceQuiet DEF publishVars
<1>2. ASSUME NEW j \in Jobs,
             CreateJob(j) \/ ComeDue(j) \/ Look(j) \/ Requeue(j) \/ \E m \in Messages : SendDue(j, m)
      PROVE  OnceInv'
  <2>1. run' = run /\ posts' = posts /\ linkedIn' = linkedIn /\ disturbed \subseteq disturbed'
    BY <1>2 DEF CreateJob, ComeDue, Look, Requeue, SendDue, historyVars, mayaVars
  <2>2. \A k \in linkedIn \ disturbed' : job'[k] \in Waiting => job[k] \in Waiting
    BY <1>2 DEF CreateJob, ComeDue, Look, Requeue, SendDue, SetStatus, Waiting, PublishTypeOK
  <2> QED
    BY <2>1, <2>2, OnceQuiet
<1>3. ASSUME NEW d \in Dispatchers, NEW j \in Jobs, DispatchDirectly(d, j) PROVE OnceInv'
  <2>1. job[j] \in Dispatchable /\ run[d].at = "idle" /\ Begin(d, j, Direct)
    BY <1>3 DEF DispatchDirectly, Listed, At, Dispatchable
  <2> QED
    BY <1>3, <2>1, OnceBegin DEF DispatchDirectly, mayaVars
<1>4. ASSUME NEW d \in Dispatchers, NEW m \in Messages, Receive(d, m) \/ ReceiveDead(d, m)
      PROVE  OnceInv'
  <2>0. message[m].job \in Jobs /\ run[d].at = "idle"
        /\ job' = job /\ posts' = posts /\ linkedIn' = linkedIn
    BY <1>4, TakeEffect DEF Receive, ReceiveDead, At, historyVars, mayaVars
  <2>1. CASE Receive(d, m) /\ job[message[m].job] \in Dispatchable /\ Begin(d, message[m].job, m)
    BY <2>0, <2>1, OnceBegin
  <2>2. CASE Receive(d, m) /\ disturbed' = disturbed
             /\ Step(d, [Idle EXCEPT !.job = message[m].job, !.message = m, !.at = "ack"])
    <3> DEFINE next == [Idle EXCEPT !.job = message[m].job, !.message = m, !.at = "ack"]
    <3>1. next \in RunType /\ next.at = "ack"
      BY <2>0, SomeJob DEF Idle, RunType, Labels
    <3>2. Step(d, next)
      BY <2>2
    <3> HIDE DEF next
    <3>3. Others(d) /\ run'[d].at = "ack"
      BY <3>1, <3>2, StepEffect
    <3> QED
      BY <2>0, <2>2, <3>3, OnceTaken
  <2>3. CASE ReceiveDead(d, m)
    <3>1. Others(d) /\ run'[d].at = "dead_note"
      <4> DEFINE next == [Idle EXCEPT !.job = message[m].job, !.message = m, !.at = "dead_note",
                            !.number = attempts[message[m].job] + 1]
      <4>1. attempts[message[m].job] + 1 \in Nat
        BY <2>0 DEF PublishTypeOK
      <4>2. next \in RunType /\ next.at = "dead_note"
        BY <2>0, <4>1, SomeJob DEF Idle, RunType, Labels
      <4>3. Step(d, next)
        BY <2>3 DEF ReceiveDead
      <4> HIDE DEF next
      <4> QED
        BY <4>2, <4>3, StepEffect
    <3>2. disturbed' = disturbed
      BY <2>3 DEF ReceiveDead, historyVars
    <3> QED
      BY <2>0, <3>1, <3>2, OnceTaken
  <2> QED
    BY <1>4, <2>1, <2>2, <2>3 DEF Receive
<1>5. ASSUME NEW d \in Dispatchers, Dispatch(d) \/ Crash(d) PROVE OnceInv'
  BY <1>5, OnceDispatch
<1> QED
  BY <1>1, <1>2, <1>3, <1>4, <1>5 DEF PublishNext, Dispatchers

(***************************************************************************)
(* A LinkedIn job that one dispatcher at a time works on, and that is not  *)
(* queued again by Maya, is posted once at most.                           *)
(***************************************************************************)
THEOREM LinkedInAlwaysPostsOnce == PublishSpec => []LinkedInPostsOnce
<1>1. PublishTypeOK /\ OnceInv /\ [PublishNext]_publishVars => OnceInv'
  BY OnceNext
<1>2. OnceInv => LinkedInPostsOnce
  BY DEF OnceInv, Once, LinkedInPostsOnce
<1> QED
  BY <1>1, <1>2, OnceInit, PublishTypeCorrect, PTL DEF PublishSpec
=============================================================================
