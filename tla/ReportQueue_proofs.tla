------------------------- MODULE ReportQueue_proofs -------------------------
(***************************************************************************)
(* Proofs of the safety properties of ReportQueue, for any number of       *)
(* payments, scans, messages and invocations and any limits.               *)
(***************************************************************************)
EXTENDS ReportQueue, FiniteSetTheorems, TLAPS

USE DEF MainPcs, DlqPcs, EndPcs, Endings

Msg == [at : {"free", "main", "dlq"}, job : Payments \cup {NoJob}, attempts : Nat]

Shape == TypeOK /\ MessagesOK /\ HoldersOK

-----------------------------------------------------------------------------
\* An invocation that is not idle has a message, a job and a scan.
LEMMA Working ==
  ASSUME Shape, NEW c \in Consumers, pc[c] # "idle"
  PROVE  /\ held[c] \in Messages /\ held[c] # NoMessage
         /\ msgs[held[c]].at \in {"main", "dlq"}
         /\ Job(c) \in Payments /\ Scan(c) \in Scans
<1>1. held[c] \in Messages /\ held[c] # NoMessage
  BY NoneAssumption DEF Shape, TypeOK, HoldersOK
<1>2. msgs[held[c]].at \in {"main", "dlq"}
  BY <1>1 DEF Shape, TypeOK, HoldersOK
<1>3. Job(c) \in Payments
  BY <1>1, <1>2 DEF Shape, MessagesOK, Job
<1> QED
  BY <1>1, <1>2, <1>3, ScansAssumption DEF Scan

-----------------------------------------------------------------------------
(***************************************************************************)
(* Type correctness.                                                       *)
(***************************************************************************)
LEMMA InitTypeOK == Init => TypeOK
BY ScansAssumption, LimitsAssumption DEF Init, TypeOK, FreeSlot

LEMMA NextTypeOK == Shape /\ [Next]_vars => TypeOK'
<1> SUFFICES ASSUME Shape, [Next]_vars PROVE TypeOK'
  OBVIOUS
<1> TypeOK
  BY DEF Shape
<1> USE LimitsAssumption, ScansAssumption, NoneAssumption
<1>1. ASSUME NEW p \in Payments, Enqueue(p) PROVE TypeOK'
  BY <1>1 DEF TypeOK, Enqueue, Send, Fresh
<1>2. ASSUME NEW c \in Consumers, NEW m \in Messages, Receive(c, m) PROVE TypeOK'
  BY <1>2 DEF TypeOK, Receive, Goto
<1>3. ASSUME NEW c \in Consumers, Handle(c) \/ Crash(c) PROVE TypeOK'
  <2>0. pc[c] # "idle"
    BY <1>3 DEF Handle, CheckReport, CrawlComplete, CrawlPartial, Requeue, Render,
         RenderThrows, SendEmail, EmailTimesOut, InsertReport, Throw, RecordFailure,
         DlqNotify, DlqCheckMark, DlqSend, DlqPutMark, DlqThrow, Ack, Retry, Crash
  <2> held[c] \in Messages /\ Job(c) \in Payments /\ Scan(c) \in Scans
    BY <2>0, Working
  <2>1. CASE CheckReport(c)
    BY <2>1 DEF TypeOK, CheckReport, Goto
  <2>2. CASE CrawlComplete(c)
    BY <2>2 DEF TypeOK, CrawlComplete, Goto
  <2>3. CASE CrawlPartial(c)
    BY <2>3 DEF TypeOK, CrawlPartial, Goto
  <2>4. CASE Requeue(c)
    BY <2>4 DEF TypeOK, Requeue, Goto, Send, Fresh
  <2>5. CASE Render(c) \/ RenderThrows(c)
    BY <2>5 DEF TypeOK, Render, RenderThrows, Goto
  <2>6. CASE SendEmail(c) \/ EmailTimesOut(c)
    BY <2>6 DEF TypeOK, SendEmail, EmailTimesOut, Goto
  <2>7. CASE InsertReport(c)
    BY <2>7 DEF TypeOK, InsertReport, Goto
  <2>8. CASE Throw(c)
    BY <2>8 DEF TypeOK, Throw, Goto
  <2>9. CASE RecordFailure(c)
    BY <2>9 DEF TypeOK, RecordFailure, MarkFailed, Goto
  <2>10. CASE DlqNotify(c) \/ DlqThrow(c)
    BY <2>10 DEF TypeOK, DlqNotify, DlqThrow, Goto
  <2>11. CASE DlqCheckMark(c)
    BY <2>11 DEF TypeOK, DlqCheckMark, Goto
  <2>12. CASE DlqSend(c)
    BY <2>12 DEF TypeOK, DlqSend, Goto, Send, Fresh
  <2>13. CASE DlqPutMark(c)
    BY <2>13 DEF TypeOK, DlqPutMark, Goto
  <2>14. CASE Ack(c)
    BY <2>14 DEF TypeOK, Ack, Release, FreeSlot
  <2>15. CASE Retry(c) \/ Crash(c)
    <3>1. Redelivered(msgs[held[c]]) \in Msg
      BY DEF TypeOK, Msg, Redelivered, RetriesLeft, DeadLetter, FreeSlot, Fresh, Job
    <3> QED
      BY <2>15, <3>1 DEF TypeOK, Msg, Retry, Crash, Redeliver, Release
  <2> QED
    BY <1>3, <2>1, <2>2, <2>3, <2>4, <2>5, <2>6, <2>7, <2>8, <2>9, <2>10,
       <2>11, <2>12, <2>13, <2>14, <2>15 DEF Handle
<1>4. CASE UNCHANGED vars
  BY <1>4 DEF TypeOK, vars
<1> QED
  BY <1>1, <1>2, <1>3, <1>4 DEF Next, Deliver

-----------------------------------------------------------------------------
(***************************************************************************)
(* The three kinds of step a handler takes: on to another point of the     *)
(* same branch, a send, or the end of the delivery.                        *)
(***************************************************************************)
Moves(c) ==
  /\ held' = held
  /\ \E label \in MainPcs \cup DlqPcs \cup EndPcs :
       /\ pc' = [pc EXCEPT ![c] = label]
       /\ \/ pc[c] \in MainPcs /\ label \in MainPcs \cup EndPcs
          \/ pc[c] \in DlqPcs /\ label \in DlqPcs \cup EndPcs

Sends(p) == \E m \in Messages : Send(m, p)

Ends(c) == Ack(c) \/ (pc[c] # "idle" /\ Redeliver(c))

LEMMA HandlerSteps ==
  ASSUME NEW c \in Consumers, Handle(c) \/ Crash(c)
  PROVE  \/ Moves(c) /\ UNCHANGED msgs
         \/ Moves(c) /\ Sends(Job(c)) /\ (Requeue(c) \/ DlqSend(c))
         \/ Ends(c)
<1>1. CASE CheckReport(c) \/ CrawlComplete(c) \/ CrawlPartial(c)
  BY <1>1, Zenon DEF CheckReport, CrawlComplete, CrawlPartial, Moves, Goto
<1>2. CASE Render(c) \/ RenderThrows(c) \/ InsertReport(c) \/ Throw(c)
  BY <1>2 DEF Render, RenderThrows, InsertReport, Throw, Moves, Goto
<1>3. CASE SendEmail(c) \/ EmailTimesOut(c) \/ RecordFailure(c)
  BY <1>3 DEF SendEmail, EmailTimesOut, RecordFailure, Moves, Goto
<1>4. CASE DlqNotify(c) \/ DlqCheckMark(c) \/ DlqPutMark(c) \/ DlqThrow(c)
  BY <1>4 DEF DlqNotify, DlqCheckMark, DlqPutMark, DlqThrow, Moves, Goto
<1>5. CASE Requeue(c) \/ DlqSend(c)
  BY <1>5 DEF Requeue, DlqSend, Sends, Moves, Goto
<1>6. CASE Ack(c) \/ Retry(c) \/ Crash(c)
  BY <1>6 DEF Retry, Crash, Ends
<1> QED
  BY <1>1, <1>2, <1>3, <1>4, <1>5, <1>6 DEF Handle

LEMMA SendsKeep ==
  ASSUME Shape, NEW p \in Payments, Sends(p)
  PROVE  /\ \A m \in Messages : msgs[m].at # "free" => msgs'[m] = msgs[m]
         /\ MessagesOK'
         /\ \E m \in Messages : msgs[m].at = "free" /\ msgs'[m] = Fresh("main", p)
BY DEF Shape, TypeOK, MessagesOK, Sends, Send, Fresh

LEMMA NextMessagesOK == Shape /\ [Next]_vars => MessagesOK'
<1> SUFFICES ASSUME Shape, [Next]_vars PROVE MessagesOK'
  OBVIOUS
<1>1. ASSUME NEW p \in Payments, Enqueue(p) PROVE MessagesOK'
  BY <1>1, SendsKeep DEF Enqueue, Sends
<1>2. ASSUME NEW c \in Consumers, Handle(c) \/ Crash(c) PROVE MessagesOK'
  <2>1. CASE UNCHANGED msgs
    BY <2>1 DEF Shape, MessagesOK
  <2>2. CASE Moves(c) /\ Sends(Job(c))
    <3>1. pc[c] # "idle"
      BY <2>2 DEF Moves
    <3> QED
      BY <2>2, <3>1, Working, SendsKeep
  <2>3. CASE Ends(c)
    <3>1. pc[c] # "idle"
      BY <2>3 DEF Ends, Ack
    <3>2. held[c] \in Messages /\ Job(c) \in Payments
      BY <3>1, Working
    <3> QED
      BY <2>3, <3>2 DEF Shape, TypeOK, MessagesOK, Ends, Ack, Redeliver, Redelivered,
                        RetriesLeft, DeadLetter, FreeSlot, Fresh, Job
  <2> QED
    BY <1>2, <2>1, <2>2, <2>3, HandlerSteps
<1>3. CASE UNCHANGED msgs
  BY <1>3 DEF Shape, MessagesOK
<1> QED
  BY <1>1, <1>2, <1>3 DEF Next, Deliver, Receive, vars

LEMMA NextHoldersOK == Shape /\ [Next]_vars => HoldersOK'
<1> SUFFICES ASSUME Shape, [Next]_vars PROVE HoldersOK'
  OBVIOUS
<1> USE NoneAssumption
<1>0. \A c \in Consumers : held[c] # NoMessage => held[c] \in Messages /\ msgs[held[c]].at # "free"
  BY DEF Shape, TypeOK, HoldersOK
<1>1. ASSUME NEW p \in Payments, Enqueue(p) PROVE HoldersOK'
  <2>1. \A m \in Messages : msgs[m].at # "free" => msgs'[m] = msgs[m]
    BY <1>1, SendsKeep DEF Enqueue, Sends
  <2> QED
    BY <1>0, <1>1, <2>1 DEF Shape, HoldersOK, Enqueue
<1>2. ASSUME NEW c \in Consumers, NEW m \in Messages, Receive(c, m) PROVE HoldersOK'
  BY <1>2 DEF Shape, TypeOK, HoldersOK, Receive, Goto, Held
<1>3. ASSUME NEW c \in Consumers, Handle(c) \/ Crash(c) PROVE HoldersOK'
  <2>1. CASE Moves(c) /\ UNCHANGED msgs
    BY <2>1 DEF Shape, TypeOK, HoldersOK, Moves
  <2>2. CASE Moves(c) /\ Sends(Job(c))
    <3>1. pc[c] # "idle"
      BY <2>2 DEF Moves
    <3>2. \A m \in Messages : msgs[m].at # "free" => msgs'[m] = msgs[m]
      BY <2>2, <3>1, Working, SendsKeep
    <3> QED
      BY <1>0, <2>2, <3>2 DEF Shape, TypeOK, HoldersOK, Moves
  <2>3. CASE Ends(c)
    <3>1. pc[c] # "idle"
      BY <2>3 DEF Ends, Ack
    <3>2. /\ pc' = [pc EXCEPT ![c] = "idle"] /\ held' = [held EXCEPT ![c] = NoMessage]
          /\ \A m \in Messages : m # held[c] => msgs'[m] = msgs[m]
      BY <2>3 DEF Shape, TypeOK, Ends, Ack, Redeliver, Release
    <3> QED
      BY <1>0, <3>1, <3>2 DEF Shape, TypeOK, HoldersOK
  <2> QED
    BY <1>3, <2>1, <2>2, <2>3, HandlerSteps
<1>4. CASE UNCHANGED vars
  BY <1>4 DEF Shape, HoldersOK, vars
<1> QED
  BY <1>1, <1>2, <1>3, <1>4 DEF Next, Deliver

LEMMA ShapeInvariant == Safety => []Shape
<1>1. Init => Shape
  BY InitTypeOK DEF Init, Shape, MessagesOK, HoldersOK, FreeSlot
<1>2. Shape /\ [Next]_vars => Shape'
  BY NextTypeOK, NextMessagesOK, NextHoldersOK DEF Shape
<1> QED
  BY <1>1, <1>2, PTL DEF Safety

-----------------------------------------------------------------------------
(***************************************************************************)
(* No silent loss.                                                         *)
(***************************************************************************)
\* Message m is the copy of p's job that Pending speaks of.
Live(m, p) ==
  /\ msgs[m].at # "free" /\ msgs[m].job = p
  /\ \A c \in Consumers : held[c] = m => ~Spent(c)

LEMMA PendingIsLive == \A p : Pending(p) <=> \E m \in Messages : Live(m, p)
BY DEF Pending, Live

\* Reports are not deleted.
LEMMA ReportsStay ==
  ASSUME Shape, [Next]_vars
  PROVE  \A q \in Payments : reports[q] > 0 => reports'[q] > 0
<1>1. ASSUME NEW c \in Consumers, InsertReport(c) PROVE \A q \in Payments : reports[q] > 0 => reports'[q] > 0
  <2>1. Job(c) \in Payments
    BY <1>1, Working DEF InsertReport
  <2> QED
    BY <1>1, <2>1 DEF Shape, TypeOK, InsertReport
<1>2. (\E c \in Consumers : InsertReport(c)) \/ UNCHANGED reports
  BY DEF Next, Deliver, Handle, vars, Enqueue, Receive, CheckReport, CrawlComplete,
     CrawlPartial, Requeue, Render, RenderThrows, SendEmail, EmailTimesOut, Throw,
     RecordFailure, DlqNotify, DlqCheckMark, DlqSend, DlqPutMark, DlqThrow, Ack, Retry,
     Crash, Redeliver
<1> QED
  BY <1>1, <1>2

\* A giving-up is not taken back either.
LEMMA SettledStays ==
  ASSUME Shape, [Next]_vars, NEW p \in Payments, Settled(p)
  PROVE  Settled(p)'
<1>1. \A q \in Payments : reports[q] > 0 => reports'[q] > 0
  BY ReportsStay
<1>2. \A q \in Payments : ended[q] \subseteq ended'[q]
  <2>1. ASSUME NEW c \in Consumers,
               RecordFailure(c) \/ DlqCheckMark(c) \/ Retry(c) \/ Crash(c)
        PROVE  \A q \in Payments : ended[q] \subseteq ended'[q]
    BY <2>1 DEF Shape, TypeOK, RecordFailure, DlqCheckMark, Retry, Crash, Redeliver
  <2>2. \/ \E c \in Consumers : RecordFailure(c) \/ DlqCheckMark(c) \/ Retry(c) \/ Crash(c)
        \/ UNCHANGED ended
    BY DEF Next, Deliver, Handle, vars, Enqueue, Receive, CheckReport, CrawlComplete,
       CrawlPartial, Requeue, Render, RenderThrows, SendEmail, EmailTimesOut, Throw,
       InsertReport, DlqNotify, DlqSend, DlqPutMark, DlqThrow, Ack
  <2> QED
    BY <2>1, <2>2
<1> QED
  BY <1>1, <1>2 DEF Settled, Reported

\* A handler is done with its message only when the job is settled, or after
\* it has sent the message that carries on.
LEMMA SpentForAReason ==
  ASSUME Shape, NEW c \in Consumers, Handle(c), ~Spent(c), Spent(c)',
         NEW p \in Payments, Job(c) = p
  PROVE  Settled(p)' \/ Sends(p)
<1>1. pc[c] # "idle" /\ pc[c] \notin {"ack", "dlq_put"} /\ pc'[c] \in {"ack", "dlq_put"}
  <2>1. pc[c] # "idle"
    BY HandlerSteps DEF Moves, Ends, Ack
  <2> QED
    BY <2>1 DEF Spent
<1>2. Scan(c) = ScanOf[p]
  BY DEF Scan
<1>3. CASE CheckReport(c)
  <2>1. Reported(Scan(c)) /\ UNCHANGED <<msgs, held, reports, ended>>
    BY <1>1, <1>3 DEF CheckReport, Goto, Shape, TypeOK
  <2> QED
    BY <1>2, <2>1 DEF Settled, Reported
<1>4. CASE InsertReport(c)
  <2>1. reports'[p] > 0
    BY <1>2, <1>4 DEF InsertReport, Shape, TypeOK
  <2> QED
    BY <1>2, <2>1 DEF Settled, Reported
<1>5. CASE RecordFailure(c) \/ DlqCheckMark(c)
  <2>1. \E ending \in Endings : ended' = [ended EXCEPT ![p] = @ \cup {ending}]
    BY <1>1, <1>5 DEF RecordFailure, DlqCheckMark, Goto, Shape, TypeOK
  <2>2. ended'[p] # {}
    BY <2>1 DEF Shape, TypeOK
  <2> QED
    BY <2>2 DEF Settled
<1>6. CASE Requeue(c) \/ DlqSend(c)
  BY <1>6 DEF Requeue, DlqSend, Sends
<1> QED
  BY <1>1, <1>3, <1>4, <1>5, <1>6
     DEF Handle, CrawlComplete, CrawlPartial, Render, RenderThrows, SendEmail, EmailTimesOut,
         Throw, DlqNotify, DlqPutMark, DlqThrow, Ack, Retry, Redeliver, Release, Goto,
         Shape, TypeOK

\* A message that was just sent is live.
LEMMA SentIsLive ==
  ASSUME Shape, NEW p \in Payments, Sends(p), UNCHANGED held
  PROVE  Pending(p)'
<1>1. PICK m \in Messages : msgs[m].at = "free" /\ msgs'[m] = Fresh("main", p)
  BY SendsKeep
<1>2. \A c \in Consumers : held'[c] # m
  BY <1>1, NoneAssumption DEF Shape, TypeOK, HoldersOK
<1> QED
  BY <1>1, <1>2 DEF Pending, Fresh

LEMMA NextNoSilentLoss == Shape /\ NoSilentLoss /\ [Next]_vars => NoSilentLoss'
<1> SUFFICES ASSUME Shape, NoSilentLoss, [Next]_vars,
                    NEW p \in Payments, sent'[p] > 0, ~Settled(p)'
             PROVE  Pending(p)'
  BY DEF NoSilentLoss
<1>0. ~Settled(p)
  BY SettledStays
<1>1. CASE sent[p] = 0
  <2>1. Enqueue(p)
    BY <1>1 DEF Shape, TypeOK, Next, Deliver, Handle, vars, Enqueue, Receive, CheckReport,
       CrawlComplete, CrawlPartial, Requeue, Render, RenderThrows, SendEmail, EmailTimesOut,
       Throw, RecordFailure, InsertReport, DlqNotify, DlqCheckMark, DlqSend, DlqPutMark,
       DlqThrow, Ack, Retry, Crash, Redeliver
  <2> QED
    BY <2>1, SentIsLive DEF Enqueue, Sends
<1>2. CASE sent[p] # 0
  <2>1. PICK m \in Messages : Live(m, p)
    BY <1>0, <1>2, PendingIsLive, LimitsAssumption DEF Shape, TypeOK, NoSilentLoss
  <2>2. ASSUME NEW q \in Payments, Enqueue(q) PROVE Pending(p)'
    <3>1. msgs'[m] = msgs[m] /\ UNCHANGED <<held, pc>>
      BY <2>1, <2>2, SendsKeep DEF Enqueue, Sends, Live
    <3> QED
      BY <2>1, <3>1 DEF Live, Pending, Spent
  <2>3. ASSUME NEW c \in Consumers, NEW n \in Messages, Receive(c, n) PROVE Pending(p)'
    BY <2>1, <2>3 DEF Receive, Goto, Live, Pending, Spent, Shape, TypeOK
  <2>4. ASSUME NEW c \in Consumers, Handle(c), Moves(c), UNCHANGED msgs \/ Sends(Job(c))
        PROVE  Pending(p)'
    <3>1. pc[c] # "idle" /\ Job(c) \in Payments
      BY <2>4, Working DEF Moves
    <3>2. msgs'[m] = msgs[m]
      BY <2>1, <2>4, <3>1, SendsKeep DEF Live
    <3>3. CASE held[c] = m /\ Spent(c)'
      <4>1. Job(c) = p /\ ~Spent(c)
        BY <2>1, <3>3 DEF Live, Job
      <4> QED
        BY <2>4, <3>3, <4>1, SpentForAReason, SentIsLive DEF Moves
    <3>4. CASE ~(held[c] = m /\ Spent(c)')
      BY <2>1, <2>4, <3>2, <3>4 DEF Live, Pending, Spent, Moves, Shape, TypeOK
    <3> QED
      BY <3>3, <3>4
  <2>5. ASSUME NEW c \in Consumers, Ends(c) PROVE Pending(p)'
    <3>1. pc[c] # "idle"
      BY <2>5 DEF Ends, Ack
    <3>2. /\ pc' = [pc EXCEPT ![c] = "idle"] /\ held' = [held EXCEPT ![c] = NoMessage]
      BY <2>5 DEF Ends, Ack, Redeliver, Release
    <3>3. CASE held[c] # m
      <4>1. msgs'[m] = msgs[m]
        BY <2>5, <3>3 DEF Ends, Ack, Redeliver, Shape, TypeOK
      <4> QED
        BY <2>1, <3>2, <3>3, <4>1, NoneAssumption DEF Live, Pending, Spent, Shape, TypeOK
    <3>4. CASE held[c] = m
      <4>1. Job(c) = p /\ Redeliver(c)
        BY <2>1, <2>5, <3>4 DEF Live, Job, Ends, Ack, Spent
      <4>2. ~DeadLetter(msgs[m])
        <5>1. SUFFICES ASSUME DeadLetter(msgs[m]) PROVE FALSE
          OBVIOUS
        <5>2. ended'[p] # {}
          BY <3>4, <4>1, <5>1 DEF Redeliver, Shape, TypeOK
        <5> QED
          BY <5>2 DEF Settled
      <4>3. msgs'[m].at # "free" /\ msgs'[m].job = p
        BY <2>1, <3>4, <4>1, <4>2 DEF Live, Redeliver, Redelivered, Fresh, Shape, TypeOK
      <4>4. \A d \in Consumers : held'[d] # m
        BY <3>2, <3>4, NoneAssumption DEF Shape, TypeOK, HoldersOK
      <4> QED
        BY <4>3, <4>4 DEF Pending
    <3> QED
      BY <3>3, <3>4
  <2>6. ASSUME UNCHANGED vars PROVE Pending(p)'
    BY <2>1, <2>6 DEF Live, Pending, Spent, vars
  <2>7. ASSUME NEW c \in Consumers, Handle(c) \/ Crash(c) PROVE Pending(p)'
    BY <2>4, <2>5, <2>7, HandlerSteps DEF Crash, Ends
  <2> QED
    BY <2>2, <2>3, <2>6, <2>7 DEF Next, Deliver
<1> QED
  BY <1>1, <1>2

(***************************************************************************)
(* A paid job is never silently lost, for any number of payments, scans,   *)
(* invocations and messages and any retry limits.                          *)
(***************************************************************************)
THEOREM NoLoss == Safety => []NoSilentLoss
<1>1. Init => NoSilentLoss
  BY DEF Init, NoSilentLoss
<1>2. Shape /\ NoSilentLoss /\ [Next]_vars => NoSilentLoss'
  BY NextNoSilentLoss
<1> QED
  BY <1>1, <1>2, ShapeInvariant, PTL DEF Safety

-----------------------------------------------------------------------------
(***************************************************************************)
(* The order of email, report, replay and mark.                            *)
(***************************************************************************)
LEMMA Monotone ==
  ASSUME Shape, [Next]_vars
  PROVE  /\ mailed \subseteq mailed'
         /\ mark \subseteq mark'
         /\ \A s \in Scans : scan[s] = "complete" => scan'[s] = "complete"
         /\ \A p \in Payments : replays[p] > 0 => replays'[p] > 0
<1>1. mailed \subseteq mailed' /\ mark \subseteq mark'
  BY DEF Next, Deliver, Handle, vars, Enqueue, Receive, CheckReport, CrawlComplete,
     CrawlPartial, Requeue, Render, RenderThrows, SendEmail, EmailTimesOut, Throw,
     RecordFailure, InsertReport, DlqNotify, DlqCheckMark, DlqSend, DlqPutMark, DlqThrow,
     Ack, Retry, Crash, Redeliver
<1>2. \A s \in Scans : scan[s] = "complete" => scan'[s] = "complete"
  <2>1. ASSUME NEW c \in Consumers, Render(c) \/ RenderThrows(c) \/ RecordFailure(c)
        PROVE  \A s \in Scans : scan[s] = "complete" => scan'[s] = "complete"
    BY <2>1 DEF Render, RenderThrows, RecordFailure, MarkFailed, Shape, TypeOK
  <2>2. \/ \E c \in Consumers : Render(c) \/ RenderThrows(c) \/ RecordFailure(c)
        \/ UNCHANGED scan
    BY DEF Next, Deliver, Handle, vars, Enqueue, Receive, CheckReport, CrawlComplete,
       CrawlPartial, Requeue, SendEmail, EmailTimesOut, Throw, InsertReport, DlqNotify,
       DlqCheckMark, DlqSend, DlqPutMark, DlqThrow, Ack, Retry, Crash, Redeliver
  <2> QED
    BY <2>1, <2>2
<1>3. \A p \in Payments : replays[p] > 0 => replays'[p] > 0
  <2>1. ASSUME NEW c \in Consumers, DlqSend(c)
        PROVE  \A p \in Payments : replays[p] > 0 => replays'[p] > 0
    BY <2>1 DEF DlqSend, Shape, TypeOK
  <2>2. (\E c \in Consumers : DlqSend(c)) \/ UNCHANGED replays
    BY DEF Next, Deliver, Handle, vars, Enqueue, Receive, CheckReport, CrawlComplete,
       CrawlPartial, Requeue, Render, RenderThrows, SendEmail, EmailTimesOut, Throw,
       RecordFailure, InsertReport, DlqNotify, DlqCheckMark, DlqPutMark, DlqThrow, Ack,
       Retry, Crash, Redeliver
  <2> QED
    BY <2>1, <2>2
<1> QED
  BY <1>1, <1>2, <1>3

\* How an invocation comes to the points OrderOK is about.
LEMMA Arrivals ==
  ASSUME Shape, [Next]_vars, NEW c \in Consumers, pc'[c] # pc[c]
  PROVE  /\ pc'[c] = "email" => Render(c)
         /\ pc'[c] = "insert" => SendEmail(c)
         /\ pc'[c] = "dlq_put" => DlqSend(c)
<1>1. (\E m \in Messages : Receive(c, m)) \/ Handle(c) \/ Crash(c)
  <2>1. ASSUME NEW d \in Consumers, d # c, Handle(d) \/ Crash(d) PROVE pc'[c] = pc[c]
    BY <2>1, HandlerSteps DEF Moves, Ends, Ack, Redeliver, Release, Shape, TypeOK
  <2> QED
    BY <2>1 DEF Next, Deliver, Receive, Goto, Enqueue, vars, Shape, TypeOK
<1>2. CASE \E m \in Messages : Receive(c, m)
  BY <1>2 DEF Receive, Goto, Shape, TypeOK
<1>3. CASE Crash(c)
  BY <1>3 DEF Crash, Redeliver, Release, Shape, TypeOK
<1>4. CASE Handle(c)
  BY <1>4 DEF Handle, CheckReport, CrawlComplete, CrawlPartial, Requeue, RenderThrows,
     Render, EmailTimesOut, SendEmail, Throw, RecordFailure, InsertReport, DlqNotify,
     DlqCheckMark, DlqSend, DlqPutMark, DlqThrow, Ack, Retry, Redeliver, Release, Goto,
     Shape, TypeOK
<1> QED
  BY <1>1, <1>2, <1>3, <1>4

\* An invocation works on one job until it is idle again.
LEMMA JobKept ==
  ASSUME Shape, [Next]_vars, NEW c \in Consumers, pc[c] # "idle", pc'[c] # "idle"
  PROVE  Job(c)' = Job(c) /\ Scan(c)' = Scan(c)
<1>0. held[c] \in Messages /\ msgs[held[c]].at # "free"
  BY Working
<1>1. ASSUME NEW p \in Payments, Enqueue(p) PROVE held'[c] = held[c] /\ msgs'[held[c]] = msgs[held[c]]
  BY <1>0, <1>1, SendsKeep DEF Enqueue, Sends
<1>2. ASSUME NEW d \in Consumers, Handle(d) \/ Crash(d)
      PROVE  held'[c] = held[c] /\ msgs'[held[c]] = msgs[held[c]]
  <2>1. CASE Moves(d) /\ (UNCHANGED msgs \/ Sends(Job(d)))
    BY <1>0, <2>1, Working, SendsKeep DEF Moves
  <2>2. CASE Ends(d)
    <3>1. d # c
      BY <2>2 DEF Ends, Ack, Redeliver, Release, Shape, TypeOK
    <3>2. pc[d] # "idle"
      BY <2>2 DEF Ends, Ack
    <3>3. held[d] # held[c]
      BY <3>1, <3>2, Working DEF Shape, HoldersOK
    <3> QED
      BY <1>0, <2>2, <3>1, <3>3 DEF Ends, Ack, Redeliver, Release, Shape, TypeOK
  <2> QED
    BY <1>2, <2>1, <2>2, HandlerSteps
<1>3. ASSUME NEW d \in Consumers, NEW m \in Messages, Receive(d, m)
      PROVE  held'[c] = held[c] /\ msgs'[held[c]] = msgs[held[c]]
  BY <1>3 DEF Receive, Goto, Shape, TypeOK
<1>4. held'[c] = held[c] /\ msgs'[held[c]] = msgs[held[c]]
  BY <1>1, <1>2, <1>3 DEF Next, Deliver, vars
<1> QED
  BY <1>4 DEF Job, Scan

LEMMA NextOrderOK == Shape /\ OrderOK /\ [Next]_vars => OrderOK'
<1> SUFFICES ASSUME Shape, OrderOK, [Next]_vars PROVE OrderOK'
  OBVIOUS
<1>1. ASSUME NEW c \in Consumers, pc'[c] \in {"email", "insert", "dlq_put"}
      PROVE  /\ pc'[c] = "insert" => Job(c)' \in mailed' \cup Preview
             /\ pc'[c] \in {"email", "insert"} => scan'[Scan(c)'] = "complete"
             /\ pc'[c] = "dlq_put" => replays'[Job(c)'] > 0
  <2>1. pc[c] # "idle"
    BY <1>1, Arrivals DEF Render, SendEmail, DlqSend
  <2>2. Job(c)' = Job(c) /\ Scan(c)' = Scan(c) /\ Job(c) \in Payments /\ Scan(c) \in Scans
    BY <1>1, <2>1, JobKept, Working
  <2>3. CASE pc'[c] = pc[c]
    BY <2>2, <2>3, Monotone DEF OrderOK
  <2>4. CASE pc'[c] # pc[c]
    <3>1. pc'[c] = "email" => scan'[Scan(c)] = "complete"
      BY <2>2, <2>4, Arrivals DEF Render, Shape, TypeOK
    <3>2. pc'[c] = "insert" => Job(c) \in mailed' \cup Preview /\ scan'[Scan(c)] = "complete"
      BY <2>2, <2>4, Arrivals DEF SendEmail, OrderOK
    <3>3. pc'[c] = "dlq_put" => replays'[Job(c)] > 0
      BY <2>2, <2>4, Arrivals DEF DlqSend, Shape, TypeOK
    <3> QED
      BY <2>2, <3>1, <3>2, <3>3
  <2> QED
    BY <2>3, <2>4
<1>2. ASSUME NEW p \in mark' PROVE replays'[p] > 0
  <2>1. CASE p \in mark
    BY <2>1, Monotone DEF OrderOK, Shape, TypeOK
  <2>2. CASE p \notin mark
    <3>1. PICK c \in Consumers : DlqPutMark(c) /\ p = Job(c)
      BY <1>2, <2>2 DEF Next, Deliver, Handle, vars, Enqueue, Receive, CheckReport,
         CrawlComplete, CrawlPartial, Requeue, Render, RenderThrows, SendEmail,
         EmailTimesOut, Throw, RecordFailure, InsertReport, DlqNotify, DlqCheckMark,
         DlqSend, DlqPutMark, DlqThrow, Ack, Retry, Crash, Redeliver
    <3> QED
      BY <3>1 DEF DlqPutMark, OrderOK
  <2> QED
    BY <2>1, <2>2
<1> QED
  BY <1>1, <1>2 DEF OrderOK

LEMMA OrderInvariant == Safety => [](Shape /\ OrderOK)
<1>1. Init => OrderOK
  BY DEF Init, OrderOK
<1>2. Shape /\ OrderOK /\ [Next]_vars => OrderOK'
  BY NextOrderOK
<1> QED
  BY <1>1, <1>2, ShapeInvariant, PTL DEF Safety

-----------------------------------------------------------------------------
(***************************************************************************)
(* A job is given up only after its replay.                                *)
(***************************************************************************)
LEMMA NextGiveUp ==
  Shape /\ OrderOK /\ GiveUpOnlyAfterReplay /\ [Next]_vars => GiveUpOnlyAfterReplay'
<1> SUFFICES ASSUME Shape, OrderOK, GiveUpOnlyAfterReplay, [Next]_vars, NEW p \in Payments,
                    ended'[p] \cap {"terminal", "suppressed"} # {}
             PROVE  replays'[p] > 0
  BY DEF GiveUpOnlyAfterReplay
<1>1. CASE ended[p] \cap {"terminal", "suppressed"} # {}
  BY <1>1, Monotone DEF GiveUpOnlyAfterReplay
<1>2. CASE ended[p] \cap {"terminal", "suppressed"} = {}
  <2>1. ASSUME NEW c \in Consumers, RecordFailure(c) \/ DlqCheckMark(c), UNCHANGED ended
        PROVE  FALSE
    BY <1>2, <2>1
  <2>2. ASSUME NEW c \in Consumers, Redeliver(c) PROVE FALSE
    BY <1>2, <2>2 DEF Redeliver, Shape, TypeOK
  <2>3. PICK c \in Consumers : (RecordFailure(c) \/ DlqCheckMark(c)) /\ ended' # ended
    BY <1>2, <2>2 DEF Next, Deliver, Handle, vars, Enqueue, Receive, CheckReport,
       CrawlComplete, CrawlPartial, Requeue, Render, RenderThrows, SendEmail, EmailTimesOut,
       Throw, InsertReport, DlqNotify, DlqSend, DlqPutMark, DlqThrow, Ack, Retry, Crash
  <2>4. Job(c) \in mark /\ Job(c) = p
    BY <1>2, <2>3 DEF RecordFailure, LastReplayAttempt, DlqCheckMark, Shape, TypeOK
  <2> QED
    BY <2>4, Monotone DEF OrderOK
<1> QED
  BY <1>1, <1>2

(***************************************************************************)
(* The handler gives a job up only after the replay the dead-letter        *)
(* handler owes it, for any limits and any number of invocations.          *)
(***************************************************************************)
THEOREM GiveUp == Safety => []GiveUpOnlyAfterReplay
<1>1. Init => GiveUpOnlyAfterReplay
  BY DEF Init, GiveUpOnlyAfterReplay
<1>2. Shape /\ OrderOK /\ GiveUpOnlyAfterReplay /\ [Next]_vars => GiveUpOnlyAfterReplay'
  BY NextGiveUp
<1> QED
  BY <1>1, <1>2, OrderInvariant, PTL DEF Safety

-----------------------------------------------------------------------------
(***************************************************************************)
(* A report row stands for an email and a completed scan.                  *)
(***************************************************************************)
\* A report that is new was inserted by an invocation at "insert".
LEMMA NewReport ==
  ASSUME Shape, [Next]_vars, NEW p \in Payments, reports'[p] > 0, ~(reports[p] > 0)
  PROVE  \E c \in Consumers : pc[c] = "insert" /\ Job(c) = p
<1>1. PICK c \in Consumers : InsertReport(c)
  BY DEF Next, Deliver, Handle, vars, Enqueue, Receive, CheckReport, CrawlComplete,
     CrawlPartial, Requeue, Render, RenderThrows, SendEmail, EmailTimesOut, Throw,
     RecordFailure, DlqNotify, DlqCheckMark, DlqSend, DlqPutMark, DlqThrow, Ack, Retry,
     Crash, Redeliver
<1> QED
  BY <1>1 DEF InsertReport, Shape, TypeOK

(***************************************************************************)
(* A report row stamped as delivered has its email, and no preview is ever *)
(* mailed, however deliveries are retried, replayed and interleaved.       *)
(***************************************************************************)
THEOREM Mailed == Safety => []DeliveredMeansMailed
<1>1. Init => DeliveredMeansMailed
  BY DEF Init, DeliveredMeansMailed
<1>2. Shape /\ OrderOK /\ DeliveredMeansMailed /\ [Next]_vars => DeliveredMeansMailed'
  <2> SUFFICES ASSUME Shape, OrderOK, DeliveredMeansMailed, [Next]_vars
               PROVE  DeliveredMeansMailed'
    OBVIOUS
  <2>1. ASSUME NEW p \in Payments \ Preview, reports'[p] > 0 PROVE p \in mailed'
    BY <2>1, NewReport, Monotone DEF DeliveredMeansMailed, OrderOK
  <2>2. mailed' \cap Preview = {}
    BY DEF DeliveredMeansMailed, Next, Deliver, Handle, vars, Enqueue, Receive, CheckReport,
       CrawlComplete, CrawlPartial, Requeue, Render, RenderThrows, SendEmail, EmailTimesOut,
       Throw, RecordFailure, InsertReport, DlqNotify, DlqCheckMark, DlqSend, DlqPutMark,
       DlqThrow, Ack, Retry, Crash, Redeliver
  <2> QED
    BY <2>1, <2>2 DEF DeliveredMeansMailed
<1> QED
  BY <1>1, <1>2, OrderInvariant, PTL DEF Safety

(***************************************************************************)
(* A delivered scan is never shown as failed, whichever copies of its job  *)
(* fail.                                                                   *)
(***************************************************************************)
THEOREM Complete == Safety => []DeliveredIsComplete
<1>1. Init => DeliveredIsComplete
  BY DEF Init, DeliveredIsComplete
<1>2. Shape /\ OrderOK /\ DeliveredIsComplete /\ [Next]_vars => DeliveredIsComplete'
  <2> SUFFICES ASSUME Shape, OrderOK, DeliveredIsComplete, [Next]_vars,
                      NEW p \in Payments, reports'[p] > 0
               PROVE  scan'[ScanOf[p]] = "complete"
    BY DEF DeliveredIsComplete
  <2>1. scan[ScanOf[p]] = "complete"
    BY NewReport DEF DeliveredIsComplete, OrderOK, Scan
  <2> QED
    BY <2>1, Monotone, ScansAssumption
<1> QED
  BY <1>1, <1>2, OrderInvariant, PTL DEF Safety

-----------------------------------------------------------------------------
(***************************************************************************)
(* One report for a scan.  The check at the top of processReportJob is far *)
(* from the insert; where no two invocations are between them for the same *)
(* scan, one that is past the check finds no report until it has inserted  *)
(* its own.                                                                *)
(***************************************************************************)
PastCheck == {"crawl", "render", "email", "insert"}
Unreported == \A c \in Consumers : pc[c] \in PastCheck => ~Reported(Scan(c))

\* No two invocations are past the check for one scan: the hypothesis the
\* code itself does not provide.
ScansApart ==
  \A c, d \in Consumers :
    pc[c] \in PastCheck /\ pc[d] \in PastCheck /\ Scan(c) = Scan(d) => c = d

\* Only an insert changes the report rows, and it is over then.
LEMMA Inserting ==
  ASSUME Shape, [Next]_vars, UNCHANGED reports => FALSE
  PROVE  \E c \in Consumers : InsertReport(c) /\ pc'[c] = "ack" /\ Job(c) \in Payments
<1>1. PICK c \in Consumers : InsertReport(c)
  BY DEF Next, Deliver, Handle, vars, Enqueue, Receive, CheckReport, CrawlComplete,
     CrawlPartial, Requeue, Render, RenderThrows, SendEmail, EmailTimesOut, Throw,
     RecordFailure, DlqNotify, DlqCheckMark, DlqSend, DlqPutMark, DlqThrow, Ack, Retry,
     Crash, Redeliver
<1>2. pc'[c] = "ack" /\ pc[c] # "idle"
  BY <1>1 DEF InsertReport, Goto, Shape, TypeOK
<1> QED
  BY <1>1, <1>2, Working

\* How an invocation comes past the check.
LEMMA Checked ==
  ASSUME Shape, [Next]_vars, NEW c \in Consumers, pc'[c] \in PastCheck
  PROVE  pc[c] \in PastCheck \/ CheckReport(c)
<1>1. CASE pc'[c] = pc[c]
  BY <1>1
<1>2. CASE pc'[c] # pc[c]
  <2>1. (\E m \in Messages : Receive(c, m)) \/ Handle(c) \/ Crash(c)
    <3>1. ASSUME NEW d \in Consumers, d # c, Handle(d) \/ Crash(d) PROVE pc'[c] = pc[c]
      BY <3>1, HandlerSteps DEF Moves, Ends, Ack, Redeliver, Release, Shape, TypeOK
    <3> QED
      BY <1>2, <3>1 DEF Next, Deliver, Receive, Goto, Enqueue, vars, Shape, TypeOK
  <2>2. ASSUME NEW m \in Messages, Receive(c, m) PROVE FALSE
    BY <2>2 DEF Receive, Goto, Shape, TypeOK, PastCheck
  <2>3. CASE Crash(c)
    BY <2>3 DEF Crash, Redeliver, Release, Shape, TypeOK, PastCheck
  <2>4. CASE Handle(c)
    BY <2>4 DEF Handle, CheckReport, CrawlComplete, CrawlPartial, Requeue, RenderThrows,
       Render, EmailTimesOut, SendEmail, Throw, RecordFailure, InsertReport, DlqNotify,
       DlqCheckMark, DlqSend, DlqPutMark, DlqThrow, Ack, Retry, Redeliver, Release, Goto,
       Shape, TypeOK, PastCheck
  <2> QED
    BY <2>1, <2>2, <2>3, <2>4
<1> QED
  BY <1>1, <1>2

LEMMA NextUnreported ==
  ASSUME ScansApart, Shape, Unreported, [Next]_vars
  PROVE  Unreported'
<1> SUFFICES ASSUME NEW c \in Consumers, pc'[c] \in PastCheck
             PROVE  ~Reported(Scan(c))'
  BY DEF Unreported
<1>1. pc[c] # "idle" /\ pc'[c] # "idle"
  BY Checked DEF PastCheck, CheckReport
<1>2. Scan(c)' = Scan(c)
  BY <1>1, JobKept
<1>3. ~Reported(Scan(c))
  <2>1. CASE pc[c] \in PastCheck
    BY <2>1 DEF Unreported
  <2>2. CASE CheckReport(c)
    BY <2>2 DEF CheckReport, Goto, Shape, TypeOK, PastCheck
  <2> QED
    BY <2>1, <2>2, Checked
<1>4. CASE UNCHANGED reports
  BY <1>2, <1>3, <1>4 DEF Reported
<1>5. CASE ~UNCHANGED reports
  <2>1. PICK d \in Consumers : InsertReport(d) /\ pc'[d] = "ack" /\ Job(d) \in Payments
    BY <1>5, Inserting
  <2>2. c # d /\ pc[c] \in PastCheck /\ pc[d] \in PastCheck
    BY <2>1 DEF InsertReport, Goto, Shape, TypeOK, PastCheck
  <2>3. ScanOf[Job(d)] # Scan(c)
    BY <2>2 DEF ScansApart, Scan
  <2>4. \A p \in Payments : ScanOf[p] = Scan(c) => reports'[p] = reports[p]
    BY <2>1, <2>3 DEF InsertReport, Shape, TypeOK
  <2>5. PICK s : s = Scan(c)
    OBVIOUS
  <2>6. ~Reported(s)'
    BY <1>3, <2>4, <2>5 DEF Reported
  <2> QED
    BY <1>2, <2>5, <2>6
<1> QED
  BY <1>4, <1>5

LEMMA NextOneReport ==
  ASSUME Shape, Unreported, OneReportPerScan, [Next]_vars
  PROVE  OneReportPerScan'
<1>1. CASE UNCHANGED reports
  BY <1>1 DEF OneReportPerScan
<1>2. CASE ~UNCHANGED reports
  <2>1. PICK c \in Consumers : InsertReport(c) /\ Job(c) \in Payments
    BY <1>2, Inserting
  <2>2. ~Reported(ScanOf[Job(c)])
    BY <2>1 DEF Unreported, InsertReport, PastCheck, Scan
  <2>3. /\ reports' = [reports EXCEPT ![Job(c)] = reports[Job(c)] + 1]
        /\ reports \in [Payments -> Nat]
    BY <2>1 DEF InsertReport, Shape, TypeOK
  <2>4. \A p \in Payments : ScanOf[p] = ScanOf[Job(c)] => reports[p] = 0
    BY <2>2, <2>3 DEF Reported
  <2>5. /\ reports'[Job(c)] = 1
        /\ \A p \in Payments : p # Job(c) => reports'[p] = reports[p]
    BY <2>1, <2>3, <2>4
  <2> SUFFICES ASSUME NEW p \in Payments, NEW q \in Payments,
                      ScanOf[p] = ScanOf[q], reports'[p] > 0
               PROVE  reports'[p] = 1 /\ (q = p \/ reports'[q] = 0)
    BY DEF OneReportPerScan
  <2>6. CASE p = Job(c)
    BY <2>4, <2>5, <2>6
  <2>7. CASE p # Job(c)
    <3>1. reports[p] > 0 /\ ScanOf[p] # ScanOf[Job(c)]
      BY <2>3, <2>4, <2>5, <2>7
    <3> QED
      BY <2>5, <2>7, <3>1 DEF OneReportPerScan
  <2> QED
    BY <2>6, <2>7
<1> QED
  BY <1>1, <1>2

(***************************************************************************)
(* Where no two invocations run for one scan at a time, a scan gets one    *)
(* report, for any payments, messages, invocations and limits: the         *)
(* existing-report check of processReportJob is enough against redelivery, *)
(* continuation, replay and a second send.                                 *)
(***************************************************************************)
THEOREM OneReport == Safety /\ []ScansApart => []OneReportPerScan
<1>1. Init => Unreported /\ OneReportPerScan
  BY DEF Init, Unreported, OneReportPerScan, PastCheck
<1>2. /\ ScansApart /\ Shape /\ Unreported /\ OneReportPerScan /\ [Next]_vars
      => Unreported' /\ OneReportPerScan'
  BY NextUnreported, NextOneReport
<1> QED
  BY <1>1, <1>2, ShapeInvariant, PTL DEF Safety

-----------------------------------------------------------------------------
(***************************************************************************)
(* With no such hypothesis: a payment's reports, and the invocations that  *)
(* may still insert one, are no more than there are invocations.  As soon  *)
(* as a report is there nobody comes past the check, and an invocation     *)
(* that inserts is one less that may.                                      *)
(***************************************************************************)
InFlight(p) == {c \in Consumers : pc[c] \in PastCheck /\ Job(c) = p}
FlightBound(p) == reports[p] + Cardinality(InFlight(p)) <= Cardinality(Consumers)

LEMMA FewAreInFlight ==
  ASSUME NEW p
  PROVE  /\ IsFiniteSet(InFlight(p)) /\ Cardinality(InFlight(p)) \in Nat
         /\ Cardinality(InFlight(p)) <= Cardinality(Consumers) /\ Cardinality(Consumers) \in Nat
<1>1. InFlight(p) \subseteq Consumers
  BY DEF InFlight
<1> QED
  BY <1>1, ConsumersAssumption, FS_Subset, FS_CardinalityType

\* Who may insert after a step could before it, or has just come past the check.
LEMMA FlightKept ==
  ASSUME Shape, [Next]_vars, NEW p \in Payments, NEW c \in InFlight(p)'
  PROVE  c \in InFlight(p) \/ (CheckReport(c) /\ Job(c) = p /\ ~Reported(ScanOf[p]) /\ UNCHANGED reports)
<1>1. c \in Consumers /\ pc'[c] \in PastCheck /\ Job(c)' = p
  BY DEF InFlight
<1>2. pc[c] \in PastCheck \/ CheckReport(c)
  BY <1>1, Checked
<1>3. pc[c] # "idle" /\ pc'[c] # "idle"
  BY <1>1, <1>2 DEF PastCheck, CheckReport
<1>4. Job(c) = p
  BY <1>1, <1>3, JobKept
<1>5. CASE pc[c] \in PastCheck
  BY <1>1, <1>4, <1>5 DEF InFlight
<1>6. CASE CheckReport(c)
  <2>1. ~Reported(Scan(c)) /\ UNCHANGED reports
    BY <1>1, <1>6 DEF CheckReport, Goto, Shape, TypeOK, PastCheck
  <2> QED
    BY <1>4, <1>6, <2>1 DEF Scan
<1> QED
  BY <1>2, <1>5, <1>6

LEMMA FlightStep ==
  ASSUME Shape, NEW p \in Payments, FlightBound(p), [Next]_vars
  PROVE  FlightBound(p)'
<1>0. reports \in [Payments -> Nat]
  BY DEF Shape, TypeOK
<1>1. PICK before : before = InFlight(p)
  OBVIOUS
<1>2. PICK after : after = InFlight(p)'
  OBVIOUS
<1>3. /\ IsFiniteSet(before) /\ Cardinality(before) \in Nat /\ after \subseteq Consumers
      /\ reports[p] + Cardinality(before) <= Cardinality(Consumers)
  BY <1>1, <1>2, FewAreInFlight DEF FlightBound, InFlight
<1>4. /\ Cardinality(after) \in Nat /\ Cardinality(after) <= Cardinality(Consumers)
      /\ Cardinality(Consumers) \in Nat
  BY <1>3, ConsumersAssumption, FS_Subset, FS_CardinalityType
<1>5. FlightBound(p)' <=> reports'[p] + Cardinality(after) <= Cardinality(Consumers)
  BY <1>2 DEF FlightBound
<1>6. CASE UNCHANGED reports
  <2>1. CASE reports[p] = 0
    BY <1>4, <1>5, <1>6, <2>1
  <2>2. CASE reports[p] > 0
    <3>1. Reported(ScanOf[p])
      BY <2>2 DEF Reported
    <3>2. after \subseteq before
      BY <1>1, <1>2, <3>1, FlightKept
    <3>3. Cardinality(after) <= Cardinality(before)
      BY <1>3, <3>2, FS_Subset
    <3> QED
      BY <1>0, <1>3, <1>4, <1>5, <1>6, <3>3
  <2> QED
    BY <1>0, <2>1, <2>2
<1>7. CASE ~UNCHANGED reports
  <2>1. PICK c \in Consumers : InsertReport(c) /\ pc'[c] = "ack" /\ Job(c) \in Payments
    BY <1>7, Inserting
  <2>2. after \subseteq before
    BY <1>1, <1>2, <1>7, FlightKept
  <2>3. CASE Job(c) # p
    <3>1. reports'[p] = reports[p]
      BY <1>0, <2>1, <2>3 DEF InsertReport
    <3>2. Cardinality(after) <= Cardinality(before)
      BY <1>3, <2>2, FS_Subset
    <3> QED
      BY <1>0, <1>3, <1>4, <1>5, <3>1, <3>2
  <2>4. CASE Job(c) = p
    <3>1. reports'[p] = reports[p] + 1
      BY <1>0, <2>1, <2>4 DEF InsertReport
    <3>2. c \in before
      BY <1>1, <2>1, <2>4 DEF InsertReport, InFlight, PastCheck
    <3>3. c \notin after
      BY <1>2, <2>1 DEF InFlight, PastCheck
    <3>4. after \subseteq before \ {c}
      BY <2>2, <3>3
    <3>5. Cardinality(before \ {c}) = Cardinality(before) - 1 /\ IsFiniteSet(before \ {c})
      BY <1>3, <3>2, FS_RemoveElement
    <3>6. Cardinality(after) <= Cardinality(before) - 1
      BY <3>4, <3>5, FS_Subset
    <3> QED
      BY <1>0, <1>3, <1>4, <1>5, <3>1, <3>6
  <2> QED
    BY <2>3, <2>4
<1> QED
  BY <1>6, <1>7

(***************************************************************************)
(* A payment never has more reports than there are invocations at one      *)
(* time: only copies of its job that were past the check together insert   *)
(* twice, and none that comes later, for any payments, messages and limits.*)
(***************************************************************************)
THEOREM OnlyCopiesInFlightDuplicate == Safety => []DuplicatesWereInFlight
<1> DEFINE Bounded == \A p \in Payments : FlightBound(p)
<1>1. Init => Bounded
  <2> SUFFICES ASSUME Init, NEW p \in Payments PROVE FlightBound(p)
    OBVIOUS
  <2>1. reports[p] = 0
    BY DEF Init
  <2> QED
    BY <2>1, FewAreInFlight DEF FlightBound
<1>2. Shape /\ Bounded /\ [Next]_vars => Bounded'
  BY FlightStep
<1>3. Shape /\ Bounded => DuplicatesWereInFlight
  <2> SUFFICES ASSUME Shape, NEW p \in Payments, FlightBound(p)
               PROVE  reports[p] <= Cardinality(Consumers)
    BY DEF DuplicatesWereInFlight
  <2>1. reports[p] \in Nat
    BY DEF Shape, TypeOK
  <2> QED
    BY <2>1, FewAreInFlight DEF FlightBound
<1> QED
  BY <1>1, <1>2, <1>3, ShapeInvariant, PTL DEF Safety

-----------------------------------------------------------------------------
\* Every state is well-typed.
THEOREM TypeCorrect == Safety => []TypeOK
<1>1. Shape => TypeOK
  BY DEF Shape
<1> QED
  BY <1>1, ShapeInvariant, PTL

(***************************************************************************)
(* The whole inductive invariant holds, under the specification with its   *)
(* fairness too.                                                           *)
(***************************************************************************)
THEOREM Inductive == Spec => []IInv
<1>1. Spec => Safety
  BY DEF Spec
<1>2. Shape /\ OrderOK /\ NoSilentLoss /\ GiveUpOnlyAfterReplay /\ DeliveredMeansMailed
        /\ DeliveredIsComplete => IInv
  BY DEF IInv, Shape
<1> QED
  BY <1>1, <1>2, OrderInvariant, NoLoss, GiveUp, Mailed, Complete, PTL
=============================================================================
