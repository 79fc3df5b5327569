------------------------ MODULE LifecycleEmail_proofs ------------------------
(***************************************************************************)
(* Proofs about the outbox of lifecycle emails, for any emails, any number *)
(* of sweeps and event requests at one time, and any limits: every state   *)
(* is well-typed, a bounce that was answered has suppressed its recipient, *)
(* nothing is sent against a suppression that was there at the claim, an   *)
(* email is given up only after max_attempts claims, and two sweeps work   *)
(* on one row only when a lease lies between their beginnings.             *)
(***************************************************************************)
EXTENDS LifecycleEmail, WellFoundedInduction, TLAPS

\* A sweep at one of these labels works on the first row of its list.
AtWork == {"check", "send", "sent", "log", "failed"}
TickLabels == {"idle", "select", "next"} \cup AtWork
Statuses == {"none", "sending"} \cup Due \cup Settled

\* The type of the state as far as the proofs need it: nothing is said of ages
\* and waits.
RowOK(r) == r \in [status : Statuses, attempts : Nat, age : {r.age}, wait : {r.wait},
                   message : {r.message}]
TickOK(k) == k \in [at : TickLabels, age : {k.age}, todo : SUBSET [email : Emails, attempts : Nat],
                    attempt : Nat, warned : BOOLEAN, blind : BOOLEAN]
ReqOK(q) == q \in [at : {"idle", "update", "suppress", "respond"}, event : {q.event}]

RowsOK == row = [d \in Emails |-> row[d]] /\ \A d \in Emails : RowOK(row[d])
TicksOK == tick = [t \in Ticks |-> tick[t]] /\ \A t \in Ticks : TickOK(tick[t])
ReqsOK == req = [r \in Requests |-> req[r]] /\ \A r \in Requests : ReqOK(req[r])

Shape ==
  /\ RowsOK /\ TicksOK /\ ReqsOK
  /\ blocked \in BOOLEAN /\ claims \in [Emails -> 0..MaxAttempts]
  /\ \A t \in Ticks : tick[t].at \in AtWork => tick[t].todo # {}
  /\ unacked \subseteq Emails \X Kinds
  /\ \A r \in Requests : req[r].at # "idle" => req[r].event \in Emails \X Kinds

-----------------------------------------------------------------------------
\* The list of a sweep that is not at its end has a first row.
LEMMA FirstRow ==
  ASSUME Shape, NEW t \in Ticks, tick[t].todo # {}
  PROVE  Current(t) \in tick[t].todo /\ Email(t) \in Emails
<1>1. tick[t].todo \subseteq [email : Emails, attempts : Nat]
  BY DEF Shape, TicksOK, TickOK
<1> DEFINE T == {s.email : s \in tick[t].todo}
           R == OpToRel(<, Nat)
<1>2. T \subseteq Nat /\ T # {}
  BY <1>1, EmailsAssumption
<1>3. PICK x \in T : \A y \in T : <<y, x>> \notin R
  BY <1>2, WFMin, NatLessThanWellFounded
<1>4. \A y \in T : ~(y < x)
  BY <1>2, <1>3 DEF OpToRel
<1>5. PICK s \in tick[t].todo : s.email = x
  BY <1>3
<1>6. \A o \in tick[t].todo : s.email <= o.email
  BY <1>1, <1>2, <1>4, <1>5
<1>7. Current(t) \in tick[t].todo
  BY <1>5, <1>6 DEF Current
<1> QED
  BY <1>1, <1>7 DEF Email

\* The row that a sweep works on depends on its list alone.
LEMMA SameList ==
  ASSUME NEW t \in Ticks, tick'[t].todo = tick[t].todo
  PROVE  Current(t)' = Current(t) /\ Email(t)' = Email(t)
BY DEF Current, Email

-----------------------------------------------------------------------------
(***************************************************************************)
(* The type of each variable is kept.                                      *)
(***************************************************************************)
LEMMA ShapeInit == EmailInit => Shape
<1> SUFFICES ASSUME EmailInit PROVE Shape
  OBVIOUS
<1>1. RowsOK
  <2>1. RowOK(NoRow)
    BY DEF RowOK, NoRow, Statuses
  <2> QED
    BY <2>1 DEF EmailInit, RowsOK
<1>2. TicksOK /\ \A t \in Ticks : tick[t].at = "idle"
  <2>1. TickOK(NoTick) /\ NoTick.at = "idle"
    BY DEF TickOK, NoTick, TickLabels
  <2> QED
    BY <2>1 DEF EmailInit, TicksOK
<1>3. ReqsOK /\ \A r \in Requests : req[r].at = "idle"
  <2>1. ReqOK(NoReq) /\ NoReq.at = "idle"
    BY DEF ReqOK, NoReq
  <2> QED
    BY <2>1 DEF EmailInit, ReqsOK
<1>4. claims \in [Emails -> 0..MaxAttempts]
  BY TimesAssumption DEF EmailInit
<1>5. blocked \in BOOLEAN /\ unacked \subseteq Emails \X Kinds
  BY DEF EmailInit
<1> QED
  BY <1>1, <1>2, <1>3, <1>4, <1>5 DEF Shape, AtWork

\* A row put to another status.
LEMMA PutRow ==
  ASSUME RowsOK, NEW d \in Emails, NEW status \in Statuses, NEW r,
         r \in {As(row[d], status), [As(row[d], status) EXCEPT !.message = TRUE]}
         \/ \E wait : r = [As(row[d], status) EXCEPT !.wait = wait],
         row' = [row EXCEPT ![d] = r]
  PROVE  /\ RowsOK' /\ row'[d].status = status /\ row'[d].attempts = row[d].attempts
         /\ \A e \in Emails \ {d} : row'[e] = row[e]
<1>1. RowOK(row[d])
  BY DEF RowsOK
<1>2. RowOK(r) /\ r.status = status /\ r.attempts = row[d].attempts
  BY <1>1 DEF RowOK, As
<1> QED
  BY <1>2 DEF RowsOK

\* What a step of a sweep does to the rows: one is put to another status, or
\* claimed, or all that were claimed too long ago are taken back.
LEMMA RowSteps ==
  ASSUME Shape, NEW t \in Ticks, Start(t) \/ Sweep(t) \/ Crash(t), ~Claim(t)
  PROVE  /\ RowsOK' /\ \A d \in Emails : row'[d].attempts = row[d].attempts
         /\ \A d \in Emails : row'[d].status = "failed" /\ row[d].status # "failed" =>
              RecordFailure(t) /\ Terminal(tick[t].attempt) /\ Email(t) = d
<1>1. RowsOK /\ \A d \in Emails : RowOK(row[d])
  BY DEF Shape, RowsOK
<1>2. tick[t].at \in AtWork => Email(t) \in Emails
  BY FirstRow DEF Shape
<1>3. CASE UNCHANGED row
  BY <1>1, <1>3 DEF RowsOK, RowOK
<1>4. CASE Start(t) /\ ~UNCHANGED row
  <2>1. \A d \in Emails : row'[d] = IF LeaseExpired(d) THEN As(row[d], "retrying") ELSE row[d]
    BY <1>4 DEF Start
  <2>2. row' = [d \in Emails |-> row'[d]]
    BY <1>4, <2>1 DEF Start
  <2>3. ASSUME NEW d \in Emails
        PROVE  /\ RowOK(row'[d]) /\ row'[d].attempts = row[d].attempts
               /\ row'[d].status = "failed" => row[d].status = "failed"
    <3>1. CASE LeaseExpired(d)
      BY <1>1, <2>1, <3>1 DEF RowOK, As, Statuses, Due
    <3>2. CASE ~LeaseExpired(d)
      BY <1>1, <2>1, <3>2
    <3> QED
      BY <3>1, <3>2
  <2> QED
    BY <2>2, <2>3 DEF RowsOK
<1>5. CASE CheckEligibility(t) /\ ~UNCHANGED row
  <2>1. Put(Email(t), "suppressed") /\ Email(t) \in Emails
    BY <1>2, <1>5 DEF CheckEligibility, At, AtWork
  <2>2. "suppressed" \in Statuses /\ row' = [row EXCEPT ![Email(t)] = As(row[Email(t)], "suppressed")]
    BY <1>1, <2>1 DEF Put, Statuses, Settled, RowsOK
  <2> QED
    BY <1>1, <2>1, <2>2, PutRow
<1>6. CASE RecordSent(t) /\ ~UNCHANGED row
  <2>1. Email(t) \in Emails /\ "sent" \in Statuses
    BY <1>2, <1>6 DEF RecordSent, At, AtWork, Statuses, Settled
  <2>2. row' = [row EXCEPT ![Email(t)] = [As(row[Email(t)], "sent") EXCEPT !.message = TRUE]]
    BY <1>1, <1>6, <2>1 DEF RecordSent, RowsOK
  <2> QED
    BY <1>1, <2>1, <2>2, PutRow
<1>7. CASE RecordFailure(t) /\ ~UNCHANGED row
  <2>1. Email(t) \in Emails /\ {"failed", "retrying"} \subseteq Statuses
    BY <1>2, <1>7 DEF RecordFailure, At, AtWork, Statuses, Settled, Due
  <2>2. CASE Terminal(tick[t].attempt) /\ Put(Email(t), "failed")
    <3>1. row' = [row EXCEPT ![Email(t)] = As(row[Email(t)], "failed")]
      BY <1>1, <2>1, <2>2 DEF Put, RowsOK
    <3> QED
      BY <1>1, <1>7, <2>1, <2>2, <3>1, PutRow
  <2>3. CASE ~(Terminal(tick[t].attempt) /\ Put(Email(t), "failed"))
    <3>1. row' = [row EXCEPT ![Email(t)] =
                    [As(row[Email(t)], "retrying") EXCEPT !.wait = Backoff(tick[t].attempt)]]
      BY <1>1, <1>7, <2>1, <2>3 DEF RecordFailure, RowsOK
    <3> QED
      BY <1>1, <2>1, <3>1, PutRow
  <2> QED
    BY <2>2, <2>3
<1> QED
  BY <1>3, <1>4, <1>5, <1>6, <1>7 DEF Sweep, Select, ClaimLost, Finish, Send, SendFails, LogOutcome, Crash

\* What the other steps do to the rows.
LEMMA OtherRowSteps ==
  ASSUME Shape, \/ \E d \in Emails : Enqueue(d) \/ \E kind \in Kinds : Emit(d, kind)
                \/ Block \/ Unblock \/ Pass
                \/ \E r \in Requests : \/ \E e \in unacked : Unmatched(r, e) \/ Matched(r, e)
                                       \/ UpdateStatus(r) \/ Suppress(r) \/ Respond(r) \/ RequestFails(r)
                \/ UNCHANGED emailVars
  PROVE  /\ RowsOK' /\ \A d \in Emails : row'[d].attempts = row[d].attempts
         /\ \A d \in Emails : row'[d].status = "failed" => row[d].status = "failed"
<1>1. RowsOK /\ \A d \in Emails : RowOK(row[d])
  BY DEF Shape, RowsOK
<1>2. CASE UNCHANGED row
  BY <1>1, <1>2 DEF RowsOK, RowOK
<1>3. ASSUME NEW d \in Emails, NEW status \in Statuses \ {"failed"}, Put(d, status)
      PROVE  /\ RowsOK' /\ \A e \in Emails : row'[e].attempts = row[e].attempts
             /\ \A e \in Emails : row'[e].status = "failed" => row[e].status = "failed"
  <2>1. row' = [row EXCEPT ![d] = As(row[d], status)]
    BY <1>1, <1>3 DEF Put, RowsOK
  <2> QED
    BY <1>1, <1>3, <2>1, PutRow
<1>4. ASSUME NEW d \in Emails, Enqueue(d), ~UNCHANGED row
      PROVE  \E status \in Statuses \ {"failed"} : Put(d, status)
  BY <1>4 DEF Enqueue, Statuses, Settled, Due
<1>5. CASE Pass
  <2>1. /\ row' = [d \in Emails |-> row'[d]]
        /\ \A d \in Emails :
             row'[d] = CASE row[d].status = "sending" -> [row[d] EXCEPT !.age = AtMost(@ + 1, Lease)]
                         [] row[d].status \in Due -> [row[d] EXCEPT !.wait = AtLeast(@ - 1, -TickTime)]
                         [] OTHER -> row[d]
    BY <1>5 DEF Pass
  <2>2. ASSUME NEW d \in Emails
        PROVE  RowOK(row'[d]) /\ row'[d].attempts = row[d].attempts /\ row'[d].status = row[d].status
    <3> DEFINE age == AtMost(row[d].age + 1, Lease)
               wait == AtLeast(row[d].wait - 1, -TickTime)
    <3>1. \/ row'[d] = [row[d] EXCEPT !.age = age] \/ row'[d] = [row[d] EXCEPT !.wait = wait]
          \/ row'[d] = row[d]
      BY <1>1, <2>1 DEF RowOK, Due
    <3> HIDE DEF age, wait
    <3> QED
      BY <1>1, <3>1 DEF RowOK
  <2> QED
    BY <2>1, <2>2 DEF RowsOK
<1>6. ASSUME NEW r \in Requests, UpdateStatus(r), ~UNCHANGED row
      PROVE  /\ RowsOK' /\ \A e \in Emails : row'[e].attempts = row[e].attempts
             /\ \A e \in Emails : row'[e].status = "failed" => row[e].status = "failed"
  <2>1. Put(Subject(r), Kind(r)) /\ req[r].event \in Emails \X Kinds
    BY <1>6 DEF UpdateStatus, Shape
  <2>2. Subject(r) \in Emails /\ Kind(r) \in Statuses \ {"failed"}
    BY <2>1 DEF Subject, Kind, Kinds, Statuses, Settled
  <2> QED
    BY <1>3, <2>1, <2>2
<1> QED
  BY <1>2, <1>3, <1>4, <1>5, <1>6
  DEF Emit, Block, Unblock, Unmatched, Matched, Suppress, Respond, RequestFails, emailVars, sendVars

(***************************************************************************)
(* The entry that a step of a sweep puts in the place of its own: only a   *)
(* claim starts the work on a row, only a selection fills the list, only a *)
(* claim warns, and only the check of the recipient leads to a send.       *)
(***************************************************************************)
Moved(t, k) ==
  /\ TickOK(k)
  /\ k.at \in AtWork /\ ~Claim(t) =>
       tick[t].at \in AtWork /\ k.todo = tick[t].todo /\ k.attempt = tick[t].attempt
  /\ Claim(t) => /\ k.at = "check" /\ k.todo = tick[t].todo /\ k.todo # {}
                 /\ k.attempt = Current(t).attempts + 1 /\ (k.warned => blocked)
  /\ ~Claim(t) => (k.warned => tick[t].warned)
  /\ k.at = "send" => k.blind \/ ~blocked
  /\ IF Select(t) THEN \A s \in k.todo : s.email \in Emails /\ s.attempts = row[s.email].attempts
                  ELSE k.todo \subseteq tick[t].todo

LEMMA MovedTick ==
  ASSUME Shape, NEW t \in Ticks, NEW k, Moved(t, k), tick' = [tick EXCEPT ![t] = k]
  PROVE  /\ TicksOK' /\ Moved(t, tick'[t])
         /\ \A u \in Ticks \ {t} : tick'[u] = tick[u]
BY DEF Shape, TicksOK, Moved

LEMMA TickSteps ==
  ASSUME Shape, NEW t \in Ticks, Start(t) \/ Sweep(t) \/ Crash(t)
  PROVE  /\ TicksOK' /\ Moved(t, tick'[t])
         /\ \A u \in Ticks \ {t} : tick'[u] = tick[u]
<1>1. TickOK(tick[t]) /\ TicksOK /\ blocked \in BOOLEAN
  BY DEF Shape, TicksOK
<1> SUFFICES \E k : Moved(t, k) /\ tick' = [tick EXCEPT ![t] = k]
  BY MovedTick
<1>2. ASSUME NEW label \in TickLabels, Goto(t, label), ~Claim(t), ~Select(t),
             label # "send", label \in AtWork => tick[t].at \in AtWork
      PROVE  \E k : Moved(t, k) /\ tick' = [tick EXCEPT ![t] = k]
  <2> DEFINE k == [tick[t] EXCEPT !.at = label]
  <2>1. tick' = [tick EXCEPT ![t] = k]
    BY <1>1, <1>2 DEF Goto, TicksOK
  <2>2. /\ TickOK(k) /\ k.at = label /\ k.todo = tick[t].todo /\ k.attempt = tick[t].attempt
        /\ k.warned = tick[t].warned
    BY <1>1 DEF TickOK
  <2>3. Moved(t, k)
    BY <1>2, <2>2 DEF Moved
  <2> QED
    BY <2>1, <2>3
<1>3. CASE Start(t)
  <2>1. ~Claim(t) /\ ~Select(t)
    BY <1>3 DEF Start, Claim, Select, At
  <2> QED
    BY <1>2, <1>3, <2>1 DEF Start, TickLabels, AtWork
<1>4. CASE Select(t)
  <2>1. PICK taken \in SUBSET Emails :
          tick' = [tick EXCEPT ![t].at = "next",
                               ![t].todo = {[email |-> d, attempts |-> row[d].attempts] : d \in taken}]
    BY <1>4 DEF Select
  <2> DEFINE todo == {[email |-> d, attempts |-> row[d].attempts] : d \in taken}
             k == [tick[t] EXCEPT !.at = "next", !.todo = todo]
  <2>2. tick' = [tick EXCEPT ![t] = k]
    BY <1>1, <2>1 DEF TicksOK
  <2>3. /\ todo \in SUBSET [email : Emails, attempts : Nat]
        /\ \A s \in todo : s.email \in Emails /\ s.attempts = row[s.email].attempts
    BY DEF Shape, RowsOK, RowOK
  <2> HIDE DEF todo
  <2>4. TickOK(k) /\ k.at = "next" /\ k.todo = todo /\ k.warned = tick[t].warned
    BY <1>1, <2>3 DEF TickOK, TickLabels
  <2>5. ~Claim(t)
    BY <1>4 DEF Claim, Select, At
  <2>6. Moved(t, k)
    BY <1>4, <2>3, <2>4, <2>5 DEF Moved, AtWork
  <2> QED
    BY <2>2, <2>6
<1>5. CASE Claim(t)
  <2>1. /\ tick' = [tick EXCEPT ![t] = [@ EXCEPT !.at = "check", !.attempt = Current(t).attempts + 1,
                                                !.warned = blocked]]
        /\ tick[t].todo # {} /\ ~Select(t)
    BY <1>5 DEF Claim, Select, At
  <2> DEFINE k == [tick[t] EXCEPT !.at = "check", !.attempt = Current(t).attempts + 1,
                                  !.warned = blocked]
  <2>2. Current(t).attempts + 1 \in Nat
    BY <1>1, <2>1, FirstRow DEF TickOK
  <2>3. tick' = [tick EXCEPT ![t] = k]
    BY <1>1, <2>1 DEF TicksOK
  <2>4. /\ TickOK(k) /\ k.at = "check" /\ k.todo = tick[t].todo /\ k.attempt = Current(t).attempts + 1
        /\ k.warned = blocked
    BY <1>1, <2>2 DEF TickOK, TickLabels, AtWork
  <2>5. Moved(t, k)
    BY <1>5, <2>1, <2>4 DEF Moved
  <2> QED
    BY <2>3, <2>5
<1>6. ASSUME NextRow(t), ~Claim(t), ~Select(t)
      PROVE  \E k : Moved(t, k) /\ tick' = [tick EXCEPT ![t] = k]
  <2> DEFINE k == [NoTick EXCEPT !.at = "next", !.age = tick[t].age, !.todo = tick[t].todo \ {Current(t)}]
  <2>1. tick' = [tick EXCEPT ![t] = k]
    BY <1>1, <1>6 DEF NextRow, TicksOK
  <2>2. TickOK(k) /\ k.at = "next" /\ k.todo = tick[t].todo \ {Current(t)} /\ k.warned = FALSE
    BY <1>1 DEF TickOK, TickLabels, NoTick
  <2>3. Moved(t, k)
    BY <1>6, <2>2 DEF Moved, AtWork
  <2> QED
    BY <2>1, <2>3
<1>7. ASSUME tick' = [tick EXCEPT ![t] = NoTick], ~Claim(t), ~Select(t)
      PROVE  \E k : Moved(t, k) /\ tick' = [tick EXCEPT ![t] = k]
  <2>1. Moved(t, NoTick)
    BY <1>7 DEF Moved, NoTick, TickOK, TickLabels, AtWork
  <2> QED
    BY <1>7, <2>1
<1>8. CASE ClaimLost(t)
  <2>1. tick'[t] # [tick[t] EXCEPT !.at = "check", !.attempt = Current(t).attempts + 1,
                                   !.warned = blocked]
    BY <1>1, <1>8 DEF ClaimLost, NextRow, TicksOK, TickOK, NoTick
  <2>2. ~Claim(t) /\ ~Select(t)
    BY <1>1, <1>8, <2>1 DEF ClaimLost, Claim, Select, At, TicksOK
  <2> QED
    BY <1>6, <1>8, <2>2 DEF ClaimLost
<1>9. CASE Finish(t)
  <2>1. ~Claim(t) /\ ~Select(t)
    BY <1>9 DEF Finish, Claim, Select, At
  <2> QED
    BY <1>7, <1>9, <2>1 DEF Finish
<1>10. CASE CheckEligibility(t)
  <2>1. ~Claim(t) /\ ~Select(t) /\ tick[t].at = "check"
    BY <1>10 DEF CheckEligibility, Claim, Select, At
  <2>2. CASE Goto(t, "log")
    BY <1>2, <2>1, <2>2 DEF TickLabels, AtWork
  <2>3. CASE StillEligible /\ Goto(t, "send")
    <3> DEFINE k == [tick[t] EXCEPT !.at = "send"]
    <3>1. tick' = [tick EXCEPT ![t] = k]
      BY <1>1, <2>3 DEF Goto, TicksOK
    <3>2. /\ TickOK(k) /\ k.at = "send" /\ k.todo = tick[t].todo /\ k.attempt = tick[t].attempt
          /\ k.warned = tick[t].warned
      BY <1>1 DEF TickOK, TickLabels, AtWork
    <3>3. Moved(t, k)
      BY <2>1, <2>3, <3>2 DEF Moved, AtWork, StillEligible
    <3> QED
      BY <3>1, <3>3
  <2>4. CASE tick' = [tick EXCEPT ![t].at = "send", ![t].blind = TRUE]
    <3> DEFINE k == [tick[t] EXCEPT !.at = "send", !.blind = TRUE]
    <3>1. tick' = [tick EXCEPT ![t] = k]
      BY <1>1, <2>4 DEF TicksOK
    <3>2. /\ TickOK(k) /\ k.at = "send" /\ k.todo = tick[t].todo /\ k.attempt = tick[t].attempt
          /\ k.warned = tick[t].warned /\ k.blind
      BY <1>1 DEF TickOK, TickLabels, AtWork
    <3>3. Moved(t, k)
      BY <2>1, <3>2 DEF Moved, AtWork
    <3> QED
      BY <3>1, <3>3
  <2> QED
    BY <1>10, <2>2, <2>3, <2>4 DEF CheckEligibility
<1>11. CASE Send(t) \/ SendFails(t)
  <2>1. ~Claim(t) /\ ~Select(t) /\ tick[t].at \in {"check", "send"}
    <3>1. tick[t].at \in {"check", "send"}
      BY <1>11 DEF Send, SendFails, At
    <3> QED
      BY <3>1 DEF Claim, Select, At
  <2>2. PICK label \in {"sent", "failed"} :
          tick' = [tick EXCEPT ![t] = [@ EXCEPT !.at = label, !.warned = FALSE, !.blind = FALSE]]
    BY <1>11 DEF Send, SendFails, AfterSend
  <2> DEFINE k == [tick[t] EXCEPT !.at = label, !.warned = FALSE, !.blind = FALSE]
  <2>3. tick' = [tick EXCEPT ![t] = k]
    BY <1>1, <2>2 DEF TicksOK
  <2>4. /\ TickOK(k) /\ k.at = label /\ k.todo = tick[t].todo /\ k.attempt = tick[t].attempt
        /\ k.warned = FALSE
    BY <1>1 DEF TickOK, TickLabels, AtWork
  <2>5. Moved(t, k)
    BY <2>1, <2>4 DEF Moved, AtWork
  <2> QED
    BY <2>3, <2>5
<1>12. CASE RecordSent(t)
  <2>1. ~Claim(t) /\ ~Select(t) /\ tick[t].at = "sent"
    BY <1>12 DEF RecordSent, Claim, Select, At
  <2> QED
    BY <1>2, <1>12, <2>1 DEF RecordSent, TickLabels, AtWork
<1>13. CASE LogOutcome(t)
  <2>1. ~Claim(t) /\ ~Select(t) /\ tick[t].at = "log"
    BY <1>13 DEF LogOutcome, Claim, Select, At
  <2> QED
    BY <1>2, <1>6, <1>13, <2>1 DEF LogOutcome, TickLabels, AtWork
<1>14. CASE RecordFailure(t)
  <2>1. ~Claim(t) /\ ~Select(t)
    BY <1>14 DEF RecordFailure, Claim, Select, At
  <2> QED
    BY <1>6, <1>14, <2>1 DEF RecordFailure
<1>15. CASE Crash(t)
  <2>1. CASE Claim(t)
    BY <1>5, <2>1
  <2>2. CASE Select(t)
    BY <1>4, <2>2
  <2> QED
    BY <1>7, <1>15, <2>1, <2>2 DEF Crash
<1> QED
  BY <1>3, <1>4, <1>5, <1>8, <1>9, <1>10, <1>11, <1>12, <1>13, <1>14, <1>15 DEF Sweep

\* The steps that are none of a sweep.
Others ==
  \/ \E d \in Emails : Enqueue(d) \/ \E kind \in Kinds : Emit(d, kind)
  \/ Block \/ Unblock \/ Pass
  \/ \E r \in Requests : \/ \E e \in unacked : Unmatched(r, e) \/ Matched(r, e)
                         \/ UpdateStatus(r) \/ Suppress(r) \/ Respond(r) \/ RequestFails(r)
  \/ UNCHANGED emailVars

LEMMA StepCases ==
  ASSUME [EmailNext]_emailVars
  PROVE  Others \/ \E t \in Ticks : Start(t) \/ Sweep(t) \/ Crash(t)
BY DEF EmailNext, Others

\* They leave the sweeps at their labels, with their lists, and warn none; they
\* unblock the recipient only when none is warned any more.
LEMMA OtherTickSteps ==
  ASSUME Shape, Others
  PROVE  /\ TicksOK' /\ claims' = claims
         /\ \A t \in Ticks :
              /\ tick'[t].at = tick[t].at /\ tick'[t].todo = tick[t].todo
              /\ tick'[t].attempt = tick[t].attempt /\ tick'[t].blind = tick[t].blind
              /\ tick'[t].warned => tick[t].warned /\ (blocked => blocked')
<1>1. TicksOK /\ \A t \in Ticks : TickOK(tick[t])
  BY DEF Shape, TicksOK
<1>2. CASE Pass
  <2>1. claims' = claims /\ blocked' = blocked
    BY <1>2 DEF Pass
  <2>2. /\ tick' = [t \in Ticks |-> tick'[t]]
        /\ \A t \in Ticks : tick'[t] = IF At(t, "idle") THEN tick[t]
                                                       ELSE [tick[t] EXCEPT !.age = tick[t].age + 1]
    BY <1>2 DEF Pass
  <2>3. ASSUME NEW t \in Ticks
        PROVE  /\ TickOK(tick'[t]) /\ tick'[t].at = tick[t].at /\ tick'[t].todo = tick[t].todo
               /\ tick'[t].attempt = tick[t].attempt /\ tick'[t].blind = tick[t].blind
               /\ tick'[t].warned = tick[t].warned
    <3> DEFINE age == tick[t].age + 1
    <3>1. tick'[t] = tick[t] \/ tick'[t] = [tick[t] EXCEPT !.age = age]
      BY <2>2
    <3> HIDE DEF age
    <3> QED
      BY <1>1, <3>1 DEF TickOK
  <2> QED
    BY <2>1, <2>2, <2>3 DEF TicksOK
<1>3. CASE Unblock
  <2>1. /\ claims' = claims /\ tick' = [t \in Ticks |-> tick'[t]]
        /\ \A t \in Ticks : tick'[t] = [tick[t] EXCEPT !.warned = FALSE]
    BY <1>3 DEF Unblock
  <2>2. ASSUME NEW t \in Ticks
        PROVE  /\ TickOK(tick'[t]) /\ tick'[t].at = tick[t].at /\ tick'[t].todo = tick[t].todo
               /\ tick'[t].attempt = tick[t].attempt /\ tick'[t].blind = tick[t].blind
               /\ tick'[t].warned = FALSE
    BY <1>1, <2>1 DEF TickOK
  <2> QED
    BY <2>1, <2>2 DEF TicksOK
<1>4. CASE ~Pass /\ ~Unblock
  <2> SUFFICES UNCHANGED <<tick, claims>> /\ (blocked => blocked')
    BY <1>1 DEF TicksOK
  <2>1. CASE Block \/ \E r \in Requests : Suppress(r)
    BY <2>1 DEF Block, Suppress, sendVars
  <2>2. CASE \E d \in Emails : Enqueue(d) \/ \E kind \in Kinds : Emit(d, kind)
    <3>1. ASSUME NEW d \in Emails, Enqueue(d) PROVE UNCHANGED <<blocked, sendVars>>
      BY <3>1 DEF Enqueue
    <3>2. ASSUME NEW d \in Emails, NEW kind \in Kinds, Emit(d, kind) PROVE UNCHANGED <<blocked, sendVars>>
      BY <3>2 DEF Emit
    <3>3. UNCHANGED <<blocked, sendVars>>
      BY <2>2, <3>1, <3>2
    <3> QED
      BY <3>3 DEF sendVars
  <2>3. CASE \E r \in Requests : \/ \E e \in unacked : Unmatched(r, e) \/ Matched(r, e)
                                 \/ UpdateStatus(r) \/ Respond(r) \/ RequestFails(r)
    <3>1. UNCHANGED <<blocked, sendVars>>
      BY <2>3 DEF Unmatched, Matched, UpdateStatus, Respond, RequestFails
    <3> QED
      BY <3>1 DEF sendVars
  <2>4. CASE UNCHANGED emailVars
    BY <2>4 DEF emailVars
  <2> QED
    BY <1>4, <2>1, <2>2, <2>3, <2>4 DEF Others
<1> QED
  BY <1>2, <1>3, <1>4

\* An event request works on an event that the provider made, and answers a
\* bounce as reconciled when the recipient is suppressed.
LEMMA RequestSteps ==
  ASSUME Shape, [EmailNext]_emailVars
  PROVE  /\ ReqsOK' /\ unacked' \subseteq Emails \X Kinds /\ blocked' \in BOOLEAN
         /\ \A r \in Requests : req'[r].at # "idle" => req'[r].event \in Emails \X Kinds
<1>1. /\ ReqsOK /\ unacked \subseteq Emails \X Kinds /\ blocked \in BOOLEAN
      /\ \A r \in Requests : ReqOK(req[r])
      /\ \A r \in Requests : req[r].at # "idle" => req[r].event \in Emails \X Kinds
  BY DEF Shape, ReqsOK
<1>2. CASE UNCHANGED <<req, unacked>>
  <2>1. blocked' \in BOOLEAN
    BY <1>1, <1>2 DEF EmailNext, Enqueue, Emit, Block, Unblock, Pass, Start, Sweep, Select, Claim, ClaimLost,
       Finish, CheckEligibility, Send, SendFails, RecordSent, LogOutcome, RecordFailure, Crash,
       Unmatched, Matched, UpdateStatus, Suppress, Respond, RequestFails, emailVars
  <2> QED
    BY <1>1, <1>2, <2>1 DEF ReqsOK
<1>3. ASSUME NEW d \in Emails, NEW kind \in Kinds, Emit(d, kind)
      PROVE  unacked' \subseteq Emails \X Kinds /\ UNCHANGED <<req, blocked>>
  BY <1>1, <1>3 DEF Emit
<1>4. ASSUME NEW r \in Requests,
             \/ \E e \in unacked : Unmatched(r, e) \/ Matched(r, e)
             \/ UpdateStatus(r) \/ Suppress(r) \/ Respond(r) \/ RequestFails(r)
      PROVE  /\ unacked' \subseteq unacked /\ blocked' \in BOOLEAN
             /\ \E q : /\ req' = [req EXCEPT ![r] = q] /\ ReqOK(q)
                       /\ q.at # "idle" => q.event \in Emails \X Kinds
  <2>1. unacked' \subseteq unacked /\ blocked' \in BOOLEAN
    BY <1>1, <1>4 DEF Unmatched, Matched, UpdateStatus, Suppress, Respond, RequestFails
  <2> SUFFICES \E q : /\ req' = [req EXCEPT ![r] = q] /\ ReqOK(q)
                      /\ q.at # "idle" => q.event \in Emails \X Kinds
    BY <2>1
  <2>2. ReqOK(req[r]) /\ req = [q \in Requests |-> req[q]]
    BY <1>1 DEF ReqsOK
  <2>3. ASSUME NEW e \in unacked, Unmatched(r, e) \/ Matched(r, e)
        PROVE  \E q : /\ req' = [req EXCEPT ![r] = q] /\ ReqOK(q)
                      /\ q.at # "idle" => q.event \in Emails \X Kinds
    <3>1. CASE Unmatched(r, e)
      BY <1>1, <2>2, <3>1 DEF Unmatched
    <3>2. CASE Matched(r, e)
      <4> DEFINE q == [at |-> IF Ignored(row[e[1]].status, e[2]) THEN "respond" ELSE "update", event |-> e]
      <4>1. req' = [req EXCEPT ![r] = q]
        BY <3>2 DEF Matched
      <4>2. ReqOK(q) /\ q.event \in Emails \X Kinds
        BY <1>1 DEF ReqOK
      <4> QED
        BY <4>1, <4>2
    <3> QED
      BY <2>3, <3>1, <3>2
  <2>4. ASSUME NEW label \in {"suppress", "respond"}, req' = [req EXCEPT ![r].at = label],
               req[r].at # "idle"
        PROVE  \E q : /\ req' = [req EXCEPT ![r] = q] /\ ReqOK(q)
                      /\ q.at # "idle" => q.event \in Emails \X Kinds
    <3> DEFINE q == [req[r] EXCEPT !.at = label]
    <3>1. req' = [req EXCEPT ![r] = q]
      BY <2>2, <2>4
    <3>2. ReqOK(q) /\ q.event = req[r].event
      BY <2>2 DEF ReqOK
    <3> QED
      BY <1>1, <2>4, <3>1, <3>2
  <2>5. CASE UpdateStatus(r) \/ Suppress(r)
    <3>1. PICK label \in {"suppress", "respond"} : req' = [req EXCEPT ![r].at = label]
      BY <2>5 DEF UpdateStatus, Suppress
    <3>2. req[r].at # "idle"
      BY <2>5 DEF UpdateStatus, Suppress
    <3> QED
      BY <2>4, <3>1, <3>2
  <2>6. CASE Respond(r) \/ RequestFails(r)
    <3>1. req' = [req EXCEPT ![r] = NoReq]
      BY <2>6 DEF Respond, RequestFails
    <3>2. ReqOK(NoReq) /\ NoReq.at = "idle"
      BY DEF ReqOK, NoReq
    <3> WITNESS NoReq
    <3> QED
      BY <3>1, <3>2
  <2> QED
    BY <1>4, <2>1, <2>3, <2>5, <2>6
<1>5. ASSUME NEW r \in Requests, NEW q, req' = [req EXCEPT ![r] = q], ReqOK(q),
             q.at # "idle" => q.event \in Emails \X Kinds
      PROVE  /\ ReqsOK'
             /\ \A p \in Requests : req'[p].at # "idle" => req'[p].event \in Emails \X Kinds
  BY <1>1, <1>5 DEF ReqsOK
<1>6. \/ UNCHANGED <<req, unacked>>
      \/ \E d \in Emails, kind \in Kinds : Emit(d, kind)
      \/ \E r \in Requests : \/ \E e \in unacked : Unmatched(r, e) \/ Matched(r, e)
                             \/ UpdateStatus(r) \/ Suppress(r) \/ Respond(r) \/ RequestFails(r)
  BY DEF EmailNext, Enqueue, Block, Unblock, Pass, Start, Sweep, Select, Claim, ClaimLost, Finish,
     CheckEligibility, Send, SendFails, RecordSent, LogOutcome, RecordFailure, Crash, emailVars, eventVars
<1> QED
  <2>1. CASE \E d \in Emails, kind \in Kinds : Emit(d, kind)
    BY <1>1, <1>3, <2>1 DEF ReqsOK
  <2>2. CASE \E r \in Requests : \/ \E e \in unacked : Unmatched(r, e) \/ Matched(r, e)
                                 \/ UpdateStatus(r) \/ Suppress(r) \/ Respond(r) \/ RequestFails(r)
    <3>1. PICK r \in Requests : \/ \E e \in unacked : Unmatched(r, e) \/ Matched(r, e)
                                \/ UpdateStatus(r) \/ Suppress(r) \/ Respond(r) \/ RequestFails(r)
      BY <2>2
    <3>2. /\ unacked' \subseteq unacked /\ blocked' \in BOOLEAN
          /\ \E q : /\ req' = [req EXCEPT ![r] = q] /\ ReqOK(q)
                    /\ q.at # "idle" => q.event \in Emails \X Kinds
      BY <1>4, <3>1
    <3> QED
      BY <1>1, <1>5, <3>2
  <2> QED
    BY <1>2, <1>6, <2>1, <2>2

\* Claims are counted, and only by claims.
LEMMA ClaimSteps ==
  ASSUME Shape, [EmailNext]_emailVars
  PROVE  /\ claims' \in [Emails -> 0..MaxAttempts]
         /\ \A d \in Emails : claims'[d] >= claims[d]
         /\ UNCHANGED claims \/ \E t \in Ticks : Claim(t)
<1>1. claims \in [Emails -> 0..MaxAttempts]
  BY DEF Shape
<1>2. CASE UNCHANGED claims
  BY <1>1, <1>2, TimesAssumption
<1>3. ASSUME NEW t \in Ticks, Claim(t)
      PROVE  /\ claims' \in [Emails -> 0..MaxAttempts]
             /\ \A d \in Emails : claims'[d] >= claims[d]
  <2>1. Email(t) \in Emails
    BY <1>3, FirstRow DEF Claim
  <2>2. claims' = [claims EXCEPT ![Email(t)] = IF claims[Email(t)] + 1 <= MaxAttempts
                                              THEN claims[Email(t)] + 1 ELSE MaxAttempts]
    BY <1>1, <1>3, <2>1 DEF Claim, AtMost
  <2> QED
    BY <1>1, <2>1, <2>2, TimesAssumption
<1>4. UNCHANGED claims \/ \E t \in Ticks : Claim(t)
  BY OtherTickSteps, StepCases DEF Start, Sweep, Select, ClaimLost, Finish, CheckEligibility, Send, SendFails,
     RecordSent, LogOutcome, RecordFailure, Crash
<1> QED
  BY <1>2, <1>3, <1>4

LEMMA ClaimedRow ==
  ASSUME Shape, NEW t \in Ticks, Claim(t)
  PROVE  /\ RowsOK' /\ Email(t) \in Emails
         /\ row'[Email(t)].attempts = Current(t).attempts + 1 /\ row'[Email(t)].status = "sending"
         /\ \A d \in Emails \ {Email(t)} : row'[d] = row[d]
<1>1. Email(t) \in Emails /\ Current(t) \in tick[t].todo
  BY FirstRow DEF Claim
<1>2. RowOK(row[Email(t)]) /\ RowsOK /\ Current(t).attempts \in Nat
  BY <1>1 DEF Shape, RowsOK, TicksOK, TickOK
<1> DEFINE age == AtMost(tick[t].age, Lease)
           o == row[Email(t)]
           attempts == Current(t).attempts + 1
           r == [o EXCEPT !.status = "sending", !.attempts = attempts, !.wait = 0, !.age = age]
<1>3. row' = [row EXCEPT ![Email(t)] = r]
  BY <1>1, <1>2 DEF Claim, RowsOK
<1>4. RowOK(r) /\ r.attempts = attempts /\ r.status = "sending"
  <2>1. RowOK(o) /\ attempts \in Nat
    BY <1>2
  <2> HIDE DEF age, o, attempts
  <2> QED
    BY <2>1 DEF RowOK, Statuses
<1> HIDE DEF r
<1> QED
  BY <1>1, <1>2, <1>3, <1>4 DEF RowsOK

LEMMA ShapeStep == Shape /\ [EmailNext]_emailVars => Shape'
<1> SUFFICES ASSUME Shape, [EmailNext]_emailVars PROVE Shape'
  OBVIOUS
<1>1. /\ ReqsOK' /\ unacked' \subseteq Emails \X Kinds /\ blocked' \in BOOLEAN
      /\ \A r \in Requests : req'[r].at # "idle" => req'[r].event \in Emails \X Kinds
  BY RequestSteps
<1>2. claims' \in [Emails -> 0..MaxAttempts]
  BY ClaimSteps
<1>3. CASE Others
  <2>1. RowsOK'
    BY <1>3, OtherRowSteps DEF Others
  <2>2. TicksOK' /\ \A t \in Ticks : tick'[t].at \in AtWork => tick'[t].todo # {}
    BY <1>3, OtherTickSteps DEF Shape
  <2> QED
    BY <1>1, <1>2, <2>1, <2>2 DEF Shape
<1>4. ASSUME NEW t \in Ticks, Start(t) \/ Sweep(t) \/ Crash(t) PROVE Shape'
  <2>1. RowsOK'
    BY <1>4, RowSteps, ClaimedRow
  <2>2. /\ TicksOK' /\ Moved(t, tick'[t])
        /\ \A u \in Ticks \ {t} : tick'[u] = tick[u]
    BY <1>4, TickSteps
  <2>3. ASSUME NEW u \in Ticks, tick'[u].at \in AtWork PROVE tick'[u].todo # {}
    BY <2>2, <2>3 DEF Moved, Shape
  <2> QED
    BY <1>1, <1>2, <2>1, <2>2, <2>3 DEF Shape
<1> QED
  BY <1>3, <1>4, StepCases

-----------------------------------------------------------------------------
(***************************************************************************)
(* A bounce that was answered has suppressed its recipient.  A request is  *)
(* at its answer to a bounce only behind the suppression.                  *)
(***************************************************************************)
AnswerIsBehind(r) == req[r].at = "respond" /\ Kind(r) = "bounced" => Subject(r) \in stopped

BounceIInv == Shape /\ BounceSuppresses /\ \A r \in Requests : AnswerIsBehind(r)

\* What a step does to what was answered and what was suppressed.
LEMMA BounceSteps ==
  ASSUME BounceIInv, [EmailNext]_emailVars
  PROVE  BounceSuppresses' /\ \A r \in Requests : AnswerIsBehind(r)'
<1>1. /\ answered \subseteq stopped /\ ReqsOK /\ \A r \in Requests : ReqOK(req[r])
      /\ \A r \in Requests : AnswerIsBehind(r)
  BY DEF BounceIInv, BounceSuppresses, Shape, ReqsOK
<1>2. ASSUME NEW r \in Requests, UNCHANGED answered, stopped \subseteq stopped',
             \A q \in Requests \ {r} : req'[q] = req[q], AnswerIsBehind(r)'
      PROVE  BounceSuppresses' /\ \A q \in Requests : AnswerIsBehind(q)'
  BY <1>1, <1>2 DEF BounceSuppresses, AnswerIsBehind, Kind, Subject
<1>3. CASE UNCHANGED <<req, stopped, answered>>
  BY <1>1, <1>3 DEF BounceSuppresses, AnswerIsBehind, Kind, Subject
<1>4. ASSUME NEW r \in Requests, NEW e \in unacked, Matched(r, e)
      PROVE  BounceSuppresses' /\ \A q \in Requests : AnswerIsBehind(q)'
  <2> DEFINE q == [at |-> IF Ignored(row[e[1]].status, e[2]) THEN "respond" ELSE "update", event |-> e]
  <2>1. req' = [req EXCEPT ![r] = q] /\ UNCHANGED <<stopped, answered>>
    BY <1>4 DEF Matched
  <2>2. q.at = "respond" => q.event[2] = "delivered"
    BY DEF Ignored
  <2> HIDE DEF q
  <2>3. req'[r] = q /\ \A p \in Requests \ {r} : req'[p] = req[p]
    BY <1>1, <2>1 DEF ReqsOK
  <2>4. AnswerIsBehind(r)'
    BY <2>2, <2>3 DEF AnswerIsBehind, Kind
  <2> QED
    BY <1>2, <2>1, <2>3, <2>4
<1>5. ASSUME NEW r \in Requests, UpdateStatus(r)
      PROVE  BounceSuppresses' /\ \A q \in Requests : AnswerIsBehind(q)'
  <2> DEFINE label == IF Kind(r) = "bounced" THEN "suppress" ELSE "respond"
             q == [req[r] EXCEPT !.at = label]
  <2>1. req' = [req EXCEPT ![r] = q] /\ UNCHANGED <<stopped, answered>>
    BY <1>1, <1>5 DEF UpdateStatus, ReqsOK
  <2>2. q.event = req[r].event /\ q.at = label
    BY <1>1 DEF ReqOK
  <2> HIDE DEF q
  <2>3. req'[r] = q /\ \A p \in Requests \ {r} : req'[p] = req[p]
    BY <1>1, <2>1 DEF ReqsOK
  <2>4. AnswerIsBehind(r)'
    BY <2>2, <2>3 DEF AnswerIsBehind, Kind
  <2> QED
    BY <1>2, <2>1, <2>3, <2>4
<1>6. ASSUME NEW r \in Requests, Suppress(r)
      PROVE  BounceSuppresses' /\ \A q \in Requests : AnswerIsBehind(q)'
  <2> DEFINE q == [req[r] EXCEPT !.at = "respond"]
  <2>1. req' = [req EXCEPT ![r] = q] /\ stopped' = stopped \cup {Subject(r)} /\ UNCHANGED answered
    BY <1>1, <1>6 DEF Suppress, ReqsOK
  <2>2. q.event = req[r].event
    BY <1>1 DEF ReqOK
  <2> HIDE DEF q
  <2>3. req'[r] = q /\ \A p \in Requests \ {r} : req'[p] = req[p]
    BY <1>1, <2>1 DEF ReqsOK
  <2>4. AnswerIsBehind(r)'
    BY <2>1, <2>2, <2>3 DEF AnswerIsBehind, Subject
  <2> QED
    BY <1>2, <2>1, <2>3, <2>4
<1>7. ASSUME NEW r \in Requests, Respond(r) \/ RequestFails(r)
      PROVE  BounceSuppresses' /\ \A q \in Requests : AnswerIsBehind(q)'
  <2>1. req' = [req EXCEPT ![r] = NoReq] /\ UNCHANGED stopped
    BY <1>7 DEF Respond, RequestFails
  <2>2. req'[r] = NoReq /\ \A p \in Requests \ {r} : req'[p] = req[p]
    BY <1>1, <2>1 DEF ReqsOK
  <2>3. \A p \in Requests : AnswerIsBehind(p)'
    BY <1>1, <2>1, <2>2 DEF AnswerIsBehind, Kind, Subject, NoReq
  <2>4. answered' \subseteq stopped
    BY <1>1, <1>7 DEF Respond, RequestFails, AnswerIsBehind
  <2> QED
    BY <2>1, <2>3, <2>4 DEF BounceSuppresses
<1>8. \/ UNCHANGED <<req, stopped, answered>>
      \/ \E r \in Requests : \/ \E e \in unacked : Matched(r, e)
                             \/ UpdateStatus(r) \/ Suppress(r) \/ Respond(r) \/ RequestFails(r)
  BY DEF EmailNext, Enqueue, Emit, Block, Unblock, Pass, Start, Sweep, Select, Claim, ClaimLost, Finish,
     CheckEligibility, Send, SendFails, RecordSent, LogOutcome, RecordFailure, Crash, Unmatched,
     emailVars, eventVars
<1> QED
  BY <1>3, <1>4, <1>5, <1>6, <1>7, <1>8

(***************************************************************************)
(* A bounce that was answered as reconciled has suppressed the recipient,  *)
(* for any events, in any order and any number of times: about             *)
(* reconcileResendLifecycleEvent.                                          *)
(***************************************************************************)
THEOREM AnsweredBounceIsSuppressed == EmailSpec => []BounceSuppresses
<1>1. EmailInit => BounceIInv
  <2> SUFFICES ASSUME EmailInit PROVE BounceIInv
    OBVIOUS
  <2>1. BounceSuppresses /\ \A r \in Requests : req[r].at = "idle"
    BY DEF EmailInit, BounceSuppresses, NoReq
  <2> QED
    BY <2>1, ShapeInit DEF BounceIInv, AnswerIsBehind
<1>2. BounceIInv /\ [EmailNext]_emailVars => BounceIInv'
  <2> SUFFICES ASSUME BounceIInv, [EmailNext]_emailVars PROVE BounceIInv'
    OBVIOUS
  <2>1. Shape'
    BY ShapeStep DEF BounceIInv
  <2> QED
    BY <2>1, BounceSteps DEF BounceIInv
<1>3. BounceIInv => BounceSuppresses
  BY DEF BounceIInv
<1> QED
  BY <1>1, <1>2, <1>3, PTL DEF EmailSpec

-----------------------------------------------------------------------------
(***************************************************************************)
(* Nothing is sent against a suppression that was there at the claim.  A   *)
(* sweep is warned only while the recipient is blocked.                    *)
(***************************************************************************)
WarnedIInv ==
  Shape /\ SuppressedIsNotMailed /\ \A t \in Ticks : tick[t].warned => blocked

LEMMA WarnedSteps ==
  ASSUME WarnedIInv, [EmailNext]_emailVars
  PROVE  SuppressedIsNotMailed' /\ \A t \in Ticks : tick'[t].warned => blocked'
<1>1. /\ Shape /\ \A t \in Ticks : tick[t].warned => blocked
      /\ \A t \in Ticks : tick[t].at = "send" /\ tick[t].warned => tick[t].blind
  BY DEF WarnedIInv, SuppressedIsNotMailed, At
<1>2. CASE Others
  BY <1>1, <1>2, OtherTickSteps DEF SuppressedIsNotMailed, At
<1>3. ASSUME NEW t \in Ticks, Start(t) \/ Sweep(t) \/ Crash(t)
      PROVE  SuppressedIsNotMailed' /\ \A u \in Ticks : tick'[u].warned => blocked'
  <2>1. blocked' = blocked
    BY <1>3 DEF Start, Sweep, Select, Claim, ClaimLost, Finish, CheckEligibility, Send, SendFails,
       RecordSent, LogOutcome, RecordFailure, Crash
  <2>2. Moved(t, tick'[t]) /\ \A u \in Ticks \ {t} : tick'[u] = tick[u]
    BY <1>1, <1>3, TickSteps
  <2>3. tick'[t].warned => blocked
    BY <1>1, <2>2 DEF Moved
  <2>4. tick'[t].at = "send" /\ tick'[t].warned => tick'[t].blind
    BY <2>2, <2>3 DEF Moved
  <2> QED
    BY <1>1, <2>1, <2>2, <2>3, <2>4 DEF SuppressedIsNotMailed, At
<1> QED
  BY <1>2, <1>3, StepCases

(***************************************************************************)
(* No email goes out to a recipient who was blocked when its row was       *)
(* claimed, and still is, unless the read of the suppressions failed: for  *)
(* any number of sweeps, about the second check of processLifecycleEmail-  *)
(* Queue.                                                                  *)
(***************************************************************************)
THEOREM WarnedSendIsBlind == EmailSpec => []SuppressedIsNotMailed
<1>1. EmailInit => WarnedIInv
  <2> SUFFICES ASSUME EmailInit PROVE WarnedIInv
    OBVIOUS
  <2>1. \A t \in Ticks : tick[t].warned = FALSE
    BY DEF EmailInit, NoTick
  <2> QED
    BY <2>1, ShapeInit DEF WarnedIInv, SuppressedIsNotMailed
<1>2. WarnedIInv /\ [EmailNext]_emailVars => WarnedIInv'
  <2> SUFFICES ASSUME WarnedIInv, [EmailNext]_emailVars PROVE WarnedIInv'
    OBVIOUS
  <2>1. Shape'
    BY ShapeStep DEF WarnedIInv
  <2> QED
    BY <2>1, WarnedSteps DEF WarnedIInv
<1>3. WarnedIInv => SuppressedIsNotMailed
  BY DEF WarnedIInv
<1> QED
  BY <1>1, <1>2, <1>3, PTL DEF EmailSpec

-----------------------------------------------------------------------------
(***************************************************************************)
(* An email is given up only after max_attempts claims.  The attempts that *)
(* a row, the list of a sweep or its work holds were never more than the   *)
(* claims of the row: each comes from the one before it.                   *)
(***************************************************************************)
Tried(n, d) == AtMost(n, MaxAttempts) <= claims[d]

TriedIInv ==
  /\ Shape /\ GivenUpAfterAllAttempts
  /\ \A d \in Emails : Tried(row[d].attempts, d)
  /\ \A t \in Ticks :
       /\ \A s \in tick[t].todo : Tried(s.attempts, s.email)
       /\ tick[t].at \in AtWork => Tried(tick[t].attempt, Email(t))

\* Claims never take an attempt back.
LEMMA TriedStays ==
  ASSUME Shape, [EmailNext]_emailVars, NEW d \in Emails, NEW n \in Nat, Tried(n, d)
  PROVE  Tried(n, d)'
<1>1. claims'[d] >= claims[d] /\ claims'[d] \in 0..MaxAttempts /\ claims[d] \in 0..MaxAttempts
  BY ClaimSteps DEF Shape
<1> QED
  BY <1>1, TimesAssumption DEF Tried, AtMost

\* A claim is one try more.
LEMMA ClaimTries ==
  ASSUME Shape, NEW t \in Ticks, Claim(t), Tried(Current(t).attempts, Email(t))
  PROVE  Tried(Current(t).attempts + 1, Email(t))'
<1>1. Email(t) \in Emails /\ Current(t) \in tick[t].todo /\ Current(t).attempts \in Nat
  BY FirstRow DEF Claim, Shape, TicksOK, TickOK
<1> DEFINE d == Email(t)
           n == Current(t).attempts
<1>2. claims[d] \in 0..MaxAttempts /\ claims'[d] = AtMost(claims[d] + 1, MaxAttempts)
  BY <1>1 DEF Claim, Shape
<1>3. AtMost(n, MaxAttempts) <= claims[d] /\ n \in Nat
  BY <1>1 DEF Tried
<1>4. tick'[t].todo = tick[t].todo /\ Current(t)' = Current(t) /\ d' = d
  BY TickSteps, SameList DEF Sweep, Moved
<1> HIDE DEF d, n
<1>5. AtMost(n + 1, MaxAttempts) <= claims'[d]
  BY <1>2, <1>3, TimesAssumption DEF AtMost
<1> QED
  BY <1>4, <1>5 DEF Tried, d, n

LEMMA TriedSteps ==
  ASSUME TriedIInv, [EmailNext]_emailVars, Shape'
  PROVE  TriedIInv'
<1>1. /\ Shape /\ \A d \in Emails : row[d].attempts \in Nat /\ Tried(row[d].attempts, d)
      /\ \A d \in Emails : row[d].status = "failed" => claims[d] >= MaxAttempts
  BY DEF TriedIInv, GivenUpAfterAllAttempts, Shape, RowsOK, RowOK
<1>2. ASSUME NEW t \in Ticks
      PROVE  /\ tick[t].attempt \in Nat
             /\ \A s \in tick[t].todo : s.email \in Emails /\ s.attempts \in Nat /\ Tried(s.attempts, s.email)
             /\ tick[t].at \in AtWork => Email(t) \in Emails /\ Tried(tick[t].attempt, Email(t))
  BY FirstRow DEF TriedIInv, Shape, TicksOK, TickOK
<1>3. \A d \in Emails : claims'[d] >= claims[d] /\ claims[d] \in Nat /\ claims'[d] \in Nat
  BY <1>1, ClaimSteps DEF Shape
<1>4. \A d \in Emails, n \in Nat : Tried(n, d) => AtMost(n, MaxAttempts) <= claims'[d]
  BY <1>1, TriedStays DEF Tried
<1>5. ASSUME NEW t \in Ticks, tick'[t].todo \subseteq tick[t].todo,
             tick'[t].at \in AtWork => /\ tick[t].at \in AtWork /\ tick'[t].todo = tick[t].todo
                                       /\ tick'[t].attempt = tick[t].attempt
      PROVE  /\ \A s \in tick'[t].todo : AtMost(s.attempts, MaxAttempts) <= claims'[s.email]
             /\ tick'[t].at \in AtWork => Tried(tick[t].attempt, Email(t))'
  <2>1. \A s \in tick'[t].todo : AtMost(s.attempts, MaxAttempts) <= claims'[s.email]
    BY <1>2, <1>4, <1>5
  <2>2. ASSUME tick'[t].at \in AtWork PROVE Tried(tick[t].attempt, Email(t))'
    <3>1. Email(t)' = Email(t) /\ tick'[t].attempt = tick[t].attempt
      BY <1>5, <2>2, SameList
    <3>2. AtMost(tick[t].attempt, MaxAttempts) <= claims'[Email(t)]
      BY <1>2, <1>4, <1>5, <2>2
    <3> QED
      BY <3>1, <3>2 DEF Tried
  <2> QED
    BY <2>1, <2>2
<1>6. ASSUME \A d \in Emails : row'[d].attempts = row[d].attempts
      PROVE  \A d \in Emails : Tried(row[d].attempts, d)'
  BY <1>1, <1>4, <1>6 DEF Tried
<1>7. CASE Others
  <2>1. \A t \in Ticks : /\ tick'[t].at = tick[t].at /\ tick'[t].todo = tick[t].todo
                         /\ tick'[t].attempt = tick[t].attempt
    BY <1>1, <1>7, OtherTickSteps
  <2>2. /\ \A d \in Emails : row'[d].attempts = row[d].attempts
        /\ \A d \in Emails : row'[d].status = "failed" => row[d].status = "failed"
    BY <1>1, <1>7, OtherRowSteps DEF Others
  <2>3. GivenUpAfterAllAttempts'
    BY <1>1, <1>3, <2>2, TimesAssumption DEF GivenUpAfterAllAttempts
  <2> QED
    BY <1>5, <1>6, <2>1, <2>2, <2>3 DEF TriedIInv, Tried
<1>8. ASSUME NEW t \in Ticks, Start(t) \/ Sweep(t) \/ Crash(t) PROVE TriedIInv'
  <2>1. Moved(t, tick'[t]) /\ \A u \in Ticks \ {t} : tick'[u] = tick[u]
    BY <1>1, <1>8, TickSteps
  <2>2. ASSUME NEW u \in Ticks \ {t}
        PROVE  /\ \A s \in tick'[u].todo : AtMost(s.attempts, MaxAttempts) <= claims'[s.email]
               /\ tick'[u].at \in AtWork => Tried(tick[u].attempt, Email(u))'
    BY <1>5, <2>1
  <2>3. CASE Claim(t)
    <3>1. Current(t) \in tick[t].todo /\ Email(t) \in Emails
      BY <1>1, <2>3, FirstRow DEF Claim
    <3>2. tick'[t].todo = tick[t].todo /\ tick'[t].attempt = Current(t).attempts + 1
      BY <2>1, <2>3 DEF Moved, Select, Claim, At
    <3>3. Current(t)' = Current(t) /\ Email(t)' = Email(t)
      BY <3>2, SameList
    <3>4. Tried(Current(t).attempts + 1, Email(t))'
      BY <1>1, <1>2, <2>3, <3>1, ClaimTries DEF Email
    <3>5. /\ row'[Email(t)].attempts = Current(t).attempts + 1 /\ row'[Email(t)].status = "sending"
          /\ \A d \in Emails \ {Email(t)} : row'[d] = row[d]
      BY <1>1, <2>3, ClaimedRow
    <3>6. \A d \in Emails : Tried(row[d].attempts, d)'
      BY <1>1, <1>4, <3>3, <3>4, <3>5 DEF Tried
    <3>7. GivenUpAfterAllAttempts'
      BY <1>1, <1>3, <3>5, TimesAssumption DEF GivenUpAfterAllAttempts
    <3>8. \A s \in tick'[t].todo : AtMost(s.attempts, MaxAttempts) <= claims'[s.email]
      BY <1>2, <1>4, <3>2
    <3>9. Tried(tick[t].attempt, Email(t))'
      BY <3>2, <3>3, <3>4 DEF Tried
    <3> QED
      BY <2>2, <3>6, <3>7, <3>8, <3>9 DEF TriedIInv, Tried
  <2>4. CASE ~Claim(t)
    <3>1. /\ \A d \in Emails : row'[d].attempts = row[d].attempts
          /\ \A d \in Emails : row'[d].status = "failed" /\ row[d].status # "failed" =>
               RecordFailure(t) /\ Terminal(tick[t].attempt) /\ Email(t) = d
      BY <1>1, <1>8, <2>4, RowSteps
    <3>2. \A d \in Emails : Tried(row[d].attempts, d)'
      BY <1>6, <3>1
    <3>3. ASSUME NEW d \in Emails, row'[d].status = "failed" PROVE claims'[d] >= MaxAttempts
      <4>1. CASE row[d].status = "failed"
        BY <1>1, <1>3, <4>1, TimesAssumption
      <4>2. CASE row[d].status # "failed"
        <5>1. tick[t].at \in AtWork /\ Terminal(tick[t].attempt) /\ Email(t) = d
          BY <3>1, <3>3, <4>2 DEF RecordFailure, At, AtWork
        <5>2. tick[t].attempt >= MaxAttempts /\ AtMost(tick[t].attempt, MaxAttempts) <= claims'[d]
          BY <1>2, <1>4, <5>1 DEF Terminal
        <5> QED
          BY <1>2, <1>3, <5>2, TimesAssumption DEF AtMost
      <4> QED
        BY <4>1, <4>2
    <3>4. /\ \A s \in tick'[t].todo : AtMost(s.attempts, MaxAttempts) <= claims'[s.email]
          /\ tick'[t].at \in AtWork => Tried(tick[t].attempt, Email(t))'
      <4>1. CASE Select(t)
        <5>1. tick'[t].at \notin AtWork
          BY <2>1, <2>4, <4>1 DEF Moved, Select, At, AtWork
        <5>2. \A s \in tick'[t].todo : s.email \in Emails /\ s.attempts = row[s.email].attempts
          BY <2>1, <4>1 DEF Moved
        <5> QED
          BY <1>1, <1>4, <5>1, <5>2
      <4>2. CASE ~Select(t)
        BY <1>5, <2>1, <2>4, <4>2 DEF Moved
      <4> QED
        BY <4>1, <4>2
    <3> QED
      BY <2>2, <3>2, <3>3, <3>4 DEF TriedIInv, Tried, GivenUpAfterAllAttempts
  <2> QED
    BY <2>3, <2>4
<1> QED
  BY <1>7, <1>8, StepCases

(***************************************************************************)
(* An email is given up as failed only after max_attempts claims, whatever *)
(* number of sweeps overlap on it and die: about the attempt number, taken *)
(* from the selection and written over the row's.                          *)
(***************************************************************************)
THEOREM FailedIsTried == EmailSpec => []GivenUpAfterAllAttempts
<1>1. EmailInit => TriedIInv
  <2> SUFFICES ASSUME EmailInit PROVE TriedIInv
    OBVIOUS
  <2>1. \A d \in Emails : row[d].status = "none" /\ row[d].attempts = 0 /\ claims[d] = 0
    BY DEF EmailInit, NoRow
  <2>2. \A t \in Ticks : tick[t].at = "idle" /\ tick[t].todo = {}
    BY DEF EmailInit, NoTick
  <2> QED
    BY <2>1, <2>2, ShapeInit, TimesAssumption
    DEF TriedIInv, GivenUpAfterAllAttempts, Tried, AtMost, AtWork
<1>2. TriedIInv /\ [EmailNext]_emailVars => TriedIInv'
  <2> SUFFICES ASSUME TriedIInv, [EmailNext]_emailVars PROVE TriedIInv'
    OBVIOUS
  <2>1. Shape'
    BY ShapeStep DEF TriedIInv
  <2> QED
    BY <2>1, TriedSteps
<1>3. TriedIInv => GivenUpAfterAllAttempts
  BY DEF TriedIInv
<1> QED
  BY <1>1, <1>2, <1>3, PTL DEF EmailSpec

-----------------------------------------------------------------------------
(***************************************************************************)
(* Backoffs.                                                               *)
(***************************************************************************)
LEMMA TimesGrows ==
  ASSUME NEW a \in Nat, NEW b \in Nat, NEW c \in Nat, b <= c
  PROVE  a * b \in Nat /\ a * b <= a * c
<1>1. a * b \in Nat
  OBVIOUS
<1>2. PICK k \in Nat : c = b + k
  <2>1. c - b \in Nat /\ c = b + (c - b)
    OBVIOUS
  <2> QED
    BY <2>1
<1>3. a * c = a * b + a * k /\ a * k \in Nat
  BY <1>2
<1> QED
  BY <1>1, <1>3

\* The least m with a smaller power of m + n than of n is not 0, and not a
\* successor either.
LEMMA PowersGrow ==
  ASSUME NEW n \in 0..MaxAttempts, NEW m \in Nat, n + m <= MaxAttempts
  PROVE  2 ^ n <= 2 ^ (n + m)
<1> DEFINE Low == {i \in Nat : n + i <= MaxAttempts /\ 2 ^ (n + i) < 2 ^ n}
           R == OpToRel(<, Nat)
<1>1. SUFFICES ASSUME Low # {} PROVE FALSE
  <2>1. ~(2 ^ (n + m) < 2 ^ n)
    BY <1>1
  <2>2. 2 ^ n \in Nat /\ 2 ^ (n + m) \in Nat
    BY PowersAssumption, TimesAssumption
  <2> QED
    BY <2>1, <2>2
<1>2. PICK i \in Low : \A j \in Low : <<j, i>> \notin R
  BY <1>1, WFMin, NatLessThanWellFounded
<1>3. i \in Nat /\ n + i <= MaxAttempts /\ 2 ^ (n + i) < 2 ^ n
  OBVIOUS
<1>4. 2 ^ n \in Nat
  BY PowersAssumption
<1>5. i # 0
  <2>1. n + 0 = n
    OBVIOUS
  <2> QED
    BY <1>3, <1>4, <2>1
<1>6. i - 1 \in Nat /\ i - 1 \notin Low
  <2>1. i - 1 \in Nat /\ i - 1 < i
    BY <1>3, <1>5
  <2>2. <<i - 1, i>> \in R
    BY <1>3, <2>1 DEF OpToRel
  <2> QED
    BY <1>2, <2>1, <2>2
<1>7. PICK k : k = n + (i - 1)
  OBVIOUS
<1>8. k \in 0..MaxAttempts /\ k + 1 = n + i
  BY <1>3, <1>6, <1>7, TimesAssumption
<1>9. 2 ^ k \in Nat /\ 2 ^ (k + 1) = 2 * 2 ^ k
  BY <1>8, PowersAssumption
<1>10. 2 ^ k >= 2 ^ n
  BY <1>3, <1>4, <1>6, <1>7, <1>8, <1>9
<1> QED
  BY <1>3, <1>4, <1>8, <1>9, <1>10

\* A backoff is a lease or more, and half of what the last attempt would wait
\* at most.
LEMMA BackoffBounds ==
  ASSUME NEW attempt \in Nat \ {0}, ~Terminal(attempt)
  PROVE  /\ Backoff(attempt) \in Nat /\ Backoff(attempt) >= Lease
         /\ 2 * Backoff(attempt) <= Lease * 2 ^ (MaxAttempts - 1)
<1>1. attempt < MaxAttempts /\ Lease \in Nat /\ MaxAttempts \in Nat
  BY TimesAssumption DEF Terminal
<1>2. PICK n : n = attempt - 1
  OBVIOUS
<1>3. n \in 0..MaxAttempts /\ n + 1 = attempt /\ attempt \in 0..MaxAttempts
  BY <1>1, <1>2
<1>4. PICK x : x = 2 ^ n
  OBVIOUS
<1>5. x \in Nat /\ x >= 1 /\ 2 ^ attempt = 2 * x
  BY <1>3, <1>4, PowersAssumption
<1>6. PICK m : m = MaxAttempts - 1 - attempt
  OBVIOUS
<1>7. m \in Nat /\ attempt + m = MaxAttempts - 1
  BY <1>1, <1>6
<1>8. PICK y : y = 2 ^ (MaxAttempts - 1)
  OBVIOUS
<1>9. MaxAttempts - 1 \in 0..MaxAttempts
  BY TimesAssumption
<1>10. y \in Nat
  BY <1>8, <1>9, PowersAssumption
<1>11. 2 ^ attempt <= 2 ^ (attempt + m)
  BY <1>1, <1>3, <1>7, PowersGrow
<1>12. 2 * x <= y
  BY <1>5, <1>7, <1>8, <1>11
<1>13. Lease * 1 <= Lease * x /\ Lease * x \in Nat
  BY <1>1, <1>5, TimesGrows
<1>14. Lease * (2 * x) <= Lease * y
  BY <1>1, <1>5, <1>10, <1>12, TimesGrows
<1>15. Lease * (2 * x) = 2 * (Lease * x) /\ Lease * 1 = Lease
  BY <1>1, <1>5
<1> QED
  BY <1>2, <1>4, <1>8, <1>13, <1>14, <1>15 DEF Backoff

-----------------------------------------------------------------------------
(***************************************************************************)
(* What a step makes of a row's status and times, and of a sweep's list    *)
(* and age.                                                                *)
(***************************************************************************)
Kept(d) ==
  row'[d].status = row[d].status /\ row'[d].age = row[d].age /\ row'[d].wait = row[d].wait

Stamped(d, status, age, wait) ==
  row'[d].status = status /\ row'[d].age = age /\ row'[d].wait = wait

TakenBack(t, d) == Start(t) /\ LeaseExpired(d) /\ Stamped(d, "retrying", 0, 0)

Taken(t, d) ==
  Claim(t) /\ Email(t) = d /\ Stamped(d, "sending", AtMost(tick[t].age, Lease), 0)

PutOff(t, d) ==
  /\ RecordFailure(t) /\ Email(t) = d /\ ~Terminal(tick[t].attempt)
  /\ Stamped(d, "retrying", 0, Backoff(tick[t].attempt))

Message(d) == row'[d].message \in {TRUE, row[d].message}

LEMMA AsPut ==
  ASSUME RowsOK, NEW d \in Emails, NEW e \in Emails, NEW status, NEW wait, NEW message,
         row' = [row EXCEPT ![e] = [As(row[e], status) EXCEPT !.wait = wait, !.message = message]],
         message \in {TRUE, row[e].message}
  PROVE  Message(d) /\ IF d = e THEN Stamped(d, status, 0, wait) ELSE Kept(d)
<1>1. RowOK(row[e]) /\ row = [f \in Emails |-> row[f]]
  BY DEF RowsOK
<1>2. PICK k : k = [As(row[e], status) EXCEPT !.wait = wait, !.message = message]
  OBVIOUS
<1>3. k.status = status /\ k.age = 0 /\ k.wait = wait /\ k.message = message
  BY <1>1, <1>2 DEF RowOK, As
<1>4. row'[d] = IF d = e THEN k ELSE row[d]
  BY <1>1, <1>2
<1> QED
  BY <1>3, <1>4 DEF Message, Stamped, Kept

LEMMA PutPath ==
  ASSUME RowsOK, NEW d \in Emails, NEW e \in Emails, NEW status, Put(e, status)
  PROVE  Message(d) /\ IF d = e THEN Stamped(d, status, 0, 0) ELSE Kept(d)
<1>1. RowOK(row[e])
  BY DEF RowsOK
<1>2. As(row[e], status) = [As(row[e], status) EXCEPT !.wait = 0, !.message = row[e].message]
  BY <1>1 DEF RowOK, As
<1>3. row' = [row EXCEPT ![e] = As(row[e], status)]
  BY DEF Put, RowsOK
<1> QED
  BY <1>2, <1>3, AsPut

LEMMA SweepRowPath ==
  ASSUME Shape, NEW t \in Ticks, Start(t) \/ Sweep(t) \/ Crash(t), NEW d \in Emails
  PROVE  /\ Message(d)
         /\ \/ Kept(d)
            \/ row'[d].status \in Settled /\ row'[d].age = 0 /\ row'[d].wait = 0
            \/ TakenBack(t, d) \/ Taken(t, d) \/ PutOff(t, d)
<1>1. RowsOK /\ RowOK(row[d])
  BY DEF Shape, RowsOK
<1>2. tick[t].at \in AtWork => Email(t) \in Emails
  BY FirstRow DEF Shape
<1>3. CASE UNCHANGED row
  BY <1>3 DEF Message, Kept
<1>4. CASE Start(t) /\ ~UNCHANGED row
  <2>1. row'[d] = IF LeaseExpired(d) THEN As(row[d], "retrying") ELSE row[d]
    BY <1>4 DEF Start
  <2>2. CASE LeaseExpired(d)
    <3>1. row'[d] = As(row[d], "retrying")
      BY <2>1, <2>2
    <3>2. Message(d) /\ Stamped(d, "retrying", 0, 0)
      BY <1>1, <3>1 DEF RowOK, As, Message, Stamped
    <3> QED
      BY <1>4, <2>2, <3>2 DEF TakenBack
  <2>3. CASE ~LeaseExpired(d)
    BY <2>1, <2>3 DEF Message, Kept
  <2> QED
    BY <2>2, <2>3
<1>5. CASE CheckEligibility(t) /\ ~UNCHANGED row
  <2>1. Put(Email(t), "suppressed") /\ Email(t) \in Emails
    BY <1>2, <1>5 DEF CheckEligibility, At, AtWork
  <2> QED
    BY <1>1, <2>1, PutPath DEF Stamped, Settled
<1>6. CASE RecordSent(t) /\ ~UNCHANGED row
  <2>1. Email(t) \in Emails
    BY <1>2, <1>6 DEF RecordSent, At, AtWork
  <2>2. PICK e \in Emails : e = Email(t)
    BY <2>1
  <2>3. row' = [row EXCEPT ![e] = [As(row[e], "sent") EXCEPT !.message = TRUE]]
    BY <1>1, <1>6, <2>2 DEF RecordSent, RowsOK
  <2>4. [As(row[e], "sent") EXCEPT !.message = TRUE]
          = [As(row[e], "sent") EXCEPT !.wait = 0, !.message = TRUE]
    <3>1. RowOK(row[e])
      BY <1>1 DEF RowsOK
    <3> QED
      BY <3>1 DEF RowOK, As
  <2>5. Message(d) /\ IF d = e THEN Stamped(d, "sent", 0, 0) ELSE Kept(d)
    BY <1>1, <2>3, <2>4, AsPut
  <2> QED
    BY <2>5 DEF Stamped, Settled
<1>7. CASE RecordFailure(t) /\ ~UNCHANGED row
  <2>1. Email(t) \in Emails
    BY <1>2, <1>7 DEF RecordFailure, At, AtWork
  <2>2. CASE Put(Email(t), "failed")
    BY <1>1, <2>1, <2>2, PutPath DEF Stamped, Settled
  <2>3. CASE ~Put(Email(t), "failed")
    <3>1. PICK e \in Emails : e = Email(t)
      BY <2>1
    <3>2. PICK wait : wait = Backoff(tick[t].attempt)
      OBVIOUS
    <3>3. /\ row' = [row EXCEPT ![e] = [As(row[e], "retrying") EXCEPT !.wait = wait]]
          /\ ~Terminal(tick[t].attempt)
      BY <1>1, <1>7, <2>3, <3>1, <3>2 DEF RecordFailure, RowsOK
    <3>4. [As(row[e], "retrying") EXCEPT !.wait = wait]
            = [As(row[e], "retrying") EXCEPT !.wait = wait, !.message = row[e].message]
      <4>1. RowOK(row[e])
        BY <1>1 DEF RowsOK
      <4> QED
        BY <4>1 DEF RowOK, As
    <3>5. Message(d) /\ IF d = e THEN Stamped(d, "retrying", 0, wait) ELSE Kept(d)
      BY <1>1, <3>3, <3>4, AsPut
    <3> QED
      BY <1>7, <3>1, <3>2, <3>3, <3>5 DEF PutOff
  <2> QED
    BY <2>2, <2>3
<1>8. CASE Claim(t)
  <2>1. Email(t) \in Emails
    BY <1>8, FirstRow DEF Claim
  <2>2. PICK e \in Emails : e = Email(t)
    BY <2>1
  <2>3. PICK age : age = AtMost(tick[t].age, Lease)
    OBVIOUS
  <2>4. PICK attempt : attempt = Current(t).attempts + 1
    OBVIOUS
  <2>5. RowOK(row[e])
    BY <1>1 DEF RowsOK
  <2>6. PICK k : k = [row[e] EXCEPT !.status = "sending", !.attempts = attempt, !.wait = 0, !.age = age]
    OBVIOUS
  <2>7. k.status = "sending" /\ k.age = age /\ k.wait = 0 /\ k.message = row[e].message
    BY <2>5, <2>6 DEF RowOK
  <2>8. row' = [row EXCEPT ![e] = k]
    BY <1>1, <1>8, <2>2, <2>3, <2>4, <2>6 DEF Claim, RowsOK
  <2>9. row'[d] = IF d = e THEN k ELSE row[d]
    BY <1>1, <2>8 DEF RowsOK
  <2> QED
    BY <1>8, <2>2, <2>3, <2>7, <2>9 DEF Message, Stamped, Kept, Taken
<1> QED
  BY <1>3, <1>4, <1>5, <1>6, <1>7, <1>8
  DEF Sweep, Select, ClaimLost, Finish, Send, SendFails, LogOutcome, Crash

\* The rows while no sweep steps and no time passes.
LEMMA OtherRowPath ==
  ASSUME Shape, Others, ~Pass, NEW d \in Emails
  PROVE  /\ Message(d)
         /\ \/ Kept(d)
            \/ row'[d].status \in Settled /\ row'[d].age = 0 /\ row'[d].wait = 0
            \/ row[d].status = "none" /\ Stamped(d, "queued", 0, 0)
<1>1. RowsOK
  BY DEF Shape
<1>2. CASE UNCHANGED row
  BY <1>2 DEF Message, Kept
<1>3. ASSUME NEW e \in Emails, Enqueue(e), ~UNCHANGED row
      PROVE  /\ Message(d)
             /\ \/ Kept(d)
                \/ row'[d].status \in Settled /\ row'[d].age = 0 /\ row'[d].wait = 0
                \/ row[d].status = "none" /\ Stamped(d, "queued", 0, 0)
  <2>1. /\ row[e].status = "none"
        /\ Put(e, "queued") \/ Put(e, "suppressed")
    BY <1>3 DEF Enqueue
  <2> QED
    BY <1>1, <2>1, PutPath DEF Stamped, Settled
<1>4. ASSUME NEW r \in Requests, UpdateStatus(r), ~UNCHANGED row
      PROVE  /\ Message(d)
             /\ \/ Kept(d)
                \/ row'[d].status \in Settled /\ row'[d].age = 0 /\ row'[d].wait = 0
  <2>1. Put(Subject(r), Kind(r)) /\ req[r].event \in Emails \X Kinds
    BY <1>4 DEF UpdateStatus, Shape
  <2>2. Subject(r) \in Emails /\ Kind(r) \in Settled
    BY <2>1 DEF Subject, Kind, Kinds, Settled
  <2> QED
    BY <1>1, <2>1, <2>2, PutPath DEF Stamped
<1> QED
  BY <1>2, <1>3, <1>4 DEF Others, Emit, Block, Unblock, Unmatched, Matched, Suppress, Respond, RequestFails,
     emailVars, sendVars

\* Time passes for a row.
LEMMA PassRow ==
  ASSUME Shape, Pass, NEW d \in Emails
  PROVE  /\ row'[d].status = row[d].status /\ row'[d].message = row[d].message
         /\ row'[d].age = IF row[d].status = "sending" THEN AtMost(row[d].age + 1, Lease) ELSE row[d].age
         /\ row'[d].wait = IF row[d].status \in Due THEN AtLeast(row[d].wait - 1, -TickTime)
                                                   ELSE row[d].wait
<1>1. RowOK(row[d])
  BY DEF Shape, RowsOK
<1>2. PICK age : age = AtMost(row[d].age + 1, Lease)
  OBVIOUS
<1>3. PICK wait : wait = AtLeast(row[d].wait - 1, -TickTime)
  OBVIOUS
<1>4. row'[d] = CASE row[d].status = "sending" -> [row[d] EXCEPT !.age = age]
                  [] row[d].status \in Due -> [row[d] EXCEPT !.wait = wait]
                  [] OTHER -> row[d]
  BY <1>2, <1>3 DEF Pass
<1>5. CASE row[d].status = "sending"
  BY <1>1, <1>2, <1>4, <1>5 DEF RowOK, Due
<1>6. CASE row[d].status \in Due
  BY <1>1, <1>3, <1>4, <1>6 DEF RowOK, Due
<1>7. CASE row[d].status # "sending" /\ row[d].status \notin Due
  BY <1>4, <1>7
<1> QED
  BY <1>5, <1>6, <1>7

-----------------------------------------------------------------------------
SameTick(t) ==
  tick'[t].at = tick[t].at /\ tick'[t].todo = tick[t].todo /\ tick'[t].attempt = tick[t].attempt

Gone(t) == tick'[t].at = "idle" /\ tick'[t].age = 0 /\ tick'[t].todo = {}

Begun(t) ==
  /\ tick[t].at = "idle" /\ tick'[t].at = "select"
  /\ tick'[t].age = tick[t].age /\ tick'[t].todo = tick[t].todo

Listing(t) ==
  /\ tick'[t].at = "next" /\ tick'[t].age = tick[t].age
  /\ \A s \in tick'[t].todo : /\ s = [email |-> s.email, attempts |-> row[s.email].attempts]
                              /\ row[s.email].status \in Due
                              /\ row[s.email].wait + tick[t].age <= 0

Taking(t) ==
  /\ Claim(t) /\ tick'[t].at = "check" /\ tick'[t].attempt # 0
  /\ tick'[t].age = tick[t].age /\ tick'[t].todo = tick[t].todo

Working(t) ==
  /\ tick[t].at \in AtWork /\ tick'[t].at \in AtWork
  /\ tick'[t].age = tick[t].age /\ tick'[t].todo = tick[t].todo
  /\ tick'[t].attempt = tick[t].attempt

Passing(t) ==
  /\ tick[t].at \in AtWork \cup {"next"} /\ tick'[t].at = "next"
  /\ tick'[t].age = tick[t].age /\ tick'[t].todo = tick[t].todo \ {Current(t)}

LEMMA TickPath ==
  ASSUME Shape, NEW t \in Ticks, Start(t) \/ Sweep(t) \/ Crash(t)
  PROVE  /\ Gone(t) \/ Begun(t) \/ Listing(t) \/ Taking(t) \/ Working(t) \/ Passing(t)
         /\ Start(t) => Begun(t)
         /\ Claim(t) => Taking(t)
         /\ RecordFailure(t) => tick[t].at \in AtWork /\ Passing(t)
<1>1. TickOK(tick[t]) /\ TicksOK
  BY DEF Shape, TicksOK
<1>2. ASSUME NEW label, Goto(t, label)
      PROVE  /\ tick'[t].at = label /\ tick'[t].age = tick[t].age /\ tick'[t].todo = tick[t].todo
             /\ tick'[t].attempt = tick[t].attempt
  <2>1. PICK k : k = [tick[t] EXCEPT !.at = label]
    OBVIOUS
  <2>2. tick'[t] = k
    BY <1>1, <1>2, <2>1 DEF Goto, TicksOK
  <2> QED
    BY <1>1, <2>1, <2>2 DEF TickOK
<1>3. ASSUME NextRow(t)
      PROVE  /\ tick'[t].at = "next" /\ tick'[t].age = tick[t].age
             /\ tick'[t].todo = tick[t].todo \ {Current(t)}
  BY <1>1, <1>3 DEF NextRow, TicksOK, NoTick
<1>4. CASE Start(t)
  <2>1. Begun(t)
    BY <1>2, <1>4 DEF Start, At, Begun
  <2> QED
    BY <1>4, <2>1 DEF Start, Claim, RecordFailure, At
<1>5. CASE Select(t)
  <2>1. PICK taken \in SUBSET {d \in Emails : row[d].status \in Due /\ row[d].wait + tick[t].age <= 0} :
          tick' = [tick EXCEPT ![t].at = "next",
                               ![t].todo = {[email |-> d, attempts |-> row[d].attempts] : d \in taken}]
    BY <1>5 DEF Select
  <2>2. PICK todo : todo = {[email |-> d, attempts |-> row[d].attempts] : d \in taken}
    OBVIOUS
  <2>3. PICK k : k = [tick[t] EXCEPT !.at = "next", !.todo = todo]
    OBVIOUS
  <2>4. tick'[t] = k
    BY <1>1, <2>1, <2>2, <2>3 DEF TicksOK
  <2>5. tick'[t].at = "next" /\ tick'[t].age = tick[t].age /\ tick'[t].todo = todo
    BY <1>1, <2>3, <2>4 DEF TickOK
  <2>6. Listing(t)
    BY <2>2, <2>5 DEF Listing
  <2> QED
    BY <1>5, <2>6 DEF Select, Start, Claim, RecordFailure, At
<1>6. CASE Claim(t)
  <2>1. PICK attempt : attempt = Current(t).attempts + 1
    OBVIOUS
  <2>2. attempt \in Nat \ {0}
    BY <1>1, <1>6, <2>1, FirstRow DEF Claim, TickOK
  <2>3. PICK k : k = [tick[t] EXCEPT !.at = "check", !.attempt = attempt, !.warned = blocked]
    OBVIOUS
  <2>4. tick'[t] = k
    BY <1>1, <1>6, <2>1, <2>3 DEF Claim, TicksOK
  <2>5. Taking(t)
    BY <1>1, <1>6, <2>2, <2>3, <2>4 DEF TickOK, Taking
  <2> QED
    BY <1>6, <2>5 DEF Start, Claim, RecordFailure, At
<1>7. CASE ClaimLost(t) \/ Finish(t)
  <2>1. Passing(t) \/ Gone(t)
    BY <1>1, <1>3, <1>7 DEF ClaimLost, Finish, At, Passing, Gone, NoTick, TicksOK
  <2> QED
    BY <1>6, <1>7, <2>1 DEF ClaimLost, Finish, Start, RecordFailure, At
<1>8. CASE CheckEligibility(t)
  <2>1. tick[t].at = "check"
    BY <1>8 DEF CheckEligibility, At
  <2>2. CASE Goto(t, "log") \/ Goto(t, "send")
    BY <1>2, <2>1, <2>2 DEF Working, AtWork, Start, Claim, RecordFailure, At
  <2>3. CASE tick' = [tick EXCEPT ![t].at = "send", ![t].blind = TRUE]
    <3>1. PICK k : k = [tick[t] EXCEPT !.at = "send", !.blind = TRUE]
      OBVIOUS
    <3>2. tick'[t] = k
      BY <1>1, <2>3, <3>1 DEF TicksOK
    <3>3. Working(t)
      BY <1>1, <2>1, <3>1, <3>2 DEF TickOK, Working, AtWork
    <3> QED
      BY <2>1, <3>3 DEF Start, Claim, RecordFailure, At
  <2> QED
    BY <1>8, <2>2, <2>3 DEF CheckEligibility
<1>9. CASE Send(t) \/ SendFails(t)
  <2>1. tick[t].at \in {"check", "send"}
    BY <1>9 DEF Send, SendFails, At
  <2>2. PICK label \in {"sent", "failed"} : AfterSend(t, label)
    BY <1>9 DEF Send, SendFails
  <2>3. PICK k : k = [tick[t] EXCEPT !.at = label, !.warned = FALSE, !.blind = FALSE]
    OBVIOUS
  <2>4. tick'[t] = k
    BY <1>1, <2>2, <2>3 DEF AfterSend, TicksOK
  <2>5. Working(t)
    BY <1>1, <2>1, <2>3, <2>4 DEF TickOK, Working, AtWork
  <2> QED
    BY <2>1, <2>5 DEF Start, Claim, RecordFailure, At
<1>10. CASE RecordSent(t) \/ LogOutcome(t)
  <2>1. tick[t].at \in {"sent", "log"}
    BY <1>10 DEF RecordSent, LogOutcome, At
  <2>2. Goto(t, "log") \/ Goto(t, "failed") \/ NextRow(t)
    BY <1>10 DEF RecordSent, LogOutcome
  <2>3. Working(t) \/ Passing(t)
    BY <1>2, <1>3, <2>1, <2>2 DEF Working, Passing, AtWork
  <2> QED
    BY <2>1, <2>3 DEF Start, Claim, RecordFailure, At
<1>11. CASE RecordFailure(t)
  <2>1. tick[t].at = "failed" /\ NextRow(t)
    BY <1>11 DEF RecordFailure, At
  <2>2. Passing(t) /\ tick[t].at \in AtWork
    BY <1>3, <2>1 DEF Passing, AtWork
  <2> QED
    BY <2>1, <2>2 DEF Start, Claim, At
<1>12. CASE Crash(t)
  <2>1. Gone(t)
    BY <1>1, <1>12 DEF Crash, TicksOK, Gone, NoTick
  <2>2. CASE Start(t)
    BY <1>4, <2>2
  <2> QED
    BY <1>6, <1>11, <2>1, <2>2, <1>4
<1> QED
  BY <1>4, <1>5, <1>6, <1>7, <1>8, <1>9, <1>10, <1>11, <1>12 DEF Sweep

\* The others go on with what they had.
LEMMA OtherTickPath ==
  ASSUME Shape, Others, NEW t \in Ticks
  PROVE  /\ SameTick(t)
         /\ ~Pass => tick'[t].age = tick[t].age
         /\ Pass => tick'[t].age = IF tick[t].at = "idle" THEN tick[t].age ELSE tick[t].age + 1
<1>1. TickOK(tick[t]) /\ TicksOK
  BY DEF Shape, TicksOK
<1>2. SameTick(t)
  BY OtherTickSteps DEF SameTick
<1>3. CASE Pass
  <2>1. PICK age : age = tick[t].age + 1
    OBVIOUS
  <2>2. tick'[t] = IF tick[t].at = "idle" THEN tick[t] ELSE [tick[t] EXCEPT !.age = age]
    BY <1>3, <2>1 DEF Pass, At
  <2> QED
    BY <1>1, <1>2, <1>3, <2>1, <2>2 DEF TickOK
<1>4. CASE Unblock /\ ~Pass
  <2>1. tick'[t] = [tick[t] EXCEPT !.warned = FALSE]
    BY <1>4 DEF Unblock
  <2> QED
    BY <1>1, <1>2, <1>4, <2>1 DEF TickOK
<1>5. CASE ~Pass /\ ~Unblock
  <2>1. UNCHANGED tick
    <3>1. CASE \E d \in Emails : Enqueue(d) \/ \E kind \in Kinds : Emit(d, kind)
      BY <3>1 DEF Enqueue, Emit, sendVars
    <3>2. CASE \E r \in Requests : \/ \E e \in unacked : Unmatched(r, e) \/ Matched(r, e)
                                   \/ UpdateStatus(r) \/ Suppress(r) \/ Respond(r) \/ RequestFails(r)
      BY <3>2 DEF Unmatched, Matched, UpdateStatus, Suppress, Respond, RequestFails, sendVars
    <3> QED
      BY <1>5, <3>1, <3>2 DEF Others, Block, emailVars, sendVars
  <2> QED
    BY <1>2, <1>5, <2>1
<1> QED
  BY <1>3, <1>4, <1>5

-----------------------------------------------------------------------------
(***************************************************************************)
(* The whole type: ages, waits and events.                                 *)
(***************************************************************************)
RowTimed(d) ==
  /\ row[d].age \in 0..Lease /\ row[d].message \in BOOLEAN
  /\ row[d].wait \in Int /\ row[d].wait >= -TickTime
  /\ 2 * row[d].wait <= Lease * 2 ^ (MaxAttempts - 1)

\* A sweep that works on a row counts its attempt from one.
TickTimed(t) ==
  /\ tick[t].age \in 0..TickTime
  /\ tick[t].at \in AtWork => tick[t].attempt # 0

EventsOK ==
  /\ mailed \subseteq Emails /\ stopped \subseteq Emails /\ answered \subseteq Emails
  /\ emitted \subseteq Emails \X Kinds /\ unacked \subseteq emitted
  /\ faults \in 0..MaxFaults

TypeIInv ==
  /\ Shape /\ ListsOK /\ EventsOK
  /\ \A d \in Emails : RowTimed(d)
  /\ \A t \in Ticks : TickTimed(t)

LEMMA TypedStart == EmailInit => TypeIInv
<1> SUFFICES ASSUME EmailInit PROVE TypeIInv
  OBVIOUS
<1>1. Shape
  BY ShapeInit
<1>2. ListsOK /\ EventsOK
  BY TimesAssumption DEF EmailInit, ListsOK, EventsOK, NoTick
<1>3. \A t \in Ticks : TickTimed(t)
  BY TimesAssumption DEF EmailInit, TickTimed, NoTick, AtWork
<1>4. ASSUME NEW d \in Emails PROVE RowTimed(d)
  <2>1. row[d] = NoRow
    BY <1>4 DEF EmailInit
  <2>2. PICK y : y = 2 ^ (MaxAttempts - 1)
    OBVIOUS
  <2>3. MaxAttempts - 1 \in 0..MaxAttempts
    BY TimesAssumption
  <2>4. y \in Nat
    BY <2>2, <2>3, PowersAssumption
  <2>5. Lease * y >= 0
    BY <2>4, TimesAssumption, TimesGrows
  <2> QED
    BY <2>1, <2>2, <2>5, TimesAssumption DEF RowTimed, NoRow
<1> QED
  BY <1>1, <1>2, <1>3, <1>4 DEF TypeIInv

\* A wait of nothing is within the bounds.
LEMMA NoWait == 0 >= -TickTime /\ 2 * 0 <= Lease * 2 ^ (MaxAttempts - 1)
<1>1. PICK y : y = 2 ^ (MaxAttempts - 1)
  OBVIOUS
<1>2. MaxAttempts - 1 \in 0..MaxAttempts
  BY TimesAssumption
<1>3. y \in Nat
  BY <1>1, <1>2, PowersAssumption
<1>4. Lease * y >= 0
  BY <1>3, TimesAssumption, TimesGrows
<1> QED
  BY <1>1, <1>4, TimesAssumption

LEMMA RowTimedStep ==
  ASSUME TypeIInv, [EmailNext]_emailVars, NEW d \in Emails
  PROVE  RowTimed(d)'
<1>1. Shape /\ RowTimed(d) /\ \A t \in Ticks : TickTimed(t) /\ TickOK(tick[t])
  BY DEF TypeIInv, Shape, TicksOK
<1>2. ASSUME Message(d), row'[d].age \in 0..Lease, row'[d].wait \in Int,
             row'[d].wait >= -TickTime, 2 * row'[d].wait <= Lease * 2 ^ (MaxAttempts - 1)
      PROVE  RowTimed(d)'
  BY <1>1, <1>2 DEF RowTimed, Message
<1>3. ASSUME Kept(d), Message(d) PROVE RowTimed(d)'
  BY <1>1, <1>3 DEF RowTimed, Kept, Message
<1>4. ASSUME row'[d].age = 0, row'[d].wait = 0, Message(d) PROVE RowTimed(d)'
  BY <1>2, <1>4, NoWait, TimesAssumption
<1>5. ASSUME NEW t \in Ticks, Taken(t, d), Message(d) PROVE RowTimed(d)'
  <2>1. AtMost(tick[t].age, Lease) \in 0..Lease
    BY <1>1, TimesAssumption DEF AtMost, TickTimed
  <2> QED
    BY <1>2, <1>5, <2>1, NoWait DEF Taken, Stamped
<1>6. ASSUME NEW t \in Ticks, PutOff(t, d), Message(d) PROVE RowTimed(d)'
  <2>1. tick[t].attempt \in Nat \ {0}
    BY <1>1, <1>6 DEF PutOff, RecordFailure, At, AtWork, TickTimed, TickOK
  <2>2. PICK wait : wait = Backoff(tick[t].attempt)
    OBVIOUS
  <2>3. wait \in Nat /\ 2 * wait <= Lease * 2 ^ (MaxAttempts - 1)
    BY <1>6, <2>1, <2>2, BackoffBounds DEF PutOff
  <2>4. row'[d].wait = wait /\ row'[d].age = 0
    BY <1>6, <2>2 DEF PutOff, Stamped
  <2> QED
    BY <1>2, <1>6, <2>3, <2>4, TimesAssumption
<1>7. CASE Pass
  <2>1. /\ row'[d].message = row[d].message
        /\ row'[d].age = IF row[d].status = "sending" THEN AtMost(row[d].age + 1, Lease) ELSE row[d].age
        /\ row'[d].wait = IF row[d].status \in Due THEN AtLeast(row[d].wait - 1, -TickTime)
                                                  ELSE row[d].wait
    BY <1>1, <1>7, PassRow
  <2>2. row'[d].age \in 0..Lease
    BY <1>1, <2>1, TimesAssumption DEF RowTimed, AtMost
  <2>3. PICK bound : bound = Lease * 2 ^ (MaxAttempts - 1)
    OBVIOUS
  <2>4. bound \in Int
    <3>1. MaxAttempts - 1 \in 0..MaxAttempts
      BY TimesAssumption
    <3>2. 2 ^ (MaxAttempts - 1) \in Nat
      BY <3>1, PowersAssumption
    <3> QED
      BY <2>3, <3>2, TimesAssumption, TimesGrows
  <2>5. row[d].wait \in Int /\ row[d].wait >= -TickTime /\ 2 * row[d].wait <= bound /\ 0 <= bound
    BY <1>1, <2>3, NoWait DEF RowTimed
  <2>6. row'[d].wait \in Int /\ row'[d].wait >= -TickTime /\ 2 * row'[d].wait <= bound
    BY <2>1, <2>4, <2>5, TimesAssumption DEF AtLeast
  <2> QED
    BY <1>2, <2>1, <2>2, <2>3, <2>6 DEF Message
<1>8. CASE Others /\ ~Pass
  BY <1>1, <1>3, <1>4, <1>8, OtherRowPath DEF Stamped
<1>9. ASSUME NEW t \in Ticks, Start(t) \/ Sweep(t) \/ Crash(t) PROVE RowTimed(d)'
  BY <1>1, <1>3, <1>4, <1>5, <1>6, <1>9, SweepRowPath DEF Stamped, TakenBack
<1> QED
  BY <1>7, <1>8, <1>9, StepCases

LEMMA TickTimedStep ==
  ASSUME TypeIInv, [EmailNext]_emailVars, NEW t \in Ticks
  PROVE  TickTimed(t)'
<1>1. Shape /\ TickTimed(t) /\ TickOK(tick[t])
  BY DEF TypeIInv, Shape, TicksOK
<1>2. CASE Others
  <2>1. Pass => tick[t].at = "idle" \/ tick[t].age < TickTime
    BY DEF Pass, At
  <2> QED
    BY <1>1, <1>2, <2>1, OtherTickPath, TimesAssumption DEF SameTick, TickTimed
<1>3. ASSUME NEW u \in Ticks, Start(u) \/ Sweep(u) \/ Crash(u) PROVE TickTimed(t)'
  <2>1. CASE u # t
    BY <1>1, <1>3, <2>1, TickSteps DEF TickTimed
  <2>2. CASE u = t
    BY <1>1, <1>3, <2>2, TickPath, TimesAssumption
    DEF TickTimed, Gone, Begun, Listing, Taking, Working, Passing, AtWork
  <2> QED
    BY <2>1, <2>2
<1> QED
  BY <1>2, <1>3, StepCases

\* A row that is there stays there.
LEMMA RowsStay ==
  ASSUME Shape, [EmailNext]_emailVars, NEW d \in Emails, row[d].status # "none"
  PROVE  row'[d].status # "none"
<1>1. CASE Pass
  BY <1>1, PassRow
<1>2. CASE Others /\ ~Pass
  BY <1>2, OtherRowPath DEF Kept, Settled
<1>3. ASSUME NEW t \in Ticks, Start(t) \/ Sweep(t) \/ Crash(t) PROVE row'[d].status # "none"
  BY <1>3, SweepRowPath DEF Kept, Settled, TakenBack, Taken, PutOff, Stamped
<1> QED
  BY <1>1, <1>2, <1>3, StepCases

ListOK(t) ==
  /\ tick[t].at = "idle" => tick[t].age = 0
  /\ tick[t].at \in {"idle", "select"} => tick[t].todo = {}
  /\ \A s, o \in tick[t].todo : s.email = o.email => s = o
  /\ \A s \in tick[t].todo : row[s.email].status # "none"

LEMMA ListsStep ==
  ASSUME TypeIInv, [EmailNext]_emailVars
  PROVE  ListsOK'
<1>1. Shape /\ \A t \in Ticks : ListOK(t) /\ TickOK(tick[t])
  BY DEF TypeIInv, Shape, TicksOK, ListsOK, ListOK
<1>2. \A d \in Emails : row[d].status # "none" => row'[d].status # "none"
  BY <1>1, RowsStay
<1>3. ASSUME NEW t \in Ticks, tick'[t].todo \subseteq tick[t].todo,
             tick'[t].at = "idle" => tick'[t].age = 0,
             tick'[t].at \in {"idle", "select"} => tick'[t].todo = {}
      PROVE  ListOK(t)'
  BY <1>1, <1>2, <1>3 DEF ListOK, TickOK
<1>4. CASE Others
  BY <1>1, <1>3, <1>4, OtherTickPath DEF SameTick, ListOK, ListsOK
<1>5. ASSUME NEW t \in Ticks, Start(t) \/ Sweep(t) \/ Crash(t) PROVE ListsOK'
  <2>1. ASSUME NEW u \in Ticks \ {t} PROVE ListOK(u)'
    <3>1. tick'[u] = tick[u]
      BY <1>1, <1>5, TickSteps
    <3> QED
      BY <1>1, <1>3, <3>1 DEF ListOK
  <2>2. CASE Listing(t)
    <3>1. tick'[t].todo \subseteq [email : Emails, attempts : Nat]
      BY <1>1, <1>5, TickSteps DEF Moved, TickOK
    <3>2. \A s, o \in tick'[t].todo : s.email = o.email => s = o
      BY <2>2 DEF Listing
    <3>3. \A s \in tick'[t].todo : row'[s.email].status # "none"
      BY <1>2, <2>2, <3>1 DEF Listing, Due
    <3> QED
      BY <2>1, <2>2, <3>2, <3>3 DEF Listing, ListsOK, ListOK
  <2>3. CASE ~Listing(t)
    <3>1. Gone(t) \/ Begun(t) \/ Taking(t) \/ Working(t) \/ Passing(t)
      BY <1>1, <1>5, <2>3, TickPath
    <3>2. ListOK(t)'
      BY <1>1, <1>3, <3>1 DEF ListOK, Gone, Begun, Taking, Working, Passing, AtWork
    <3> QED
      BY <2>1, <3>2 DEF ListsOK, ListOK
  <2> QED
    BY <2>2, <2>3
<1> QED
  BY <1>4, <1>5, StepCases

LEMMA FaultsCounted == [EmailNext]_emailVars => UNCHANGED faults \/ Fault
<1> SUFFICES ASSUME [EmailNext]_emailVars, ~NoFault PROVE Fault
  BY DEF NoFault
<1>1. CASE Others
  <2>1. ASSUME NEW d \in Emails, Enqueue(d) PROVE Fault
    BY <2>1 DEF Enqueue
  <2>2. ASSUME NEW r \in Requests, NEW e \in unacked, Unmatched(r, e) PROVE Fault
    BY <2>2 DEF Unmatched
  <2>3. ASSUME NEW r \in Requests, UpdateStatus(r) \/ RequestFails(r) PROVE Fault
    BY <2>3 DEF UpdateStatus, RequestFails
  <2> QED
    BY <1>1, <2>1, <2>2, <2>3 DEF Others, NoFault, Emit, Block, Unblock, Pass, Matched, Suppress, Respond,
       emailVars
<1>2. ASSUME NEW t \in Ticks, Start(t) \/ Sweep(t) \/ Crash(t) PROVE Fault
  BY <1>2 DEF NoFault, Start, Sweep, Select, Claim, ClaimLost, Finish, CheckEligibility, Send, SendFails,
     RecordSent, LogOutcome, RecordFailure, Crash
<1> QED
  BY <1>1, <1>2, StepCases

LEMMA EventsStep ==
  ASSUME TypeIInv, [EmailNext]_emailVars
  PROVE  EventsOK'
<1>1. EventsOK /\ Shape
  BY DEF TypeIInv
<1>2. faults' \in 0..MaxFaults
  BY <1>1, FaultsCounted, TimesAssumption DEF EventsOK, Fault
<1>3. ASSUME UNCHANGED <<mailed, stopped, answered, emitted, unacked>> PROVE EventsOK'
  BY <1>1, <1>2, <1>3 DEF EventsOK
<1>4. ASSUME NEW d \in Emails, NEW kind \in Kinds, Emit(d, kind) PROVE EventsOK'
  BY <1>1, <1>2, <1>4 DEF EventsOK, Emit, sendVars
<1>5. ASSUME NEW r \in Requests, NEW e \in unacked, Unmatched(r, e) \/ Matched(r, e) PROVE EventsOK'
  BY <1>1, <1>2, <1>5 DEF EventsOK, Unmatched, Matched, sendVars
<1>6. ASSUME NEW r \in Requests, UpdateStatus(r) \/ Suppress(r) \/ Respond(r) \/ RequestFails(r)
      PROVE  EventsOK'
  <2>1. req[r].event \in Emails \X Kinds /\ Subject(r) \in Emails
    BY <1>1, <1>6 DEF Shape, UpdateStatus, Suppress, Respond, RequestFails, Subject
  <2> QED
    BY <1>1, <1>2, <1>6, <2>1 DEF EventsOK, UpdateStatus, Suppress, Respond, RequestFails, sendVars
<1>7. CASE Others
  <2>1. ASSUME NEW d \in Emails, Enqueue(d) PROVE EventsOK'
    BY <1>3, <2>1 DEF Enqueue, sendVars, eventVars
  <2> QED
    BY <1>3, <1>4, <1>5, <1>6, <1>7, <2>1 DEF Others, Block, Unblock, Pass, emailVars, sendVars, eventVars
<1>8. ASSUME NEW t \in Ticks, Start(t) \/ Sweep(t) \/ Crash(t) PROVE EventsOK'
  <2>1. UNCHANGED eventVars
    BY <1>8 DEF Start, Sweep, Select, Claim, ClaimLost, Finish, CheckEligibility, Send, SendFails,
       RecordSent, LogOutcome, RecordFailure, Crash
  <2>2. mailed' \subseteq mailed \cup {Email(t)}
    BY <1>8 DEF Start, Sweep, Select, Claim, ClaimLost, Finish, CheckEligibility, Send, SendFails,
       RecordSent, LogOutcome, RecordFailure, Crash
  <2>3. UNCHANGED mailed \/ Email(t) \in Emails
    <3>1. CASE Send(t) \/ SendFails(t)
      BY <1>1, <3>1, FirstRow DEF Shape, Send, SendFails, At, AtWork
    <3>2. CASE ~Send(t) /\ ~SendFails(t)
      BY <1>8, <3>2 DEF Start, Sweep, Select, Claim, ClaimLost, Finish, CheckEligibility,
         RecordSent, LogOutcome, RecordFailure, Crash
    <3> QED
      BY <3>1, <3>2
  <2> QED
    BY <1>1, <1>2, <2>1, <2>2, <2>3 DEF EventsOK, eventVars
<1> QED
  BY <1>7, <1>8, StepCases

LEMMA TypeInvariant == EmailSpec => []TypeIInv
<1>1. TypeIInv /\ [EmailNext]_emailVars => TypeIInv'
  <2> SUFFICES ASSUME TypeIInv, [EmailNext]_emailVars PROVE TypeIInv'
    OBVIOUS
  <2>1. Shape'
    BY ShapeStep DEF TypeIInv
  <2>2. \A d \in Emails : RowTimed(d)'
    BY RowTimedStep
  <2>3. \A t \in Ticks : TickTimed(t)'
    BY TickTimedStep
  <2> QED
    BY <2>1, <2>2, <2>3, ListsStep, EventsStep DEF TypeIInv
<1> QED
  BY <1>1, TypedStart, PTL DEF EmailSpec

(***************************************************************************)
(* Every state is well-typed, for any emails, sweeps, requests and limits: *)
(* no backoff is longer than the last attempt's, whatever sweeps that      *)
(* overlap and die leave in attempts.                                      *)
(***************************************************************************)
THEOREM EmailTypeCorrect == EmailSpec => []EmailTypeOK
<1>1. TypeIInv => EmailTypeOK
  <2> SUFFICES ASSUME TypeIInv PROVE EmailTypeOK
    OBVIOUS
  <2>1. Shape /\ EventsOK
    BY DEF TypeIInv
  <2>2. ASSUME NEW d \in Emails
        PROVE  /\ row[d].status \in {"none", "sending"} \cup Due \cup Settled
               /\ row[d].attempts \in Nat /\ row[d].age \in 0..Lease /\ row[d].message \in BOOLEAN
               /\ row[d].wait >= -TickTime /\ 2 * row[d].wait <= Lease * 2 ^ (MaxAttempts - 1)
    BY <2>1 DEF Shape, RowsOK, RowOK, Statuses, TypeIInv, RowTimed
  <2>3. ASSUME NEW t \in Ticks
        PROVE  /\ tick[t].at \in {"idle", "select", "next", "check", "send", "sent", "log", "failed"}
               /\ tick[t].age \in 0..TickTime /\ tick[t].attempt \in Nat
               /\ tick[t].todo \subseteq [email : Emails, attempts : Nat]
    BY <2>1 DEF Shape, TicksOK, TickOK, TickLabels, AtWork, TypeIInv, TickTimed
  <2>4. \A r \in Requests : req[r].at \in {"idle", "update", "suppress", "respond"}
    BY <2>1 DEF Shape, ReqsOK, ReqOK
  <2> QED
    BY <2>1, <2>2, <2>3, <2>4 DEF EmailTypeOK, Shape, EventsOK
<1> QED
  BY <1>1, TypeInvariant, PTL

-----------------------------------------------------------------------------
(***************************************************************************)
(* The leases, while no third sweep begins beside two.  The row that a     *)
(* sweep works on comes back to the queue in two ways only: the other      *)
(* sweep takes it back as it begins, when the stamp, and so the first      *)
(* sweep, is a lease old; or a sweep that lost it puts it off, by a lease  *)
(* at least.  So a sweep that lists it afterwards began a lease later.     *)
(***************************************************************************)
LeaseIInv == TypeIInv /\ LeaseOK /\ ClaimsAreLeased

\* What LeaseOK says of one sweep and one row.
Leased(t, d) ==
  /\ row[d].status = "sending" => row[d].age <= tick[t].age
  /\ row[d].status \in Due => row[d].wait + tick[t].age >= Lease
  /\ \A u \in Ticks \ {t} : row[d].status \in Due /\ Listed(u, d) =>
       tick[t].age >= tick[u].age + Lease

Separated(t, u) == tick[t].age >= tick[u].age + Lease \/ tick[u].age >= tick[t].age + Lease

\* A sweep lists the row it works on, and one that lists a row has begun.
LEMMA WorksListed ==
  ASSUME TypeIInv, NEW t \in Ticks, NEW d \in Emails
  PROVE  /\ WorksOn(t, d) => Listed(t, d) /\ tick[t].at \in AtWork
         /\ Listed(t, d) => tick[t].at \notin {"idle", "select"}
<1>1. ASSUME WorksOn(t, d) PROVE Listed(t, d) /\ tick[t].at \in AtWork
  <2>1. tick[t].at \in AtWork /\ tick[t].todo # {} /\ Email(t) = d
    BY <1>1 DEF WorksOn, AtWork, TypeIInv, Shape
  <2> QED
    BY <2>1, FirstRow DEF Listed, TypeIInv, Email
<1>2. Listed(t, d) => tick[t].at \notin {"idle", "select"}
  BY DEF TypeIInv, ListsOK, Listed
<1> QED
  BY <1>1, <1>2

\* The ages of sweeps, and the times of rows, are numbers.
LEMMA Numbers ==
  ASSUME TypeIInv
  PROVE  /\ \A t \in Ticks : tick[t].age \in Nat
         /\ \A d \in Emails : row[d].age \in Nat /\ row[d].wait \in Int
         /\ Lease \in Nat \ {0}
BY TimesAssumption DEF TypeIInv, TickTimed, RowTimed

\* The row is the same, to the eyes of the sweeps.
LEMMA SameWork ==
  ASSUME NEW t \in Ticks, NEW d \in Emails, tick'[t].todo = tick[t].todo
  PROVE  /\ Listed(t, d)' = Listed(t, d)
         /\ tick[t].at \in AtWork => (WorksOn(t, d)' => WorksOn(t, d))
BY SameList DEF Listed, WorksOn, AtWork

LEMMA LeaseStart == EmailInit => LeaseIInv
<1> SUFFICES ASSUME EmailInit PROVE LeaseIInv
  OBVIOUS
<1>1. \A t \in Ticks : tick[t].at = "idle"
  BY DEF EmailInit, NoTick
<1> QED
  BY <1>1, TypedStart DEF LeaseIInv, LeaseOK, ClaimsAreLeased, WorksOn

\* Steps outside the sweeps, and time.
LEMMA LeaseOthers ==
  ASSUME LeaseIInv, Others, NEW t \in Ticks, NEW d \in Emails, WorksOn(t, d)'
  PROVE  /\ Leased(t, d)'
         /\ \A u \in Ticks : t # u /\ WorksOn(u, d)' => Separated(t, u)'
<1>1. TypeIInv /\ Shape
  BY DEF LeaseIInv, TypeIInv
<1>2. ASSUME NEW u \in Ticks
      PROVE  /\ tick'[u].at = tick[u].at /\ tick'[u].todo = tick[u].todo
             /\ WorksOn(u, d)' = WorksOn(u, d) /\ Listed(u, d)' = Listed(u, d)
  BY <1>1, OtherTickPath, SameList DEF SameTick, WorksOn, Listed
<1>3. ASSUME NEW u \in Ticks, tick[u].at # "idle"
      PROVE  IF Pass THEN tick'[u].age = tick[u].age + 1 ELSE tick'[u].age = tick[u].age
  BY <1>1, <1>3, OtherTickPath
<1>4. WorksOn(t, d) /\ Leased(t, d) /\ tick[t].at # "idle" /\ Listed(t, d)
  BY <1>1, <1>2, WorksListed DEF LeaseIInv, LeaseOK, Leased, AtWork
<1>5. \A u \in Ticks : t # u /\ WorksOn(u, d)' => Separated(t, u)'
  BY <1>1, <1>2, <1>3, <1>4, WorksListed, Numbers DEF LeaseIInv, ClaimsAreLeased, Separated, AtWork
<1>6. CASE Pass
  <2>1. /\ row'[d].status = row[d].status
        /\ row'[d].age = IF row[d].status = "sending" THEN AtMost(row[d].age + 1, Lease) ELSE row[d].age
        /\ row'[d].wait = IF row[d].status \in Due THEN AtLeast(row[d].wait - 1, -TickTime)
                                                  ELSE row[d].wait
    BY <1>1, <1>6, PassRow
  <2>2. tick'[t].age = tick[t].age + 1
    BY <1>3, <1>4, <1>6
  <2>3. row'[d].status = "sending" => row'[d].age <= tick'[t].age
    BY <1>1, <1>4, <2>1, <2>2, Numbers DEF Leased, AtMost
  <2>4. row'[d].status \in Due => row'[d].wait + tick'[t].age >= Lease
    BY <1>1, <1>4, <2>1, <2>2, Numbers, TimesAssumption DEF Leased, AtLeast
  <2>5. ASSUME NEW u \in Ticks \ {t}, row'[d].status \in Due, Listed(u, d)'
        PROVE  tick'[t].age >= tick'[u].age + Lease
    <3>1. Listed(u, d) /\ tick[u].at # "idle"
      BY <1>1, <1>2, <2>5, WorksListed
    <3>2. tick'[u].age = tick[u].age + 1
      BY <1>3, <1>6, <3>1
    <3> QED
      BY <1>1, <1>4, <2>1, <2>2, <2>5, <3>1, <3>2, Numbers DEF Leased
  <2> QED
    BY <1>5, <2>3, <2>4, <2>5 DEF Leased
<1>7. CASE ~Pass
  <2>1. row[d].status # "none"
    BY <1>1, <1>4 DEF Listed, TypeIInv, ListsOK
  <2>2. Kept(d) \/ row'[d].status \in Settled
    BY <1>1, <1>7, <2>1, OtherRowPath
  <2>3. Settled \cap (Due \cup {"sending"}) = {}
    BY DEF Settled, Due
  <2>4. \A u \in Ticks : tick[u].at # "idle" => tick'[u].age = tick[u].age
    BY <1>3, <1>7
  <2>5. CASE row'[d].status \in Settled
    BY <1>5, <2>3, <2>5 DEF Leased
  <2>6. CASE Kept(d)
    BY <1>1, <1>2, <1>4, <1>5, <2>4, <2>6, WorksListed DEF Leased, Kept
  <2> QED
    BY <2>2, <2>5, <2>6
<1> QED
  BY <1>6, <1>7

\* What a step of one sweep leaves the other sweeps.
LEMMA RestOfSweeps ==
  ASSUME TypeIInv, NEW t \in Ticks, Start(t) \/ Sweep(t) \/ Crash(t), NEW u \in Ticks \ {t}, NEW d \in Emails
  PROVE  /\ tick'[u] = tick[u]
         /\ Listed(u, d)' => Listed(u, d) /\ tick[u].at # "idle"
         /\ WorksOn(u, d)' => WorksOn(u, d) /\ tick[u].at # "idle"
<1>1. tick'[u] = tick[u]
  BY TickSteps DEF TypeIInv
<1>2. Listed(u, d)' => Listed(u, d)
  BY <1>1 DEF Listed
<1>3. WorksOn(u, d)' => WorksOn(u, d)
  <2>1. Email(u)' = Email(u)
    BY <1>1, SameList
  <2> QED
    BY <1>1, <2>1 DEF WorksOn
<1> QED
  BY <1>1, <1>2, <1>3, WorksListed DEF AtWork

\* A sweep that works or claims does so on the first row of its list.
LEMMA FirstListed ==
  ASSUME TypeIInv, NEW t \in Ticks, Claim(t) \/ RecordFailure(t)
  PROVE  Listed(t, Email(t)) /\ Current(t) \in tick[t].todo
<1>1. tick[t].todo # {}
  BY DEF Claim, RecordFailure, At, AtWork, TypeIInv, Shape
<1>2. Current(t) \in tick[t].todo
  BY <1>1, FirstRow DEF TypeIInv
<1> QED
  BY <1>2 DEF Listed, Email

\* Another sweep steps.
LEMMA LeaseOther ==
  ASSUME LeaseIInv, TwoSweeps, TwoSweeps', NEW t \in Ticks, Start(t) \/ Sweep(t) \/ Crash(t),
         NEW w \in Ticks \ {t}, NEW d \in Emails, WorksOn(w, d)'
  PROVE  Leased(w, d)'
<1>1. TypeIInv /\ Shape
  BY DEF LeaseIInv, TypeIInv
<1>2. /\ tick'[w] = tick[w] /\ tick[w].at # "idle"
      /\ WorksOn(w, d) /\ Leased(w, d)
  BY <1>1, RestOfSweeps DEF LeaseIInv, LeaseOK, Leased
<1>3. /\ \A u \in Ticks : tick[u].age \in Nat
      /\ row[d].age \in Nat /\ row[d].wait \in Int /\ Lease \in Nat \ {0}
  BY <1>1, Numbers
<1>4. \A u \in Ticks \ {t} : tick'[u] = tick[u] /\ (Listed(u, d)' => Listed(u, d) /\ tick[u].at # "idle")
  BY <1>1, RestOfSweeps
<1>5. \/ Kept(d) \/ row'[d].status \in Settled
      \/ TakenBack(t, d) \/ Taken(t, d) \/ PutOff(t, d)
  BY <1>1, SweepRowPath
<1>6. Settled \cap (Due \cup {"sending"}) = {} /\ "sending" \notin Due
  BY DEF Settled, Due
<1>7. CASE Kept(d)
  <2>1. row'[d].status = row[d].status /\ row'[d].age = row[d].age /\ row'[d].wait = row[d].wait
    BY <1>7 DEF Kept
  <2>2. ASSUME row[d].status \in Due, Listed(t, d)'
        PROVE  tick[w].age >= tick'[t].age + Lease
    <3>1. PICK s \in tick'[t].todo : s.email = d
      BY <2>2 DEF Listed
    <3>2. CASE Listing(t)
      <4>1. row[d].wait + tick[t].age <= 0 /\ tick'[t].age = tick[t].age
        BY <3>1, <3>2 DEF Listing
      <4> QED
        BY <1>2, <1>3, <2>2, <4>1 DEF Leased
    <3>3. CASE Taking(t) \/ Working(t) \/ Passing(t) \/ Begun(t)
      <4>1. s \in tick[t].todo /\ tick'[t].age = tick[t].age
        BY <3>1, <3>3 DEF Taking, Working, Passing, Begun
      <4>2. Listed(t, d)
        BY <3>1, <4>1 DEF Listed
      <4> QED
        BY <1>2, <2>2, <4>1, <4>2 DEF Leased
    <3>4. ~Gone(t)
      BY <3>1 DEF Gone
    <3> QED
      BY <1>1, <3>2, <3>3, <3>4, TickPath
  <2>3. ASSUME NEW u \in Ticks \ {w}, row'[d].status \in Due, Listed(u, d)'
        PROVE  tick'[w].age >= tick'[u].age + Lease
    <3>1. CASE u = t
      BY <1>2, <2>1, <2>2, <2>3, <3>1
    <3>2. CASE u # t
      BY <1>2, <1>4, <2>1, <2>3, <3>2 DEF Leased
    <3> QED
      BY <3>1, <3>2
  <2> QED
    BY <1>2, <2>1, <2>3 DEF Leased
<1>8. CASE row'[d].status \in Settled
  BY <1>6, <1>8 DEF Leased
<1>9. CASE TakenBack(t, d)
  <2>1. row[d].status = "sending" /\ row[d].age >= Lease /\ row'[d].status = "retrying" /\ row'[d].wait = 0
    BY <1>9 DEF TakenBack, LeaseExpired, Stamped
  <2>2. tick'[t].at = "select" /\ tick'[t].todo = {}
    BY <1>1, <1>9, TickPath DEF TakenBack, Begun, TypeIInv, ListsOK
  <2>3. ASSUME NEW u \in Ticks \ {w}, Listed(u, d)' PROVE FALSE
    <3>1. CASE u = t
      BY <2>2, <2>3, <3>1 DEF Listed
    <3>2. CASE u # t
      <4>1. tick'[u].at # "idle" /\ tick'[w].at # "idle" /\ tick'[t].at # "idle"
        BY <1>2, <1>4, <2>2, <2>3, <3>2
      <4> QED
        BY <3>2, <4>1 DEF TwoSweeps
    <3> QED
      BY <3>1, <3>2
  <2> QED
    BY <1>2, <1>3, <2>1, <2>3 DEF Leased
<1>10. CASE Taken(t, d)
  <2>1. row[d].status \in Due /\ Listed(t, d)
    BY <1>1, <1>10, FirstListed DEF Taken, Claim, Claimable
  <2>2. tick[w].age >= tick[t].age + Lease
    BY <1>2, <2>1 DEF Leased
  <2>3. row'[d].status = "sending" /\ row'[d].age = AtMost(tick[t].age, Lease)
    BY <1>10 DEF Taken, Stamped
  <2> QED
    BY <1>2, <1>3, <1>6, <2>2, <2>3 DEF Leased, AtMost
<1>11. CASE PutOff(t, d)
  <2>1. /\ tick[t].at \in AtWork /\ Passing(t) /\ ~Terminal(tick[t].attempt)
        /\ row'[d].status = "retrying" /\ row'[d].wait = Backoff(tick[t].attempt)
    BY <1>1, <1>11, TickPath DEF PutOff, Stamped
  <2>2. tick[t].attempt \in Nat \ {0}
    BY <1>1, <2>1 DEF TypeIInv, TickTimed, Shape, TicksOK, TickOK
  <2>3. row'[d].wait \in Nat /\ row'[d].wait >= Lease
    BY <2>1, <2>2, BackoffBounds
  <2>4. ASSUME NEW u \in Ticks \ {w}, Listed(u, d)' PROVE FALSE
    <3>1. CASE u = t
      <4>1. PICK s \in tick'[t].todo : s.email = d
        BY <2>4, <3>1 DEF Listed
      <4>2. s \in tick[t].todo /\ s # Current(t)
        BY <2>1, <4>1 DEF Passing
      <4>3. Current(t) \in tick[t].todo /\ Current(t).email = d
        BY <1>1, <1>11, FirstListed DEF PutOff, Email
      <4> QED
        BY <1>1, <4>1, <4>2, <4>3 DEF TypeIInv, ListsOK
    <3>2. CASE u # t
      <4>1. tick[u].at # "idle" /\ tick[w].at # "idle" /\ tick[t].at # "idle"
        BY <1>2, <1>4, <2>1, <2>4, <3>2 DEF AtWork
      <4> QED
        BY <3>2, <4>1 DEF TwoSweeps
    <3> QED
      BY <3>1, <3>2
  <2> QED
    BY <1>2, <1>3, <2>1, <2>3, <2>4 DEF Leased
<1> QED
  BY <1>5, <1>7, <1>8, <1>9, <1>10, <1>11

\* The sweep that steps.
LEMMA LeaseOwn ==
  ASSUME LeaseIInv, NEW t \in Ticks, Start(t) \/ Sweep(t) \/ Crash(t),
         NEW d \in Emails, WorksOn(t, d)'
  PROVE  /\ Leased(t, d)'
         /\ \A u \in Ticks : t # u /\ WorksOn(u, d)' => Separated(t, u)'
<1>1. TypeIInv /\ Shape
  BY DEF LeaseIInv, TypeIInv
<1>2. tick'[t].at \in AtWork /\ Email(t)' = d
  BY DEF WorksOn, AtWork
<1>3. \A u \in Ticks \ {t} : /\ tick'[u] = tick[u] /\ (Listed(u, d)' => Listed(u, d))
                             /\ WorksOn(u, d)' => WorksOn(u, d)
  BY <1>1, RestOfSweeps
<1>4. /\ \A u \in Ticks : tick[u].age \in Nat
      /\ Lease \in Nat \ {0}
  BY <1>1, Numbers
<1>5. Taking(t) \/ Working(t)
  BY <1>1, <1>2, TickPath DEF Gone, Begun, Listing, Passing, AtWork
<1>6. tick'[t].age = tick[t].age /\ Email(t) = d
  BY <1>2, <1>5, SameList DEF Taking, Working
<1>7. \/ Kept(d) \/ row'[d].status \in Settled
      \/ TakenBack(t, d) \/ Taken(t, d) \/ PutOff(t, d)
  BY <1>1, SweepRowPath
<1>8. ~TakenBack(t, d) /\ ~PutOff(t, d)
  BY <1>1, <1>2, TickPath DEF TakenBack, PutOff, Begun, Passing, AtWork
<1>9. Settled \cap (Due \cup {"sending"}) = {} /\ "sending" \notin Due
  BY DEF Settled, Due
<1>10. CASE Taking(t)
  <2>1. Claim(t) /\ row[d].status \in Due /\ Listed(t, d)
    BY <1>1, <1>6, <1>10, FirstListed DEF Taking, Claim, Claimable
  <2>2. row'[d].status = "sending"
    BY <1>1, <1>6, <2>1, ClaimedRow
  <2>3. Taken(t, d)
    BY <1>7, <1>8, <1>9, <2>1, <2>2 DEF Kept
  <2>4. row'[d].age <= tick[t].age
    BY <1>4, <2>3 DEF Taken, Stamped, AtMost
  <2>5. \A u \in Ticks : t # u /\ WorksOn(u, d)' => tick[u].age >= tick[t].age + Lease
    BY <1>1, <1>3, <2>1 DEF LeaseIInv, LeaseOK
  <2>6. Leased(t, d)'
    BY <1>6, <1>9, <2>2, <2>4 DEF Leased
  <2> QED
    BY <1>3, <1>6, <2>5, <2>6 DEF Separated
<1>11. CASE Working(t)
  <2>1. WorksOn(t, d) /\ ~Claim(t)
    BY <1>6, <1>11 DEF Working, WorksOn, AtWork, Claim, At
  <2>2. Leased(t, d) /\ \A u \in Ticks : t # u /\ WorksOn(u, d) => Separated(t, u)
    BY <2>1 DEF LeaseIInv, LeaseOK, Leased, ClaimsAreLeased, Separated
  <2>3. Kept(d) \/ row'[d].status \in Settled
    BY <1>7, <1>8, <2>1 DEF Taken
  <2>4. Leased(t, d)'
    BY <1>3, <1>6, <1>9, <2>2, <2>3 DEF Leased, Kept
  <2> QED
    BY <1>3, <1>6, <2>2, <2>4 DEF Separated
<1> QED
  BY <1>5, <1>10, <1>11

LEMMA LeaseSteps ==
  ASSUME LeaseIInv, TwoSweeps, TwoSweeps', [EmailNext]_emailVars
  PROVE  LeaseOK' /\ ClaimsAreLeased'
<1>1. TypeIInv /\ Shape
  BY DEF LeaseIInv, TypeIInv
<1> SUFFICES ASSUME NEW x \in Ticks, NEW d \in Emails, WorksOn(x, d)'
             PROVE  /\ Leased(x, d)'
                    /\ \A y \in Ticks : x # y /\ WorksOn(y, d)' => Separated(x, y)'
  BY DEF LeaseOK, ClaimsAreLeased, Leased, Separated
<1>2. CASE Others
  BY <1>2, LeaseOthers
<1>3. ASSUME NEW t \in Ticks, Start(t) \/ Sweep(t) \/ Crash(t)
      PROVE  /\ Leased(x, d)'
             /\ \A y \in Ticks : x # y /\ WorksOn(y, d)' => Separated(x, y)'
  <2>1. CASE x = t
    BY <1>3, <2>1, LeaseOwn
  <2>2. CASE x # t
    <3>1. Leased(x, d)'
      BY <1>3, <2>2, LeaseOther
    <3>2. ASSUME NEW y \in Ticks, x # y, WorksOn(y, d)' PROVE Separated(x, y)'
      <4>1. CASE y = t
        <5>1. Separated(y, x)'
          BY <1>3, <3>2, <4>1, LeaseOwn
        <5> QED
          BY <5>1 DEF Separated
      <4>2. CASE y # t
        <5>1. /\ WorksOn(x, d) /\ WorksOn(y, d)
              /\ tick'[x] = tick[x] /\ tick'[y] = tick[y]
          BY <1>1, <1>3, <2>2, <3>2, <4>2, RestOfSweeps
        <5> QED
          BY <3>2, <5>1 DEF LeaseIInv, ClaimsAreLeased, Separated
      <4> QED
        BY <4>1, <4>2
    <3> QED
      BY <3>1, <3>2
  <2> QED
    BY <2>1, <2>2
<1> QED
  BY <1>2, <1>3, StepCases

(***************************************************************************)
(* Any number of sweeps, of which two at most run at one time, both work   *)
(* on a row only when one began a lease before the other, however many die *)
(* and whatever each still writes to a row it has lost: about the          *)
(* compare-and-set, the stamp, which is the sweep's beginning and not the  *)
(* moment of the claim, and a backoff that is never shorter than a lease.  *)
(***************************************************************************)
THEOREM ClaimsAreAlwaysLeased == EmailSpec /\ []TwoSweeps => []ClaimsAreLeased
<1>1. LeaseIInv /\ TypeIInv' /\ TwoSweeps /\ TwoSweeps' /\ [EmailNext]_emailVars => LeaseIInv'
  <2> SUFFICES ASSUME LeaseIInv, TypeIInv', TwoSweeps, TwoSweeps', [EmailNext]_emailVars
               PROVE  LeaseIInv'
    OBVIOUS
  <2> QED
    BY LeaseSteps DEF LeaseIInv
<1>2. LeaseIInv => ClaimsAreLeased
  BY DEF LeaseIInv
<1> QED
  BY <1>1, <1>2, LeaseStart, TypeInvariant, PTL DEF EmailSpec

=============================================================================
