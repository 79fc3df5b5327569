--------------------------- MODULE LifecycleEmail ---------------------------
(***************************************************************************)
(* The outbox of lifecycle emails (lib/server/lifecycle-email.ts): the     *)
(* rows for one recipient, the sweeps of the cron handler that claim and   *)
(* send them, and the provider's events about what was sent.               *)
(*                                                                         *)
(* Two sweeps may run at one time and die between two calls; events come   *)
(* late, twice, in any order.  Bounces and complaints, which the code      *)
(* treats alike, are both "bounced".  Timestamps are kept relative to now, *)
(* in units of time: a sweep and a row that is being sent have an age, a   *)
(* row that is to be sent has a wait, which is negative once it is due.    *)
(***************************************************************************)
EXTENDS Integers, FiniteSets

CONSTANTS
  Emails,       \* rows, numbered in the order of created_at
  Ticks,        \* sweeps that run at one time
  Requests,     \* event requests handled at one time
  MaxAttempts,  \* max_attempts of a row
  Lease,        \* five minutes: the lease, and the first backoff
  TickTime,     \* how long a sweep lives at most
  BatchLimit,   \* rows a sweep selects
  MaxFaults     \* bound: calls and invocations that fail

ASSUME EmailsAssumption == Emails \subseteq Nat /\ IsFiniteSet(Emails)
ASSUME TimesAssumption ==
  /\ MaxAttempts \in Nat \ {0} /\ Lease \in Nat \ {0} /\ BatchLimit \in Nat \ {0}
  /\ TickTime \in Nat /\ MaxFaults \in Nat
ASSUME PowersAssumption ==      \* what the proofs use of ^, which no prover knows
  \A n \in 0..MaxAttempts : 2 ^ n \in Nat \ {0} /\ 2 ^ (n + 1) = 2 * 2 ^ n

VARIABLES
  row,       \* the rows; a row of status "none" is not there yet
  blocked,   \* the recipient is suppressed or opted out, or the template is off
  mailed,    \* emails the provider accepted, each under its idempotency key
  emitted,   \* events the provider has made
  unacked,   \* events it has not had a 200 for
  stopped,   \* emails whose bounce suppressed the recipient
  answered,  \* emails whose bounce was answered as reconciled
  claims,    \* how often each row was claimed
  tick,      \* what each sweep is doing
  req,       \* what each event request is doing
  faults

emailVars == <<row, blocked, mailed, emitted, unacked, stopped, answered, claims,
               tick, req, faults>>
eventVars == <<emitted, unacked, stopped, answered, req>>
sendVars == <<mailed, claims, tick>>

-----------------------------------------------------------------------------
Kinds == {"delivered", "bounced"}
Due == {"queued", "retrying"}
Settled == {"sent", "delivered", "bounced", "failed", "suppressed"}

NoRow == [status |-> "none", attempts |-> 0, age |-> 0, wait |-> 0, message |-> FALSE]
NoTick == [at |-> "idle", age |-> 0, todo |-> {}, attempt |-> 0, warned |-> FALSE, blind |-> FALSE]
NoReq == [at |-> "idle", event |-> <<0, "delivered">>]

AtMost(a, b) == IF a <= b THEN a ELSE b
AtLeast(a, b) == IF a >= b THEN a ELSE b

\* An invocation dies, or a call fails whose error the code does not look at:
\* an update then leaves the row as it is.
Fault == faults < MaxFaults /\ faults' = faults + 1
NoFault == UNCHANGED faults

\* A sweep works on the rows it selected in their order.
Current(t) == CHOOSE s \in tick[t].todo : \A o \in tick[t].todo : s.email <= o.email
Email(t) == Current(t).email

At(t, label) == tick[t].at = label
Goto(t, label) == tick' = [tick EXCEPT ![t].at = label]
NextRow(t) == tick' = [tick EXCEPT ![t] =
                [NoTick EXCEPT !.at = "next", !.age = tick[t].age, !.todo = tick[t].todo \ {Current(t)}]]

\* The wait is kept while a row is to be sent, the age while it is being sent.
As(r, status) == [r EXCEPT !.status = status, !.age = 0, !.wait = 0]
Put(d, status) == row' = [row EXCEPT ![d] = As(@, status)]

EmailInit ==
  /\ row = [d \in Emails |-> NoRow]
  /\ blocked = FALSE
  /\ mailed = {} /\ emitted = {} /\ unacked = {} /\ stopped = {} /\ answered = {}
  /\ claims = [d \in Emails |-> 0]
  /\ tick = [t \in Ticks |-> NoTick]
  /\ req = [r \in Requests |-> NoReq]
  /\ faults = 0

-----------------------------------------------------------------------------
\* enqueueLifecycleEmail: a duplicate inserts nothing; an error of the
\* eligibility reads counts as eligible.
Enqueue(d) ==
  /\ row[d].status = "none"
  /\ \/ Put(d, IF blocked THEN "suppressed" ELSE "queued") /\ NoFault
     \/ Put(d, "queued") /\ blocked /\ Fault
  /\ UNCHANGED <<blocked, sendVars, eventVars>>

\* The operator's console, an unsubscription, a cancellation or a conversion.
Block ==
  /\ ~blocked /\ blocked' = TRUE
  /\ UNCHANGED <<row, sendVars, eventVars, faults>>

Unblock ==
  /\ blocked /\ blocked' = FALSE
  /\ tick' = [t \in Ticks |-> [tick[t] EXCEPT !.warned = FALSE]]
  /\ UNCHANGED <<row, mailed, claims, eventVars, faults>>

-----------------------------------------------------------------------------
(***************************************************************************)
(* processLifecycleEmailQueue: expired leases are recovered, due rows are  *)
(* selected, and each is claimed, checked again and sent.                  *)
(***************************************************************************)
LeaseForgotten(d) == FALSE            \* faulty: the rows of a dead sweep stay

LeaseExpired(d) == row[d].status = "sending" /\ row[d].age >= Lease

Start(t) ==
  /\ At(t, "idle")
  /\ \/ row' = [d \in Emails |-> IF LeaseExpired(d) THEN As(row[d], "retrying") ELSE row[d]] /\ NoFault
     \/ UNCHANGED row /\ Fault
  /\ Goto(t, "select")
  /\ UNCHANGED <<blocked, mailed, claims, eventVars>>

\* The rows that were due when the sweep began.
Select(t) ==
  /\ At(t, "select")
  /\ LET due == {d \in Emails : row[d].status \in Due /\ row[d].wait + tick[t].age <= 0}
         taken == {d \in due : Cardinality({e \in due : e < d}) < BatchLimit}
     IN  tick' = [tick EXCEPT ![t].at = "next", ![t].todo =
                    {[email |-> d, attempts |-> row[d].attempts] : d \in taken}]
  /\ UNCHANGED <<row, blocked, mailed, claims, eventVars, faults>>

ClaimableAlways(d) == TRUE            \* faulty: the update has no status filter

Claimable(d) == row[d].status \in Due

\* Compare-and-set on the status.  The row is stamped with the time the sweep
\* began, and its attempts are counted from the selection.
Claim(t) ==
  /\ At(t, "next") /\ tick[t].todo # {} /\ Claimable(Email(t))
  /\ LET attempt == Current(t).attempts + 1
     IN  /\ row' = [row EXCEPT ![Email(t)] =
                     [@ EXCEPT !.status = "sending", !.attempts = attempt, !.wait = 0,
                               !.age = AtMost(tick[t].age, Lease)]]
         /\ tick' = [tick EXCEPT ![t] = [@ EXCEPT !.at = "check", !.attempt = attempt,
                                                  !.warned = blocked]]
  /\ claims' = [claims EXCEPT ![Email(t)] = AtMost(@ + 1, MaxAttempts)]
  /\ UNCHANGED <<blocked, mailed, eventVars, faults>>

\* Another sweep has the row, or the update fails.
ClaimLost(t) ==
  /\ At(t, "next") /\ tick[t].todo # {}
  /\ IF Claimable(Email(t)) THEN Fault ELSE NoFault
  /\ NextRow(t)
  /\ UNCHANGED <<row, blocked, mailed, claims, eventVars>>

Finish(t) ==
  /\ At(t, "next") /\ tick[t].todo = {}
  /\ tick' = [tick EXCEPT ![t] = NoTick]
  /\ UNCHANGED <<row, blocked, mailed, claims, eventVars, faults>>

EligibleAsQueued == TRUE              \* faulty: what was queued is sent

StillEligible == ~blocked

CheckEligibility(t) ==
  /\ At(t, "check")
  /\ \/ StillEligible /\ Goto(t, "send") /\ UNCHANGED row /\ NoFault
     \/ ~StillEligible /\ Goto(t, "log") /\ Put(Email(t), "suppressed") /\ NoFault
     \/ ~StillEligible /\ Goto(t, "log") /\ UNCHANGED row /\ Fault
     \/ /\ ~StillEligible /\ UNCHANGED row /\ Fault
        /\ tick' = [tick EXCEPT ![t].at = "send", ![t].blind = TRUE]
  /\ UNCHANGED <<blocked, mailed, claims, eventVars>>

AfterSend(t, label) == tick' = [tick EXCEPT ![t] = [@ EXCEPT !.at = label, !.warned = FALSE, !.blind = FALSE]]

Send(t) ==
  /\ At(t, "send") /\ AfterSend(t, "sent")
  /\ mailed' = mailed \cup {Email(t)}
  /\ UNCHANGED <<row, blocked, claims, eventVars, faults>>

\* No template, a refusal of the provider, or a timeout, after which the
\* provider may have the email.
SendFails(t) ==
  /\ tick[t].at \in {"check", "send"} /\ AfterSend(t, "failed")
  /\ \/ mailed' = mailed
     \/ At(t, "send") /\ mailed' = mailed \cup {Email(t)}
  /\ UNCHANGED <<row, blocked, claims, eventVars, faults>>

\* Neither guarded nor looked at.
RecordSent(t) ==
  /\ At(t, "sent") /\ Goto(t, "log")
  /\ \/ row' = [row EXCEPT ![Email(t)] = [As(@, "sent") EXCEPT !.message = TRUE]] /\ NoFault
     \/ UNCHANGED row /\ Fault
  /\ UNCHANGED <<blocked, mailed, claims, eventVars>>

\* When the event row cannot be written the error path takes over: a sent or
\* suppressed email is to be sent again.
LogOutcome(t) ==
  /\ At(t, "log")
  /\ \/ NextRow(t) /\ NoFault
     \/ Goto(t, "failed") /\ Fault
  /\ UNCHANGED <<row, blocked, mailed, claims, eventVars>>

TerminalEarly(attempt) == attempt + 1 >= MaxAttempts     \* faulty: one try short
BackoffDoubled(attempt) == Lease * 2 ^ attempt           \* faulty: doubled from the first

Terminal(attempt) == attempt >= MaxAttempts
Backoff(attempt) == Lease * 2 ^ (attempt - 1)

RecordFailure(t) ==
  /\ At(t, "failed") /\ NextRow(t)
  /\ \/ Terminal(tick[t].attempt) /\ Put(Email(t), "failed") /\ NoFault
     \/ /\ ~Terminal(tick[t].attempt) /\ NoFault
        /\ row' = [row EXCEPT ![Email(t)] =
                    [As(@, "retrying") EXCEPT !.wait = Backoff(tick[t].attempt)]]
     \/ UNCHANGED row /\ Fault
  /\ UNCHANGED <<blocked, mailed, claims, eventVars>>

Crash(t) ==
  /\ ~At(t, "idle") /\ Fault
  /\ tick' = [tick EXCEPT ![t] = NoTick]
  /\ UNCHANGED <<row, blocked, mailed, claims, eventVars>>

Pass ==
  /\ \A t \in Ticks : At(t, "idle") \/ tick[t].age < TickTime
  /\ row' = [d \in Emails |->
               CASE row[d].status = "sending" -> [row[d] EXCEPT !.age = AtMost(@ + 1, Lease)]
                 [] row[d].status \in Due -> [row[d] EXCEPT !.wait = AtLeast(@ - 1, -TickTime)]
                 [] OTHER -> row[d]]
  /\ tick' = [t \in Ticks |-> IF At(t, "idle") THEN tick[t] ELSE [tick[t] EXCEPT !.age = @ + 1]]
  /\ UNCHANGED <<blocked, mailed, claims, eventVars, faults>>

-----------------------------------------------------------------------------
(***************************************************************************)
(* The provider's events, and reconcileResendLifecycleEvent.               *)
(***************************************************************************)
Emit(d, kind) ==
  /\ d \in mailed /\ <<d, kind>> \notin emitted
  /\ emitted' = emitted \cup {<<d, kind>>}
  /\ unacked' = unacked \cup {<<d, kind>>}
  /\ UNCHANGED <<row, blocked, sendVars, stopped, answered, req, faults>>

Subject(r) == req[r].event[1]
Kind(r) == req[r].event[2]

\* No row has the message id yet, or the read fails: a 200 all the same.
Unmatched(r, e) ==
  /\ req[r].at = "idle" /\ e \in unacked
  /\ IF row[e[1]].message THEN Fault ELSE NoFault
  /\ unacked' = unacked \ {e}
  /\ UNCHANGED <<row, blocked, sendVars, emitted, stopped, answered, req>>

IgnoredOnceSeen(status, kind) == status \in {"bounced", kind}   \* faulty: a bounce too

\* resolveLifecycleProviderStatus, on the status as it was read.
Ignored(status, kind) == kind = "delivered" /\ status = "bounced"

Matched(r, e) ==
  /\ req[r].at = "idle" /\ e \in unacked /\ row[e[1]].message
  /\ req' = [req EXCEPT ![r] =
              [at |-> IF Ignored(row[e[1]].status, e[2]) THEN "respond" ELSE "update", event |-> e]]
  /\ UNCHANGED <<row, blocked, sendVars, emitted, unacked, stopped, answered, faults>>

\* Not guarded by the status that was read, nor looked at.
UpdateStatus(r) ==
  /\ req[r].at = "update"
  /\ \/ Put(Subject(r), Kind(r)) /\ NoFault
     \/ UNCHANGED row /\ Fault
  /\ req' = [req EXCEPT ![r].at = IF Kind(r) = "bounced" THEN "suppress" ELSE "respond"]
  /\ UNCHANGED <<blocked, sendVars, emitted, unacked, stopped, answered>>

Suppress(r) ==
  /\ req[r].at = "suppress"
  /\ blocked' = TRUE /\ stopped' = stopped \cup {Subject(r)}
  /\ req' = [req EXCEPT ![r].at = "respond"]
  /\ UNCHANGED <<row, sendVars, emitted, unacked, answered, faults>>

Respond(r) ==
  /\ req[r].at = "respond"
  /\ unacked' = unacked \ {req[r].event}
  /\ answered' = IF Kind(r) = "bounced" THEN answered \cup {Subject(r)} ELSE answered
  /\ req' = [req EXCEPT ![r] = NoReq]
  /\ UNCHANGED <<row, blocked, sendVars, emitted, stopped, faults>>

\* A write throws or the request dies: the provider sends the event again.
RequestFails(r) ==
  /\ req[r].at # "idle" /\ Fault
  /\ req' = [req EXCEPT ![r] = NoReq]
  /\ UNCHANGED <<row, blocked, sendVars, emitted, unacked, stopped, answered>>

-----------------------------------------------------------------------------
Sweep(t) ==
  \/ Select(t) \/ Claim(t) \/ ClaimLost(t) \/ Finish(t) \/ CheckEligibility(t) \/ Send(t)
  \/ SendFails(t) \/ RecordSent(t) \/ LogOutcome(t) \/ RecordFailure(t)

EmailNext ==
  \/ \E d \in Emails : Enqueue(d) \/ \E kind \in Kinds : Emit(d, kind)
  \/ Block \/ Unblock \/ Pass
  \/ \E t \in Ticks : Start(t) \/ Sweep(t) \/ Crash(t)
  \/ \E r \in Requests : \/ \E e \in unacked : Unmatched(r, e) \/ Matched(r, e)
                         \/ UpdateStatus(r) \/ Suppress(r) \/ Respond(r) \/ RequestFails(r)

(***************************************************************************)
(* Time passes, the cron handler runs again, and a sweep that nothing      *)
(* kills runs on.  Nothing is assumed of the provider or its events.       *)
(***************************************************************************)
EmailFairness ==
  /\ SF_emailVars(Pass)
  /\ \A t \in Ticks : WF_emailVars(Start(t)) /\ WF_emailVars(Sweep(t))

EmailSpec == EmailInit /\ [][EmailNext]_emailVars /\ EmailFairness

-----------------------------------------------------------------------------
EmailTypeOK ==
  /\ \A d \in Emails :
       /\ row[d].status \in {"none", "sending"} \cup Due \cup Settled
       /\ row[d].attempts \in Nat /\ row[d].age \in 0..Lease /\ row[d].message \in BOOLEAN
       /\ row[d].wait >= -TickTime /\ 2 * row[d].wait <= Lease * 2 ^ (MaxAttempts - 1)
  /\ mailed \subseteq Emails /\ stopped \subseteq Emails /\ answered \subseteq Emails
  /\ emitted \subseteq Emails \X Kinds /\ unacked \subseteq emitted
  /\ claims \in [Emails -> 0..MaxAttempts]
  /\ \A t \in Ticks :
       /\ tick[t].at \in {"idle", "select", "next", "check", "send", "sent", "log", "failed"}
       /\ tick[t].age \in 0..TickTime /\ tick[t].attempt \in Nat
       /\ tick[t].todo \subseteq [email : Emails, attempts : Nat]
  /\ \A r \in Requests : req[r].at \in {"idle", "update", "suppress", "respond"}
  /\ blocked \in BOOLEAN /\ faults \in 0..MaxFaults

WorksOn(t, d) == tick[t].at \in {"check", "send", "sent", "log", "failed"} /\ Email(t) = d

(***************************************************************************)
(* With two sweeps at one time, both work on a row only when one began a   *)
(* lease before the other: about the compare-and-set of the claim, the     *)
(* stamp that is the sweep's beginning, and what a sweep that lost its     *)
(* lease still writes.                                                     *)
(***************************************************************************)
ClaimsAreLeased ==
  \A t, u \in Ticks, d \in Emails :
    t # u /\ WorksOn(t, d) /\ WorksOn(u, d) =>
      tick[t].age >= tick[u].age + Lease \/ tick[u].age >= tick[t].age + Lease

(***************************************************************************)
(* An email is given up as failed only after max_attempts tries: about the *)
(* attempt number, taken from the selection and written over the row's by  *)
(* sweeps that overlap and die.                                            *)
(***************************************************************************)
GivenUpAfterAllAttempts ==
  \A d \in Emails : row[d].status = "failed" => claims[d] >= MaxAttempts

(***************************************************************************)
(* No email goes out to a recipient who was blocked when the row was       *)
(* claimed, and still is, unless the read of the suppressions failed:      *)
(* about what changes between enqueue and send.                            *)
(***************************************************************************)
SuppressedIsNotMailed ==
  \A t \in Ticks : At(t, "send") /\ tick[t].warned => tick[t].blind

(***************************************************************************)
(* A bounce that was answered as reconciled has suppressed the recipient:  *)
(* about a request that dies between status and suppression, and the event *)
(* that is delivered again.                                                *)
(***************************************************************************)
BounceSuppresses == answered \subseteq stopped

(***************************************************************************)
(* A queued email is settled, whichever sweep dies on it: about leases     *)
(* that expire, attempts that run out, and updates that are not written.   *)
(***************************************************************************)
EmailSettles ==
  \A d \in Emails : (row[d].status = "queued") ~> (row[d].status \in Settled)

\* "never lets a late delivered event overwrite bounce or complaint
\* evidence" (lifecycle-email.test.ts).
BounceEvidenceStays ==
  [][\A d \in Emails : row[d].status = "bounced" => row'[d].status # "delivered"]_emailVars

-----------------------------------------------------------------------------
(***************************************************************************)
(* What the leases rest on (LifecycleEmail_proofs).                        *)
(***************************************************************************)
\* No third sweep begins while two are running.
TwoSweeps ==
  \A x, y, z \in Ticks : {tick[x].at, tick[y].at, tick[z].at} \cap {"idle"} = {} =>
    x = y \/ y = z \/ x = z

Listed(t, d) == \E s \in tick[t].todo : s.email = d

\* A sweep's list names each row once, and only rows that are there.
ListsOK == \A t \in Ticks :
  /\ tick[t].at = "idle" => tick[t].age = 0
  /\ tick[t].at \in {"idle", "select"} => tick[t].todo = {}
  /\ \A s, o \in tick[t].todo : s.email = o.email => s = o
  /\ \A s \in tick[t].todo : row[s.email].status # "none"

\* A row that a sweep works on was stamped no earlier than the sweep began.
\* If it is to be sent again, it is not due before the sweep is a lease old,
\* and another sweep has it in its list only if it began a lease later.
LeaseOK == \A t \in Ticks, d \in Emails : WorksOn(t, d) =>
  /\ row[d].status = "sending" => row[d].age <= tick[t].age
  /\ row[d].status \in Due => row[d].wait + tick[t].age >= Lease
  /\ \A u \in Ticks \ {t} : row[d].status \in Due /\ Listed(u, d) =>
       tick[t].age >= tick[u].age + Lease

=============================================================================
