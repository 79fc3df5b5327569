----------------------------- MODULE Subscriptions -----------------------------
(***************************************************************************)
(* The subscriptions of one customer: Stripe's events (created, updated,   *)
(* deleted, invoices paid and failed, the checkout of a monitor), the      *)
(* webhook that writes them into rows, the plan and the workspaces, and    *)
(* the sweep that audits monitors every month.                             *)
(*                                                                         *)
(* Stripe delivers an event until it is answered with 200, in any order    *)
(* and to several invocations at one time.  A handler that throws answers  *)
(* 500; but there are errors that nobody looks at.                         *)
(*                                                                         *)
(* Monitors are all of one email address and site.  A monitor's row stays  *)
(* and may be pointed at another subscription.                             *)
(***************************************************************************)
EXTENDS Integers, FiniteSets

CONSTANTS
  Subs,
  NoSub,
  Calls,        \* invocations of the webhook at one time
  Sweeps,       \* invocations of the audit sweep at one time
  Portfolios,   \* what a customer may subscribe to
  Starts,       \* first statuses of a subscription
  MaxChanges,   \* bound: changes at Stripe
  MaxTotal,     \* bound: changes at Stripe, months and faults in all
  MaxOwed,      \* bound: unanswered events of a subscription at its next change
  MaxFaults     \* bound: calls and invocations that fail

ASSUME SubsAssumption == Subs # {} /\ NoSub \notin Subs
ASSUME SweepsAssumption == IsFiniteSet(Sweeps)
ASSUME BoundsAssumption ==
  MaxChanges \in Nat /\ MaxTotal \in Nat /\ MaxOwed \in Nat /\ MaxFaults \in Nat

VARIABLES
  kind,        \* what is subscribed to
  stripe,      \* status at Stripe
  version,     \* number of changes at Stripe so far
  events,      \* events not answered with 200
  row,         \* status in user_subscriptions
  link,        \* key of the workspace or account that a row names
  workspaces,  \* keys of workspaces and accounts
  members,     \* those that the customer is a member of
  plan,        \* users.plan
  monitor,     \* rows of monitoring_subscriptions
  mails,       \* reports mailed for the month of a monitor
  months,      \* number of months that have passed
  shared,      \* rows that two sweeps had in hand at one time
  call,        \* what each invocation of the webhook is doing
  sweep,       \* what each sweep is doing
  handled,     \* version of the newest event answered
  disturbed,   \* subscriptions with overlapping or late events, or a lost error
  raced,       \* two calls about workspaces overlapped
  faults

subscriptionVars == <<kind, stripe, version, events, row, link, workspaces, members, plan,
                      monitor, mails, months, shared, call, sweep, handled, disturbed, raced,
                      faults>>
stripeVars == <<kind, stripe, version>>
workspaceVars == <<row, link, workspaces, members, plan>>
monitorVars == <<monitor, mails, months, shared>>
historyVars == <<handled, disturbed, raced>>

-----------------------------------------------------------------------------
Agency == {"agency_core", "agency_pro"}
Kinds == Agency \cup {"startup_dev", "monitor"}
Live == {"active", "trialing"}
Statuses == Live \cup {"incomplete", "past_due", "canceled"}
Plans == {"free", "pro", "agency"}

ASSUME PortfoliosAssumption == Portfolios \subseteq [Subs -> Kinds] /\ Starts \subseteq Live \cup {"incomplete"}

\* A row carries the subscription sub, and has the time of its next audit.
NoRow == [sub |-> NoSub, status |-> "none", due |-> "unarmed"]

NoEvent == [sub |-> NoSub, type |-> "none", status |-> "none", version |-> 0]
IdleCall == [at |-> "idle", event |-> NoEvent, row |-> NoSub, due |-> "unarmed",
             status |-> "none", plan |-> "free", known |-> FALSE]
IdleSweep == [at |-> "idle", todo |-> {}, row |-> NoSub, told |-> FALSE]

Event(c) == call[c].event
Sub(c) == call[c].event.sub
At(c, label) == call[c].at = label
Step(c, next) == call' = [call EXCEPT ![c] = next]
Goto(c, label) == Step(c, [call[c] EXCEPT !.at = label])
End(c) == Step(c, IdleCall)
ThrowUnseen(c) == Goto(c, "answer")            \* faulty: 200 all the same
Throw(c) == End(c)                             \* 500: Stripe delivers it again

MoreToCome == version + months + faults < MaxTotal
Fault == faults < MaxFaults /\ MoreToCome /\ faults' = faults + 1
NoFault == UNCHANGED faults
Seen == UNCHANGED historyVars
Unseen(c) == disturbed' = disturbed \cup {Sub(c)} /\ UNCHANGED <<handled, raced>>

\* A call that fails may have had its effect.
Checked(effect, nothing, succeeds, fails) ==
  \/ effect /\ succeeds /\ NoFault
  \/ (effect \/ nothing) /\ fails /\ Fault

SubscriptionInit ==
  /\ kind \in Portfolios
  /\ stripe = [s \in Subs |-> "none"] /\ version = 0 /\ events = {}
  /\ row = [s \in Subs |-> "none"] /\ link = [s \in Subs |-> NoSub]
  /\ workspaces = {} /\ members = {} /\ plan = "free"
  /\ monitor = [r \in Subs |-> NoRow] /\ mails = [r \in Subs |-> 0] /\ months = 0 /\ shared = {}
  /\ call = [c \in Calls |-> IdleCall] /\ sweep = [x \in Sweeps |-> IdleSweep]
  /\ handled = [s \in Subs |-> 0] /\ disturbed = {} /\ raced = FALSE /\ faults = 0

-----------------------------------------------------------------------------
(***************************************************************************)
(* Stripe.  The status of an event is the one that its handler writes.     *)
(***************************************************************************)
Follows(old) ==
  CASE old = "none" -> Starts
    [] old = "incomplete" -> {"active", "canceled"}
    [] old = "trialing" -> {"active", "past_due", "canceled"}
    [] old = "active" -> {"active", "past_due", "canceled"}
    [] old = "past_due" -> {"active", "canceled"}
    [] old = "canceled" -> {}

Emitted(s, old, new, n) ==
  LET E(type, status) == [sub |-> s, type |-> type, status |-> status, version |-> n]
  IN  {E(IF new = "canceled" THEN "deleted" ELSE "changed", new)}
      \cup (IF new \in Live THEN {E("paid", "active")} ELSE {})
      \cup (IF new = "past_due" THEN {E("failed", "past_due")} ELSE {})
      \cup (IF kind[s] = "monitor" /\ new \in Live /\ old \in {"none", "incomplete"}
            THEN {E("checkout", new)} ELSE {})

Change(s) ==
  /\ version < MaxChanges /\ MoreToCome /\ Cardinality({e \in events : e.sub = s}) <= MaxOwed
  /\ version' = version + 1
  /\ \E new \in Follows(stripe[s]) :
       /\ stripe' = [stripe EXCEPT ![s] = new]
       /\ events' = events \cup Emitted(s, stripe[s], new, version + 1)
  /\ UNCHANGED <<kind, workspaceVars, monitorVars, call, sweep, historyVars, faults>>

-----------------------------------------------------------------------------
(***************************************************************************)
(* POST of the webhook: monitors first, the rest to the workspaces.        *)
(***************************************************************************)
Handler(e) ==
  IF e.type = "checkout" THEN "retrieve"
  ELSE IF e.type \in {"paid", "failed"} THEN "route"
  ELSE IF kind[e.sub] = "monitor" THEN "locate"
  ELSE IF e.type = "changed" THEN "upsert" ELSE "cancel"

Deliver(c, e) ==
  /\ At(c, "idle") /\ e \in events
  /\ Step(c, [IdleCall EXCEPT !.at = Handler(e), !.event = e])
  /\ disturbed' = disturbed \cup
       {s \in {e.sub} : e.version < handled[s] \/ \E d \in Calls : Sub(d) = s}
  /\ raced' = (raced \/ (kind[e.sub] # "monitor" /\ \E d \in Calls : ~At(d, "idle") /\ kind[Sub(d)] # "monitor"))
  /\ UNCHANGED <<stripeVars, events, workspaceVars, monitorVars, sweep, handled, faults>>

\* The mail of the event.  That of an invoice goes to whom the rows name, and
\* one that is paid at the first attempt has none.
Recipient(c) == row[Sub(c)] # "none" \/ \E r \in Subs : monitor[r].sub = Sub(c)

Notify(c) ==
  /\ At(c, "notify")
  /\ \/ (Event(c).type = "failed" => Recipient(c)) /\ Goto(c, "answer") /\ NoFault
     \/ Event(c).type \in {"paid", "failed"} /\ ~Recipient(c) /\ Throw(c) /\ NoFault
     \/ Throw(c) /\ Fault
  /\ UNCHANGED <<stripeVars, events, workspaceVars, monitorVars, sweep, historyVars>>

Answer(c) ==
  /\ At(c, "answer") /\ End(c)
  /\ events' = events \ {Event(c)}
  /\ handled' = [handled EXCEPT ![Sub(c)] = IF Event(c).version > @ THEN Event(c).version ELSE @]
  /\ UNCHANGED <<stripeVars, workspaceVars, monitorVars, sweep, disturbed, raced, faults>>

CallDies(c) ==
  /\ ~At(c, "idle") /\ End(c) /\ Fault
  /\ UNCHANGED <<stripeVars, events, workspaceVars, monitorVars, sweep, historyVars>>

-----------------------------------------------------------------------------
(***************************************************************************)
(* Rows of monitors.                                                       *)
(***************************************************************************)
Carries(r, s) == monitor[r].sub = s
LiveRows == {r \in Subs : monitor[r].status \in Live}
SetMonitor(r, new) == monitor' = [monitor EXCEPT ![r] = new]

\* isMonitorSubscription: an error counts as no.
Route(c) ==
  /\ At(c, "route")
  /\ \/ Goto(c, IF \E r \in Subs : Carries(r, Sub(c)) THEN "locate" ELSE "owner") /\ Seen /\ NoFault
     \/ Goto(c, "owner") /\ Unseen(c) /\ Fault
  /\ UNCHANGED <<stripeVars, events, workspaceVars, monitorVars, sweep>>

\* updateMonitorSubscriptionStatus: without a row there is nothing to do, and
\* an error looks like no row.
Locate(c) ==
  /\ At(c, "locate")
  /\ \/ /\ \E r \in Subs : Carries(r, Sub(c))
                           /\ Step(c, [call[c] EXCEPT !.at = "write", !.row = r, !.due = monitor[r].due])
        /\ Seen /\ NoFault
     \/ /\ Goto(c, "notify")
        /\ IF \E r \in Subs : Carries(r, Sub(c)) THEN Unseen(c) /\ Fault ELSE Seen /\ NoFault
  /\ UNCHANGED <<stripeVars, events, workspaceVars, monitorVars, sweep>>

\* One live row for an email address and site.
LiveElsewhere(r, status) == status \in Live /\ LiveRows \ {r} # {}

\* The next audit is a month ahead if there was none when the row was read.
Due(c, status, current) == IF status \in Live /\ call[c].due = "unarmed" THEN "later" ELSE current

Written(c, r) ==
  [monitor[r] EXCEPT !.status = Event(c).status, !.due = Due(c, Event(c).status, @)]

\* Nobody looks at the result.
Write(c) ==
  /\ At(c, "write") /\ Goto(c, "notify")
  /\ LET r == call[c].row IN
     \/ /\ ~LiveElsewhere(r, Event(c).status) /\ SetMonitor(r, Written(c, r)) /\ NoFault
        /\ disturbed' = disturbed \cup ({monitor[r].sub} \ {Sub(c)}) /\ UNCHANGED <<handled, raced>>
     \/ UNCHANGED monitor /\ Unseen(c)
        /\ IF LiveElsewhere(r, Event(c).status) THEN NoFault ELSE Fault
  /\ UNCHANGED <<stripeVars, events, workspaceVars, mails, months, shared, sweep>>

\* handleMonitorCheckoutCompleted: the status is Stripe's of the moment, and
\* "active" when Stripe cannot be asked.
Retrieve(c) ==
  /\ At(c, "retrieve")
  /\ \/ Step(c, [call[c] EXCEPT !.at = "seek", !.status = stripe[Sub(c)]]) /\ Seen /\ NoFault
     \/ Step(c, [call[c] EXCEPT !.at = "seek", !.status = "active"]) /\ Unseen(c) /\ Fault
  /\ UNCHANGED <<stripeVars, events, workspaceVars, monitorVars, sweep>>

Aim(c, r) == Step(c, [call[c] EXCEPT !.at = "point", !.row = r, !.due = monitor[r].due])

\* seedMonitorSubscription.
Seek(c) ==
  /\ At(c, "seek")
  /\ \/ (\E r \in Subs : Carries(r, Sub(c)) /\ Aim(c, r)) /\ NoFault
     \/ /\ Goto(c, "insert")
        /\ IF \E r \in Subs : Carries(r, Sub(c)) THEN Fault ELSE NoFault
  /\ UNCHANGED <<stripeVars, events, workspaceVars, monitorVars, sweep, historyVars>>

ConflictOnSite(c) == call[c].status \in Live /\ LiveRows # {}   \* faulty: no key on the subscription

Conflict(c) ==
  (\E r \in Subs : Carries(r, Sub(c))) \/ (call[c].status \in Live /\ LiveRows # {})

Seeded(c, due) == [sub |-> Sub(c), status |-> call[c].status, due |-> Due(c, call[c].status, due)]

Insert(c) ==
  /\ At(c, "insert")
  /\ IF Conflict(c)
     THEN Goto(c, "resolve") /\ UNCHANGED monitorVars /\ NoFault
     ELSE \E r \in Subs :
            /\ monitor[r] = NoRow
            /\ UNCHANGED <<mails, months, shared>>
            /\ Checked(SetMonitor(r, Seeded(c, "unarmed")), UNCHANGED monitor, Goto(c, "notify"), Throw(c))
  /\ UNCHANGED <<stripeVars, events, workspaceVars, sweep, historyVars>>

ResolveLeniently(c) ==   \* faulty: a conflict that is not resolved passes for stored
  /\ At(c, "resolve") /\ Goto(c, "notify") /\ NoFault
  /\ UNCHANGED <<stripeVars, events, workspaceVars, monitorVars, sweep, historyVars>>

\* The row of this subscription, else the live one of the site.
Resolve(c) ==
  /\ At(c, "resolve")
  /\ \/ /\ IF \E r \in Subs : Carries(r, Sub(c))
           THEN \E r \in Subs : Carries(r, Sub(c)) /\ Aim(c, r)
           ELSE IF LiveRows # {} THEN \E r \in LiveRows : Aim(c, r) ELSE Throw(c)
        /\ NoFault
     \/ Throw(c) /\ Fault
  /\ UNCHANGED <<stripeVars, events, workspaceVars, monitorVars, sweep, historyVars>>

\* updateMonitorRowById; the unique keys may refuse it.
Point(c) ==
  /\ At(c, "point")
  /\ LET r == call[c].row IN
     IF LiveElsewhere(r, call[c].status) \/ \E q \in Subs \ {r} : Carries(q, Sub(c))
     THEN Throw(c) /\ UNCHANGED monitor /\ Seen /\ NoFault
     ELSE /\ Checked(SetMonitor(r, Seeded(c, monitor[r].due)), UNCHANGED monitor,
                     Goto(c, "notify"), Throw(c))
          /\ disturbed' = disturbed \cup ({monitor[r].sub} \ {Sub(c)})
          /\ UNCHANGED <<handled, raced>>
  /\ UNCHANGED <<stripeVars, events, workspaceVars, mails, months, shared, sweep>>

-----------------------------------------------------------------------------
(***************************************************************************)
(* Rows of workspace subscriptions, and the plan.                          *)
(***************************************************************************)
SetRow(s, status) == row' = [row EXCEPT ![s] = status]

\* One live row for a customer and bundle.
Refused(s, status) == status \in Live /\ \E q \in Subs \ {s} : kind[q] = kind[s] /\ row[q] \in Live

\* handleSubscriptionUpserted; the upsert returns the link.
Upsert(c) ==
  /\ At(c, "upsert")
  /\ IF Refused(Sub(c), Event(c).status)
     THEN Throw(c) /\ UNCHANGED row /\ NoFault
     ELSE Checked(SetRow(Sub(c), Event(c).status), UNCHANGED row,
                  Step(c, [call[c] EXCEPT !.at = "load", !.known = (link[Sub(c)] # NoSub)]), Throw(c))
  /\ UNCHANGED <<stripeVars, events, link, workspaces, members, plan, monitorVars, sweep, historyVars>>

\* faulty: the plan stays
CancelOnly(c) ==
  /\ At(c, "cancel")
  /\ Checked(IF row[Sub(c)] = "none" THEN UNCHANGED row ELSE SetRow(Sub(c), "canceled"),
             UNCHANGED row, Goto(c, "notify"), Throw(c))
  /\ UNCHANGED <<stripeVars, events, link, workspaces, members, plan, monitorVars, sweep, historyVars>>

\* handleSubscriptionCancelled: no row, nothing to cancel.
Cancel(c) ==
  /\ At(c, "cancel")
  /\ Checked(IF row[Sub(c)] = "none" THEN UNCHANGED row ELSE SetRow(Sub(c), "canceled"),
             UNCHANGED row, Goto(c, "load"), Throw(c))
  /\ UNCHANGED <<stripeVars, events, link, workspaces, members, plan, monitorVars, sweep, historyVars>>

\* handleInvoicePaid and handleInvoiceFailed: an error looks like no row, and
\* without one the plan is not looked at.
Owner(c) ==
  /\ At(c, "owner")
  /\ \/ Step(c, [call[c] EXCEPT !.at = "set", !.known = (row[Sub(c)] # "none")]) /\ Seen /\ NoFault
     \/ Step(c, [call[c] EXCEPT !.at = "set", !.known = FALSE]) /\ Unseen(c) /\ Fault
  /\ UNCHANGED <<stripeVars, events, workspaceVars, monitorVars, sweep>>

Set(c) ==
  /\ At(c, "set")
  /\ LET s == Sub(c) IN
     IF row[s] # "none" /\ Refused(s, Event(c).status)
     THEN Throw(c) /\ UNCHANGED row /\ NoFault
     ELSE Checked(IF row[s] = "none" THEN UNCHANGED row ELSE SetRow(s, Event(c).status),
                  UNCHANGED row, Goto(c, IF call[c].known THEN "load" ELSE "notify"), Throw(c))
  /\ UNCHANGED <<stripeVars, events, link, workspaces, members, plan, monitorVars, sweep, historyVars>>

\* resolvePlanFromSubscriptions.
Best(live) ==
  CASE \E s \in live : kind[s] \in Agency -> "agency"
    [] \A s \in live : kind[s] = "monitor" -> "free"
    [] OTHER -> "pro"

\* syncUserPlanFromSubscriptions.
LoadPlan(c) ==
  /\ At(c, "load")
  /\ \/ Step(c, [call[c] EXCEPT !.at = "save", !.plan = Best({s \in Subs : row[s] \in Live})]) /\ NoFault
     \/ Throw(c) /\ Fault
  /\ UNCHANGED <<stripeVars, events, workspaceVars, monitorVars, sweep, historyVars>>

ShouldProvision(c) == Event(c).type = "changed" /\ Event(c).status \in Live /\ ~call[c].known

AfterPlan(c) == IF ShouldProvision(c) THEN "provision"
                ELSE IF Event(c).type = "changed" THEN "answer" ELSE "notify"

SavePlan(c) ==
  /\ At(c, "save")
  /\ Checked(plan' = call[c].plan, UNCHANGED plan, Goto(c, AfterPlan(c)), Throw(c))
  /\ UNCHANGED <<stripeVars, events, row, link, workspaces, members, monitorVars, sweep, historyVars>>

-----------------------------------------------------------------------------
(***************************************************************************)
(* provisionWorkspaceForSubscription.  A workspace has the key of its      *)
(* subscription.  Whatever fails, the welcome follows.                     *)
(***************************************************************************)
Accounts(c) == IF kind[Sub(c)] \in Agency THEN members ELSE {}

\* One account is used again, of several the one of the site if there is one; an
\* error looks like none.
Provision(c) ==
  /\ At(c, "provision")
  /\ \/ /\ \E key \in Accounts(c) \cup (IF Cardinality(Accounts(c)) = 1 THEN {} ELSE {Sub(c)}) :
            Step(c, [call[c] EXCEPT !.at = "create", !.row = key])
        /\ NoFault
     \/ Accounts(c) # {} /\ Step(c, [call[c] EXCEPT !.at = "create", !.row = Sub(c)]) /\ Fault
  /\ UNCHANGED <<stripeVars, events, workspaceVars, monitorVars, sweep, historyVars>>

\* A call of provisioning whose error, if any, nobody throws.
Swallowed(c, effect, nothing, succeeds, fails) ==
  \/ effect /\ Goto(c, succeeds) /\ Seen /\ NoFault
  \/ (effect \/ nothing) /\ Goto(c, fails) /\ Unseen(c) /\ Fault

Create(c) ==
  /\ At(c, "create")
  /\ Swallowed(c, workspaces' = workspaces \cup {call[c].row}, UNCHANGED workspaces, "join", "welcome")
  /\ UNCHANGED <<stripeVars, events, row, link, members, plan, monitorVars, sweep>>

Join(c) ==
  /\ At(c, "join")
  /\ LET joined == IF kind[Sub(c)] \in Agency THEN {call[c].row} ELSE {}
     IN  Swallowed(c, members' = members \cup joined, UNCHANGED members, "link", "link")
  /\ UNCHANGED <<stripeVars, events, row, link, workspaces, plan, monitorVars, sweep>>

Link(c) ==
  /\ At(c, "link")
  /\ Swallowed(c, link' = [link EXCEPT ![Sub(c)] = call[c].row], UNCHANGED link, "welcome", "welcome")
  /\ UNCHANGED <<stripeVars, events, row, workspaces, members, plan, monitorVars, sweep>>

\* A welcome that fails answers 500, though next time the link is there and
\* no welcome is due.
Welcome(c) ==
  /\ At(c, "welcome")
  /\ \/ Goto(c, "answer") /\ NoFault
     \/ Throw(c) /\ Fault
  /\ UNCHANGED <<stripeVars, events, workspaceVars, monitorVars, sweep, historyVars>>

-----------------------------------------------------------------------------
(***************************************************************************)
(* runDueMonitorAudits.  The rows are listed once; none is claimed, and    *)
(* none is read again.                                                     *)
(***************************************************************************)
DueRows == {r \in Subs : monitor[r].status = "active" /\ monitor[r].due = "due"}

\* A month has passed.  After a failure the date moves by a day: still due.
ComeDue(r) ==
  /\ monitor[r].due = "later" /\ MoreToCome
  /\ SetMonitor(r, [monitor[r] EXCEPT !.due = "due"])
  /\ months' = months + 1 /\ mails' = [mails EXCEPT ![r] = 0]
  /\ UNCHANGED <<stripeVars, events, workspaceVars, shared, call, sweep, historyVars, faults>>

Sweeping(x, next) == sweep' = [sweep EXCEPT ![x] = next]

\* A sweep has a row in hand from its list until it has moved the date.
Advancing(x, r) == sweep[x].at = "advance" /\ sweep[x].row = r
InHand(x, r) == r \in sweep[x].todo \/ Advancing(x, r)

Select(x) ==
  /\ sweep[x].at = "idle" /\ DueRows # {}
  /\ Sweeping(x, [IdleSweep EXCEPT !.at = "audit", !.todo = DueRows])
  /\ shared' = shared \cup {r \in DueRows : \E y \in Sweeps : InHand(y, r)}
  /\ UNCHANGED <<stripeVars, events, workspaceVars, monitor, mails, months, call, historyVars, faults>>

\* The scan, its row and the mail; a mail that times out may have gone.
Audit(x) ==
  /\ sweep[x].at = "audit"
  /\ \E r \in sweep[x].todo :
       LET mailed == mails' = [mails EXCEPT ![r] = @ + 1]
           told(b) == Sweeping(x, [at |-> "advance", todo |-> sweep[x].todo \ {r}, row |-> r, told |-> b])
       IN  \/ mailed /\ told(TRUE) /\ NoFault
           \/ (mailed \/ UNCHANGED mails) /\ told(FALSE) /\ Fault
  /\ UNCHANGED <<stripeVars, events, workspaceVars, monitor, months, shared, call, historyVars>>

NextDay(x) == "due"        \* faulty: a report that was delivered counts as failed

NextAudit(x) == IF sweep[x].told THEN "later" ELSE "due"

Rest(x) == [IdleSweep EXCEPT !.todo = sweep[x].todo, !.at = IF sweep[x].todo = {} THEN "idle" ELSE "audit"]

\* Nobody looks at the result.
Advance(x) ==
  /\ sweep[x].at = "advance" /\ Sweeping(x, Rest(x))
  /\ LET r == sweep[x].row IN
     \/ SetMonitor(r, [monitor[r] EXCEPT !.due = NextAudit(x)]) /\ NoFault
     \/ UNCHANGED monitor /\ Fault
  /\ UNCHANGED <<stripeVars, events, workspaceVars, mails, months, shared, call, historyVars>>

SweepDies(x) ==
  /\ sweep[x].at # "idle" /\ Sweeping(x, IdleSweep) /\ Fault
  /\ UNCHANGED <<stripeVars, events, workspaceVars, monitorVars, call, historyVars>>

-----------------------------------------------------------------------------
Handle(c) ==
  \/ Route(c) \/ Locate(c) \/ Write(c) \/ Retrieve(c) \/ Seek(c) \/ Insert(c) \/ Resolve(c)
  \/ Point(c) \/ Upsert(c) \/ Cancel(c) \/ Owner(c) \/ Set(c) \/ LoadPlan(c) \/ SavePlan(c)
  \/ Provision(c) \/ Create(c) \/ Join(c) \/ Link(c) \/ Welcome(c) \/ Notify(c) \/ Answer(c)

SubscriptionNext ==
  \/ \E s \in Subs : Change(s) \/ ComeDue(s)
  \/ \E c \in Calls : (\E e \in events : Deliver(c, e)) \/ Handle(c) \/ CallDies(c)
  \/ \E x \in Sweeps : Select(x) \/ Audit(x) \/ Advance(x) \/ SweepDies(x)

SubscriptionSpec == SubscriptionInit /\ [][SubscriptionNext]_subscriptionVars

-----------------------------------------------------------------------------
EventRecords == [sub : Subs, type : {"changed", "deleted", "paid", "failed", "checkout"},
                 status : Statuses, version : 1..MaxChanges]

Labels == {"retrieve", "seek", "insert", "resolve", "point", "route", "locate", "write",
           "upsert", "cancel", "owner", "set", "load", "save", "provision", "create", "join", "link",
           "welcome", "notify", "answer"}

SubscriptionTypeOK ==
  /\ kind \in [Subs -> Kinds]
  /\ stripe \in [Subs -> {"none"} \cup Statuses] /\ version \in 0..MaxChanges
  /\ events \subseteq EventRecords
  /\ row \in [Subs -> {"none"} \cup Statuses] /\ link \in [Subs -> Subs \cup {NoSub}]
  /\ workspaces \subseteq Subs /\ members \subseteq workspaces /\ plan \in Plans
  /\ monitor \in [Subs -> [sub : Subs \cup {NoSub}, status : {"none"} \cup Statuses,
                           due : {"unarmed", "later", "due"}]]
  /\ \A r, q \in Subs : monitor[r].sub = monitor[q].sub => r = q \/ monitor[r] = NoRow
  /\ mails \in [Subs -> Nat] /\ months \in 0..MaxTotal /\ shared \subseteq Subs
  /\ call \in [Calls -> [at : {"idle"} \cup Labels, event : EventRecords \cup {NoEvent},
                         row : Subs \cup {NoSub}, due : {"unarmed", "later", "due"},
                         status : {"none"} \cup Statuses, plan : Plans, known : BOOLEAN]]
  /\ sweep \in [Sweeps -> [at : {"idle", "audit", "advance"}, todo : SUBSET Subs,
                           row : Subs \cup {NoSub}, told : BOOLEAN]]
  /\ handled \in [Subs -> 0..MaxChanges] /\ disturbed \subseteq Subs /\ raced \in BOOLEAN
  /\ faults \in 0..MaxFaults

Quiet(s) == (\A e \in events : e.sub # s) /\ (\A c \in Calls : Sub(c) # s)

IsLive(s) == IF kind[s] = "monitor" THEN \E r \in LiveRows : Carries(r, s) ELSE row[s] \in Live

(***************************************************************************)
(* When every event of a subscription is answered, its row is live if it   *)
(* is live at Stripe and only then, and a live one has its workspace: about *)
(* the 500s that have Stripe deliver again, the events that find no row    *)
(* yet, and handlers that stop half way.                                   *)
(***************************************************************************)
AnsweredMeansTrue ==
  \A s \in Subs \ disturbed : Quiet(s) =>
    /\ IsLive(s) <=> stripe[s] \in Live
    /\ stripe[s] \in Live /\ kind[s] # "monitor" => link[s] \in workspaces

(***************************************************************************)
(* When all events are answered, the plan is the best of what is paid for: *)
(* about a plan that is computed in one call and written in another, of    *)
(* handlers that stop between the row and the plan.                        *)
(***************************************************************************)
PlanIsPaidFor ==
  (~raced /\ disturbed = {} /\ \A s \in Subs : Quiet(s)) => plan = Best({s \in Subs : stripe[s] \in Live})

(***************************************************************************)
(* A checkout is not answered with 200 before a row carries the            *)
(* subscription: about inserts that conflict, and rows that are pointed at *)
(* another subscription meanwhile.                                         *)
(***************************************************************************)
SeedIsStored ==
  [][\A e \in events \ events' :
       e.type = "checkout" => e.sub \in disturbed \/ \E r \in Subs : Carries(r, e.sub)]_subscriptionVars

(***************************************************************************)
(* The report of a month is mailed once, and once more for each fault,     *)
(* unless two sweeps had the row in hand at one time; then each of the     *)
(* sweeps may mail it, and once more for each fault, and no more.  About a *)
(* row that is mailed before its date is moved and is claimed by nobody,   *)
(* and webhooks that arm the date of a row they read before.               *)
(***************************************************************************)
Mailers(r) == IF r \in shared THEN Cardinality(Sweeps) ELSE 1

MonthIsMailedOnce == \A r \in Subs : mails[r] <= Mailers(r) * (1 + faults)

-----------------------------------------------------------------------------
(***************************************************************************)
(* What that rests on for a row that no two sweeps had in hand             *)
(* (Subscriptions_proofs): one sweep has it at most, and while a mail of   *)
(* it may still come there were no more mails than faults.                 *)
(***************************************************************************)
ToBeMailed(r) ==
  \/ \E x \in Sweeps : r \in sweep[x].todo \/ (Advancing(x, r) /\ ~sweep[x].told)
  \/ monitor[r].due = "due" /\ \A x \in Sweeps : ~Advancing(x, r)

HandedOnce(r) == r \notin shared =>
  /\ \A x, y \in Sweeps : InHand(x, r) /\ InHand(y, r) => x = y
  /\ mails[r] <= 1 + faults
  /\ ToBeMailed(r) => mails[r] <= faults

HandsOK == \A r \in Subs : HandedOnce(r)

=============================================================================
