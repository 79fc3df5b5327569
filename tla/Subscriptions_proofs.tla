------------------------- MODULE Subscriptions_proofs -------------------------
(***************************************************************************)
(* Proofs about the subscriptions of one customer, for any subscriptions,  *)
(* any number of invocations of the webhook at one time, and any limits: a *)
(* checkout is not answered before a row carries its subscription, and a   *)
(* monitor's month is mailed once by each sweep but for faults.            *)
(***************************************************************************)
EXTENDS Subscriptions, FiniteSetTheorems, TLAPS

Dues == {"unarmed", "later", "due"}
MonitorRows == [sub : Subs \cup {NoSub}, status : {"none"} \cup Statuses, due : Dues]
CallRecords ==
  [at : {"idle"} \cup Labels, event : EventRecords \cup {NoEvent}, row : Subs \cup {NoSub},
   due : Dues, status : {"none"} \cup Statuses, plan : Plans, known : BOOLEAN]
SweepRecords ==
  [at : {"idle", "audit", "advance"}, todo : SUBSET Subs, row : Subs \cup {NoSub}, told : BOOLEAN]

\* Labels that the checkout of a monitor leads through.
CheckoutLabels == {"retrieve", "seek", "insert", "resolve", "point", "notify", "answer"}

Taken(r) == monitor[r].sub # NoSub
Stored(s) == s \in disturbed \/ \E r \in Subs : Carries(r, s)

\* What an invocation has behind it.
CallFine(k) ==
  /\ k.at # "idle" => k.event \in EventRecords
  /\ k.event.type = "checkout" => k.at \in CheckoutLabels
  /\ k.at \in {"write", "point"} => k.row \in Subs /\ Taken(k.row)
  /\ k.at \in {"create", "join", "link"} => k.row \in Subs
  /\ k.at = "join" => k.row \in workspaces
  /\ k.event.type = "checkout" /\ k.at \in {"notify", "answer"} => Stored(k.event.sub)

SweepFine(x) ==
  /\ \A r \in sweep[x].todo : Taken(r)
  /\ sweep[x].at = "advance" => sweep[x].row \in Subs /\ Taken(sweep[x].row)

Blank == \A r \in Subs : monitor[r].sub = NoSub => monitor[r] = NoRow

SubIInv ==
  /\ SubscriptionTypeOK /\ Blank
  /\ \A c \in Calls : CallFine(call[c])
  /\ \A x \in Sweeps : SweepFine(x)

\* The type invariant in parts.
StripeOK ==
  /\ kind \in [Subs -> Kinds]
  /\ stripe \in [Subs -> {"none"} \cup Statuses] /\ version \in 0..MaxChanges
  /\ events \subseteq EventRecords
WorkspacesOK ==
  /\ row \in [Subs -> {"none"} \cup Statuses] /\ link \in [Subs -> Subs \cup {NoSub}]
  /\ workspaces \subseteq Subs /\ members \subseteq workspaces /\ plan \in Plans
OneEach == \A r, q \in Subs : monitor[r].sub = monitor[q].sub => r = q \/ monitor[r] = NoRow
MonitorsOK == monitor \in [Subs -> MonitorRows] /\ OneEach
MailsOK == mails \in [Subs -> Nat] /\ months \in 0..MaxTotal /\ shared \subseteq Subs
HistoryOK ==
  /\ handled \in [Subs -> 0..MaxChanges] /\ disturbed \subseteq Subs /\ raced \in BOOLEAN
  /\ faults \in 0..MaxFaults

LEMMA TypeParts ==
  SubscriptionTypeOK <=> /\ StripeOK /\ WorkspacesOK /\ MonitorsOK /\ MailsOK /\ HistoryOK
                         /\ call \in [Calls -> CallRecords] /\ sweep \in [Sweeps -> SweepRecords]
BY DEF SubscriptionTypeOK, StripeOK, WorkspacesOK, MonitorsOK, OneEach, MailsOK, HistoryOK,
   MonitorRows, CallRecords, SweepRecords, Dues

-----------------------------------------------------------------------------
LEMMA SubscriptionsStart == SubscriptionInit => SubIInv
<1> SUFFICES ASSUME SubscriptionInit PROVE SubIInv
  OBVIOUS
<1>1. IdleCall \in CallRecords /\ IdleSweep \in SweepRecords /\ NoRow \in MonitorRows
  BY DEF IdleCall, IdleSweep, NoRow, CallRecords, SweepRecords, MonitorRows, Dues, Plans
<1>2. /\ StripeOK /\ WorkspacesOK /\ MonitorsOK /\ MailsOK /\ HistoryOK
      /\ call \in [Calls -> CallRecords] /\ sweep \in [Sweeps -> SweepRecords]
  <2>1. StripeOK
    BY BoundsAssumption, PortfoliosAssumption DEF SubscriptionInit, StripeOK
  <2>2. WorkspacesOK
    BY DEF SubscriptionInit, WorkspacesOK, Plans
  <2>3. MonitorsOK
    BY <1>1 DEF SubscriptionInit, MonitorsOK, OneEach
  <2>4. MailsOK /\ HistoryOK
    <3>1. 0 \in 0..MaxChanges /\ 0 \in 0..MaxFaults /\ 0 \in 0..MaxTotal
      BY BoundsAssumption
    <3> QED
      BY <3>1 DEF SubscriptionInit, MailsOK, HistoryOK
  <2>5. call \in [Calls -> CallRecords] /\ sweep \in [Sweeps -> SweepRecords]
    BY <1>1 DEF SubscriptionInit
  <2> QED
    BY <2>1, <2>2, <2>3, <2>4, <2>5
<1>3. \A c \in Calls : CallFine(call[c])
  BY DEF SubscriptionInit, CallFine, IdleCall, NoEvent
<1>4. \A x \in Sweeps : SweepFine(x)
  BY DEF SubscriptionInit, SweepFine, IdleSweep
<1>5. Blank
  BY DEF SubscriptionInit, Blank
<1> QED
  BY <1>2, <1>3, <1>4, <1>5, TypeParts DEF SubIInv

-----------------------------------------------------------------------------
(***************************************************************************)
(* Rows of monitors: a row that carries a subscription keeps carrying one, *)
(* and one that is pointed at another subscription leaves the first as     *)
(* disturbed.                                                              *)
(***************************************************************************)
Kept ==
  /\ \A r \in Subs : Taken(r) => Taken(r)' /\ (monitor'[r].sub = monitor[r].sub \/ monitor[r].sub \in disturbed')
  /\ disturbed \subseteq disturbed'

LEMMA PutMonitor ==
  ASSUME SubscriptionTypeOK, Blank, NEW r \in Subs, NEW m \in MonitorRows, SetMonitor(r, m), m.sub # NoSub,
         disturbed \subseteq disturbed',
         \/ m.sub = monitor[r].sub
         \/ (\A q \in Subs \ {r} : ~Carries(q, m.sub)) /\ (Taken(r) => monitor[r].sub \in disturbed')
  PROVE  MonitorsOK' /\ Blank' /\ Kept /\ monitor'[r] = m
<1>1. MonitorsOK
  BY TypeParts
<1>2. monitor' = [monitor EXCEPT ![r] = m]
  BY DEF SetMonitor
<1>3. monitor' \in [Subs -> MonitorRows] /\ monitor'[r] = m /\ \A q \in Subs \ {r} : monitor'[q] = monitor[q]
  BY <1>1, <1>2 DEF MonitorsOK
<1>4. Kept
  BY <1>3 DEF Kept, Taken
<1>5. ASSUME NEW q \in Subs, NEW p \in Subs, monitor'[q].sub = monitor'[p].sub, q # p
      PROVE  monitor'[q] = NoRow
  <2>1. monitor[q] = NoRow => q # r
    BY <1>1, <1>3, <1>5 DEF MonitorsOK, OneEach, Carries, NoRow
  <2> QED
    BY <1>1, <1>3, <1>5, <2>1 DEF MonitorsOK, OneEach, Carries, NoRow
<1> QED
  BY <1>3, <1>4, <1>5 DEF MonitorsOK, OneEach, Blank

LEMMA SameMonitor ==
  ASSUME SubscriptionTypeOK, Blank, UNCHANGED monitor, disturbed \subseteq disturbed'
  PROVE  MonitorsOK' /\ Blank' /\ Kept
<1>1. MonitorsOK
  BY TypeParts
<1> QED
  BY <1>1 DEF MonitorsOK, OneEach, Blank, Kept, Taken

\* What the steps of invocations do to the rows of monitors.
LEMMA CallMonitors ==
  ASSUME SubIInv, NEW c \in Calls, (\E e \in events : Deliver(c, e)) \/ Handle(c) \/ CallDies(c)
  PROVE  MonitorsOK' /\ Blank' /\ Kept
<1>1. /\ SubscriptionTypeOK /\ Blank /\ MonitorsOK /\ HistoryOK /\ call[c] \in CallRecords /\ CallFine(call[c])
      /\ call[c].at # "idle" => Event(c) \in EventRecords /\ Sub(c) \in Subs /\ Sub(c) # NoSub
  BY TypeParts, SubsAssumption DEF SubIInv, CallFine, Event, Sub, EventRecords
<1>2. disturbed \subseteq disturbed'
  BY DEF Deliver, Handle, Route, Locate, Write, Retrieve, Seek, Insert, Resolve, Point, Upsert, Cancel, Owner,
     Set, LoadPlan, SavePlan, Provision, Create, Join, Link, Welcome, Notify, Answer, CallDies, Swallowed,
     Unseen, Seen, historyVars
<1>3. CASE UNCHANGED monitor
  BY <1>1, <1>2, <1>3, SameMonitor
<1>4. CASE Write(c) /\ ~UNCHANGED monitor
  <2> DEFINE r == call[c].row
             due == Due(c, Event(c).status, monitor[r].due)
             m == [monitor[r] EXCEPT !.status = Event(c).status, !.due = due]
  <2>1. SetMonitor(r, m) /\ r \in Subs /\ Taken(r) /\ Event(c) \in EventRecords
    BY <1>1, <1>4 DEF Write, Written, At, CallFine, Labels
  <2>2. due \in Dues
    BY <1>1, <2>1 DEF Due, MonitorsOK, MonitorRows, Dues
  <2>3. monitor[r] \in MonitorRows /\ Event(c).status \in Statuses
    BY <1>1, <2>1 DEF MonitorsOK, EventRecords
  <2> HIDE DEF due
  <2>4. m \in MonitorRows /\ m.sub = monitor[r].sub
    BY <2>2, <2>3 DEF MonitorRows
  <2> HIDE DEF m, r
  <2> QED
    BY <1>1, <1>2, <2>1, <2>4, PutMonitor DEF Taken
<1>5. ASSUME NEW due \in Dues PROVE Seeded(c, due) \in [sub : {Sub(c)}, status : {"none"} \cup Statuses, due : Dues]
  <2>1. Due(c, call[c].status, due) \in Dues
    BY <1>5 DEF Due, Dues
  <2> QED
    BY <1>1, <2>1 DEF Seeded, CallRecords
<1>6. CASE Insert(c) /\ ~UNCHANGED monitor
  <2>1. PICK r \in Subs : /\ monitor[r] = NoRow /\ ~Conflict(c)
                          /\ SetMonitor(r, Seeded(c, "unarmed"))
    BY <1>6 DEF Insert, Checked, monitorVars
  <2> DEFINE m == Seeded(c, "unarmed")
  <2>2. m \in MonitorRows /\ m.sub = Sub(c) /\ Sub(c) # NoSub
    BY <1>1, <1>5, <1>6 DEF Insert, At, MonitorRows, Dues
  <2>3. (\A q \in Subs \ {r} : ~Carries(q, m.sub)) /\ ~Taken(r)
    BY <2>1, <2>2 DEF Conflict, Taken, NoRow
  <2> HIDE DEF m
  <2> QED
    BY <1>1, <1>2, <2>1, <2>2, <2>3, PutMonitor DEF m
<1>7. CASE Point(c) /\ ~UNCHANGED monitor
  <2> DEFINE r == call[c].row
             m == Seeded(c, monitor[r].due)
  <2>1. /\ SetMonitor(r, m) /\ r \in Subs /\ Taken(r) /\ Sub(c) \in Subs /\ Sub(c) # NoSub
        /\ \A q \in Subs \ {r} : ~Carries(q, Sub(c))
        /\ monitor[r].sub = Sub(c) \/ monitor[r].sub \in disturbed'
    BY <1>1, <1>7 DEF Point, At, CallFine, Checked
  <2>2. monitor[r].due \in Dues
    BY <1>1, <2>1 DEF MonitorsOK, MonitorRows
  <2>3. m \in MonitorRows /\ m.sub = Sub(c)
    BY <1>5, <2>1, <2>2 DEF MonitorRows
  <2> HIDE DEF m, r
  <2> QED
    BY <1>1, <1>2, <2>1, <2>3, PutMonitor
<1> QED
  BY <1>3, <1>4, <1>6, <1>7
  DEF Deliver, Handle, Route, Locate, Retrieve, Seek, Resolve, Upsert, Cancel, Owner, Set, LoadPlan, SavePlan,
      Provision, Create, Join, Link, Welcome, Notify, Answer, CallDies, monitorVars

\* What the other steps do to them.
LEMMA OtherMonitors ==
  ASSUME SubIInv, \/ \E s \in Subs : Change(s) \/ ComeDue(s)
                  \/ \E x \in Sweeps : Select(x) \/ Audit(x) \/ Advance(x) \/ SweepDies(x)
                  \/ UNCHANGED subscriptionVars
  PROVE  MonitorsOK' /\ Blank' /\ Kept
<1>1. SubscriptionTypeOK /\ Blank /\ MonitorsOK /\ sweep \in [Sweeps -> SweepRecords]
  BY TypeParts DEF SubIInv
<1>2. disturbed \subseteq disturbed'
  BY DEF Change, ComeDue, Select, Audit, Advance, SweepDies, historyVars, subscriptionVars
<1>3. CASE UNCHANGED monitor
  BY <1>1, <1>2, <1>3, SameMonitor
<1>4. ASSUME NEW r \in Subs, NEW due \in Dues, SetMonitor(r, [monitor[r] EXCEPT !.due = due]), Taken(r)
      PROVE  MonitorsOK' /\ Blank' /\ Kept
  <2> DEFINE m == [monitor[r] EXCEPT !.due = due]
  <2>1. m \in MonitorRows /\ m.sub = monitor[r].sub
    BY <1>1 DEF MonitorsOK, MonitorRows
  <2> HIDE DEF m
  <2>2. SetMonitor(r, m)
    BY <1>4 DEF m
  <2> QED
    BY <1>1, <1>2, <1>4, <2>1, <2>2, PutMonitor DEF Taken
<1>5. ASSUME NEW r \in Subs, ComeDue(r) PROVE MonitorsOK' /\ Blank' /\ Kept
  <2>1. Taken(r)
    BY <1>1, <1>5 DEF ComeDue, Blank, NoRow, Taken
  <2> QED
    BY <1>4, <1>5, <2>1 DEF ComeDue, Dues
<1>6. ASSUME NEW x \in Sweeps, Advance(x), ~UNCHANGED monitor PROVE MonitorsOK' /\ Blank' /\ Kept
  <2>1. /\ SetMonitor(sweep[x].row, [monitor[sweep[x].row] EXCEPT !.due = NextAudit(x)])
        /\ sweep[x].row \in Subs /\ Taken(sweep[x].row)
    BY <1>6 DEF Advance, SubIInv, SweepFine
  <2>2. NextAudit(x) \in Dues
    BY DEF NextAudit, Dues
  <2> QED
    BY <1>4, <2>1, <2>2
<1> QED
  BY <1>3, <1>5, <1>6 DEF Change, Select, Audit, SweepDies, monitorVars, subscriptionVars

-----------------------------------------------------------------------------
(***************************************************************************)
(* Invocations: what a step of one leaves it with.                         *)
(***************************************************************************)
Holds(c, k) == k \in CallRecords /\ call' = [call EXCEPT ![c] = k] /\ CallFine(k)'

LEMMA EndCall ==
  ASSUME NEW c \in Calls, End(c)
  PROVE  \E k : Holds(c, k)
<1>1. IdleCall \in CallRecords /\ CallFine(IdleCall)'
  BY DEF CallFine, IdleCall, NoEvent, CallRecords, Dues, Plans
<1>2. call' = [call EXCEPT ![c] = IdleCall]
  BY DEF End, Step
<1> WITNESS IdleCall
<1> QED
  BY <1>1, <1>2 DEF Holds

\* On to another label of the same event, with something looked up.
LEMMA NextCall ==
  ASSUME SubIInv, NEW c \in Calls, call[c].at # "idle", NEW k \in CallRecords, Step(c, k),
         k.event = Event(c), k.at # "idle",
         Event(c).type = "checkout" => k.at \in CheckoutLabels,
         k.at \in {"write", "point"} => k.row \in Subs /\ Taken(k.row)',
         k.at \in {"create", "join", "link"} => k.row \in Subs,
         k.at = "join" => k.row \in workspaces',
         Event(c).type = "checkout" /\ k.at \in {"notify", "answer"} => Stored(k.event.sub)'
  PROVE  \E q : Holds(c, q)
<1>1. Event(c) \in EventRecords
  BY DEF SubIInv, CallFine, Event
<1>2. CallFine(k)'
  BY <1>1 DEF CallFine, Event, Sub
<1> WITNESS k
<1> QED
  BY <1>2 DEF Step, Holds

\* What is stored stays stored.
LEMMA StaysStored ==
  ASSUME SubscriptionTypeOK, Kept, NEW s \in Subs, Stored(s)
  PROVE  Stored(s)'
BY SubsAssumption DEF Kept, Stored, Taken, Carries

LEMMA GotoCall ==
  ASSUME SubIInv, Kept, NEW c \in Calls, call[c].at # "idle", NEW label \in Labels \ {"write", "point", "create"},
         Goto(c, label),
         label \in {"join", "link"} => call[c].row \in Subs,
         label = "join" => call[c].row \in workspaces',
         Event(c).type = "checkout" =>
           label \in CheckoutLabels /\ (label \in {"notify", "answer"} => \A s : s = Sub(c) => Stored(s)')
  PROVE  \E q : Holds(c, q)
<1>0. PICK k : k = [call[c] EXCEPT !.at = label]
  OBVIOUS
<1>1. call[c] \in CallRecords
  BY TypeParts DEF SubIInv
<1>2. k \in CallRecords /\ k.at = label /\ k.event = Event(c) /\ k.row = call[c].row
  BY <1>0, <1>1 DEF CallRecords, Event
<1>3. Step(c, k)
  BY <1>0 DEF Goto
<1>4. k.at # "idle"
  BY <1>2 DEF Labels
<1>5. Event(c).type = "checkout" /\ label \in {"notify", "answer"} => Stored(k.event.sub)'
  BY <1>2 DEF Event, Sub
<1> QED
  BY <1>2, <1>3, <1>4, <1>5, NextCall

LEMMA CallSteps ==
  ASSUME SubIInv, NEW c \in Calls, (\E e \in events : Deliver(c, e)) \/ Handle(c) \/ CallDies(c)
  PROVE  \E k : Holds(c, k)
<1>1. /\ SubscriptionTypeOK /\ Blank /\ StripeOK /\ MonitorsOK /\ WorkspacesOK
      /\ call[c] \in CallRecords /\ CallFine(call[c])
      /\ call[c].at # "idle" => Event(c) \in EventRecords /\ Sub(c) \in Subs /\ Sub(c) # NoSub
  BY TypeParts, SubsAssumption DEF SubIInv, CallFine, Event, Sub, EventRecords
<1>2. Kept
  BY CallMonitors
<1>3. CASE \E e \in events : Deliver(c, e)
  <2>1. PICK e \in events : Step(c, [IdleCall EXCEPT !.at = Handler(e), !.event = e])
    BY <1>3 DEF Deliver
  <2>0. PICK k : k = [IdleCall EXCEPT !.at = Handler(e), !.event = e]
    OBVIOUS
  <2>2. e \in EventRecords /\ kind[e.sub] \in Kinds
    BY <1>1 DEF StripeOK, EventRecords
  <2>3. /\ Handler(e) \in {"retrieve", "route", "locate", "upsert", "cancel"}
        /\ e.type = "checkout" => Handler(e) = "retrieve"
    BY <2>2 DEF Handler, EventRecords
  <2>4. k \in CallRecords /\ k.at = Handler(e) /\ k.event = e
    BY <2>0, <2>2, <2>3 DEF IdleCall, CallRecords, Labels, Dues, Plans
  <2>5. CallFine(k)'
    BY <2>2, <2>3, <2>4 DEF CallFine, CheckoutLabels
  <2>6. call' = [call EXCEPT ![c] = k]
    BY <2>0, <2>1 DEF Step
  <2> QED
    BY <2>4, <2>5, <2>6 DEF Holds
<1>4. CASE End(c)
  BY <1>4, EndCall
<1>5. ASSUME Throw(c) PROVE End(c)
  BY <1>5 DEF Throw
<1> SUFFICES ASSUME Handle(c), ~End(c), ~Throw(c) PROVE \E k : Holds(c, k)
  BY <1>3, <1>4, <1>5 DEF CallDies
<1>6. CASE Route(c)
  <2>1. PICK label \in {"locate", "owner"} : Goto(c, label)
    BY <1>6 DEF Route
  <2> QED
    BY <1>1, <1>2, <1>6, <2>1, GotoCall DEF Route, At, CallFine, CheckoutLabels, Labels, Event
<1>7. CASE Locate(c)
  <2>0. call[c].at = "locate" /\ Event(c).type # "checkout"
    BY <1>1, <1>7 DEF Locate, At, CallFine, CheckoutLabels, Event
  <2>1. CASE Goto(c, "notify")
    BY <1>2, <2>0, <2>1, GotoCall DEF Labels
  <2>2. CASE \E r \in Subs : Carries(r, Sub(c))
                           /\ Step(c, [call[c] EXCEPT !.at = "write", !.row = r, !.due = monitor[r].due])
    <3>1. PICK r \in Subs : Carries(r, Sub(c))
                           /\ Step(c, [call[c] EXCEPT !.at = "write", !.row = r, !.due = monitor[r].due])
      BY <2>2
    <3>0. PICK k : k = [call[c] EXCEPT !.at = "write", !.row = r, !.due = monitor[r].due]
      OBVIOUS
    <3>2. k \in CallRecords /\ k.at = "write" /\ k.row = r /\ k.event = Event(c)
      BY <1>1, <3>0 DEF CallRecords, MonitorsOK, MonitorRows, Labels, Event
    <3>3. Step(c, k)
      BY <3>0, <3>1
    <3>4. Taken(r)'
      BY <1>1, <1>2, <2>0, <3>1 DEF Kept, Taken, Carries
    <3> QED
      BY <2>0, <3>2, <3>3, <3>4, NextCall
  <2> QED
    BY <1>7, <2>1, <2>2 DEF Locate
<1>8. CASE Write(c)
  BY <1>1, <1>2, <1>8, GotoCall DEF Write, At, CallFine, CheckoutLabels, Labels, Event
<1>9. CASE Retrieve(c)
  <2>1. PICK status \in {"none"} \cup Statuses : Step(c, [call[c] EXCEPT !.at = "seek", !.status = status])
    BY <1>1, <1>9 DEF Retrieve, StripeOK, Statuses, Live, At
  <2>0. PICK k : k = [call[c] EXCEPT !.at = "seek", !.status = status]
    OBVIOUS
  <2>2. k \in CallRecords /\ k.at = "seek" /\ k.event = Event(c)
    BY <1>1, <2>0 DEF CallRecords, Labels, Event
  <2>3. Step(c, k) /\ call[c].at = "retrieve"
    BY <1>9, <2>0, <2>1 DEF Retrieve, At
  <2> QED
    BY <2>2, <2>3, NextCall DEF CheckoutLabels
<1>10. ASSUME NEW r \in Subs, Aim(c, r), Taken(r), call[c].at # "idle"
       PROVE  \E k : Holds(c, k)
  <2>0. PICK k : k = [call[c] EXCEPT !.at = "point", !.row = r, !.due = monitor[r].due]
    OBVIOUS
  <2>1. k \in CallRecords /\ k.at = "point" /\ k.row = r /\ k.event = Event(c)
    BY <1>1, <2>0 DEF CallRecords, MonitorsOK, MonitorRows, Labels, Event
  <2>2. Step(c, k)
    BY <1>10, <2>0 DEF Aim
  <2>3. Taken(r)'
    BY <1>2, <1>10 DEF Kept
  <2> QED
    BY <1>10, <2>1, <2>2, <2>3, NextCall DEF CheckoutLabels
<1>11. CASE Seek(c)
  <2>1. CASE Goto(c, "insert")
    BY <1>2, <1>11, <2>1, GotoCall DEF Seek, At, CheckoutLabels, Labels
  <2>2. CASE \E r \in Subs : Carries(r, Sub(c)) /\ Aim(c, r)
    BY <1>1, <1>10, <1>11, <2>2 DEF Seek, At, Carries, Taken
  <2> QED
    BY <1>11, <2>1, <2>2 DEF Seek
<1>12. CASE Insert(c)
  <2>1. CASE Goto(c, "resolve")
    BY <1>2, <1>12, <2>1, GotoCall DEF Insert, At, CheckoutLabels, Labels
  <2>2. CASE ~Goto(c, "resolve")
    <3>1. PICK r \in Subs : SetMonitor(r, Seeded(c, "unarmed")) /\ Goto(c, "notify")
      BY <1>12, <2>2 DEF Insert, Checked
    <3>2. Seeded(c, "unarmed").sub = Sub(c)
      BY DEF Seeded
    <3>3. \A s : s = Sub(c) => Stored(s)'
      BY <1>1, <3>1, <3>2 DEF SetMonitor, Stored, Carries, MonitorsOK
    <3> QED
      BY <1>2, <1>12, <3>1, <3>3, GotoCall DEF Insert, At, CheckoutLabels, Labels
  <2> QED
    BY <2>1, <2>2
<1>13. CASE Resolve(c)
  <2>1. PICK r \in Subs : (Carries(r, Sub(c)) \/ r \in LiveRows) /\ Aim(c, r)
    BY <1>13 DEF Resolve, LiveRows
  <2>2. Taken(r)
    BY <1>1, <1>13, <2>1 DEF Resolve, At, Carries, Taken, LiveRows, Live, Blank, NoRow
  <2> QED
    BY <1>10, <1>13, <2>1, <2>2 DEF Resolve, At
<1>14. CASE Point(c)
  <2>1. SetMonitor(call[c].row, Seeded(c, monitor[call[c].row].due)) /\ Goto(c, "notify") /\ call[c].row \in Subs
    BY <1>1, <1>14 DEF Point, Checked, CallFine, At
  <2>2. Seeded(c, monitor[call[c].row].due).sub = Sub(c)
    BY DEF Seeded
  <2>3. \A s : s = Sub(c) => Stored(s)'
    BY <1>1, <2>1, <2>2 DEF SetMonitor, Stored, Carries, MonitorsOK
  <2> QED
    BY <1>2, <1>14, <2>1, <2>3, GotoCall DEF Point, At, CheckoutLabels, Labels
<1>15. ASSUME NEW known \in BOOLEAN, NEW label \in {"load", "set"}, call[c].at \in {"upsert", "owner"},
              Step(c, [call[c] EXCEPT !.at = label, !.known = known])
       PROVE  \E k : Holds(c, k)
  <2>0. PICK k : k = [call[c] EXCEPT !.at = label, !.known = known]
    OBVIOUS
  <2>1. k \in CallRecords /\ k.at = label /\ k.event = Event(c)
    BY <1>1, <2>0 DEF CallRecords, Labels, Event
  <2>2. Step(c, k) /\ Event(c).type # "checkout"
    BY <1>1, <1>15, <2>0 DEF CallFine, CheckoutLabels, Event
  <2> QED
    BY <1>15, <2>1, <2>2, NextCall
<1>16. CASE Upsert(c)
  BY <1>15, <1>16 DEF Upsert, Checked, At
<1>17. CASE Owner(c)
  BY <1>15, <1>17 DEF Owner, At
<1>18. CASE Cancel(c)
  <2>1. Goto(c, "load") /\ call[c].at = "cancel"
    BY <1>18 DEF Cancel, Checked, At
  <2> QED
    BY <1>1, <1>2, <2>1, GotoCall DEF CallFine, CheckoutLabels, Labels, Event
<1>19. CASE Set(c)
  <2>1. PICK label \in {"load", "notify"} : Goto(c, label) /\ call[c].at = "set"
    BY <1>19 DEF Set, Checked, At
  <2> QED
    BY <1>1, <1>2, <2>1, GotoCall DEF CallFine, CheckoutLabels, Labels, Event
<1>20. CASE LoadPlan(c)
  <2>0. PICK k : /\ k = [call[c] EXCEPT !.at = "save", !.plan = Best({s \in Subs : row[s] \in Live})]
                 /\ Step(c, k) /\ call[c].at = "load"
    BY <1>20 DEF LoadPlan, At
  <2>1. Best({s \in Subs : row[s] \in Live}) \in Plans
    BY DEF Best, Plans
  <2>2. k \in CallRecords /\ k.at = "save" /\ k.event = Event(c)
    BY <1>1, <2>0, <2>1 DEF CallRecords, Labels, Event
  <2>3. Event(c).type # "checkout"
    BY <1>1, <2>0 DEF CallFine, CheckoutLabels, Event
  <2> QED
    BY <2>0, <2>2, <2>3, NextCall
<1>21. CASE SavePlan(c)
  <2>1. PICK label \in {"provision", "answer", "notify"} : Goto(c, label) /\ call[c].at = "save"
    BY <1>21 DEF SavePlan, Checked, AfterPlan, At
  <2> QED
    BY <1>1, <1>2, <2>1, GotoCall DEF CallFine, CheckoutLabels, Labels, Event
<1>22. CASE Provision(c)
  <2>1. PICK key \in Subs : Step(c, [call[c] EXCEPT !.at = "create", !.row = key]) /\ call[c].at = "provision"
    <3>1. Sub(c) \in Subs /\ Accounts(c) \subseteq Subs /\ call[c].at = "provision"
      BY <1>1, <1>22 DEF Provision, At, Accounts, WorkspacesOK
    <3> QED
      BY <1>22, <3>1 DEF Provision
  <2>2. PICK k : k = [call[c] EXCEPT !.at = "create", !.row = key]
    OBVIOUS
  <2>3. k \in CallRecords /\ k.at = "create" /\ k.row = key /\ k.event = Event(c) /\ Step(c, k)
    BY <1>1, <2>1, <2>2 DEF CallRecords, Labels, Event
  <2>4. Event(c).type # "checkout"
    BY <1>1, <2>1 DEF CallFine, CheckoutLabels, Event
  <2> QED
    BY <2>1, <2>3, <2>4, NextCall
<1>23. CASE Create(c)
  <2>1. call[c].at = "create" /\ call[c].row \in Subs /\ Event(c).type # "checkout"
    BY <1>1, <1>23 DEF Create, At, CallFine, CheckoutLabels, Event
  <2>2. \/ Goto(c, "join") /\ call[c].row \in workspaces'
        \/ Goto(c, "welcome")
    BY <1>23 DEF Create, Swallowed
  <2> QED
    BY <1>2, <2>1, <2>2, GotoCall DEF Labels
<1>24. CASE Join(c)
  <2>1. call[c].at = "join" /\ call[c].row \in Subs /\ Event(c).type # "checkout" /\ Goto(c, "link")
    BY <1>1, <1>24 DEF Join, Swallowed, At, CallFine, CheckoutLabels, Event
  <2> QED
    BY <1>2, <2>1, GotoCall DEF Labels
<1>25. CASE Link(c)
  <2>1. call[c].at = "link" /\ Event(c).type # "checkout" /\ Goto(c, "welcome")
    BY <1>1, <1>25 DEF Link, Swallowed, At, CallFine, CheckoutLabels, Event
  <2> QED
    BY <1>2, <2>1, GotoCall DEF Labels
<1>26. CASE Welcome(c)
  <2>1. call[c].at = "welcome" /\ Event(c).type # "checkout" /\ Goto(c, "answer")
    BY <1>1, <1>26 DEF Welcome, At, CallFine, CheckoutLabels, Event
  <2> QED
    BY <1>2, <2>1, GotoCall DEF Labels
<1>27. CASE Notify(c)
  <2>1. call[c].at = "notify" /\ Goto(c, "answer")
    BY <1>27 DEF Notify, At
  <2>2. Event(c).type = "checkout" => \A s : s = Sub(c) => Stored(s)'
    BY <1>1, <1>2, <2>1, StaysStored DEF CallFine, Event, Sub
  <2> QED
    BY <1>2, <2>1, <2>2, GotoCall DEF Labels, CheckoutLabels
<1> QED
  BY <1>6, <1>7, <1>8, <1>9, <1>11, <1>12, <1>13, <1>14, <1>16, <1>17, <1>18, <1>19, <1>20, <1>21, <1>22,
     <1>23, <1>24, <1>25, <1>26, <1>27 DEF Handle, Answer

-----------------------------------------------------------------------------
(***************************************************************************)
(* The other variables keep their types.                                   *)
(***************************************************************************)
Calling(c) == (\E e \in events : Deliver(c, e)) \/ Handle(c) \/ CallDies(c)
SweepStep(x) == Select(x) \/ Audit(x) \/ Advance(x) \/ SweepDies(x)

LEMMA NextSteps ==
  ASSUME [SubscriptionNext]_subscriptionVars
  PROVE  \/ \E s \in Subs : Change(s) \/ ComeDue(s)
         \/ \E c \in Calls : Calling(c)
         \/ \E x \in Sweeps : SweepStep(x)
         \/ UNCHANGED subscriptionVars
BY DEF SubscriptionNext, Calling, SweepStep

LEMMA StripeStep ==
  ASSUME SubIInv, [SubscriptionNext]_subscriptionVars
  PROVE  StripeOK'
<1>1. StripeOK /\ MailsOK
  BY TypeParts DEF SubIInv
<1>2. CASE UNCHANGED stripeVars /\ events' \subseteq events
  BY <1>1, <1>2 DEF StripeOK, stripeVars
<1>3. ASSUME NEW s \in Subs, Change(s) PROVE StripeOK'
  <2>1. stripe[s] \in {"none"} \cup Statuses /\ version + 1 \in 1..MaxChanges
    BY <1>1, <1>3, BoundsAssumption DEF Change, StripeOK, MailsOK
  <2>2. PICK new \in Follows(stripe[s]) :
          /\ stripe' = [stripe EXCEPT ![s] = new]
          /\ events' = events \cup Emitted(s, stripe[s], new, version + 1)
    BY <1>3 DEF Change
  <2>3. new \in Statuses
    BY <2>1, PortfoliosAssumption DEF Follows, Statuses, Live
  <2>4. Emitted(s, stripe[s], new, version + 1) \subseteq EventRecords
    BY <2>1, <2>3 DEF Emitted, EventRecords, Statuses, Live
  <2>5. version' = version + 1 /\ UNCHANGED kind
    BY <1>3 DEF Change
  <2> QED
    BY <1>1, <2>1, <2>2, <2>3, <2>4, <2>5 DEF StripeOK
<1>4. ASSUME NEW c \in Calls, Calling(c) PROVE UNCHANGED stripeVars /\ events' \subseteq events
  BY <1>4 DEF Calling, Deliver, Handle, Route, Locate, Write, Retrieve, Seek, Insert, Resolve, Point, Upsert, Cancel, Owner,
     Set, LoadPlan, SavePlan, Provision, Create, Join, Link, Welcome, Notify, Answer, CallDies
<1>5. ASSUME NEW x \in Sweeps, SweepStep(x) PROVE UNCHANGED stripeVars /\ events' \subseteq events
  BY <1>5 DEF SweepStep, Select, Audit, Advance, SweepDies
<1>6. ASSUME NEW s \in Subs, ComeDue(s) PROVE UNCHANGED stripeVars /\ events' \subseteq events
  BY <1>6 DEF ComeDue
<1> QED
  BY <1>2, <1>3, <1>4, <1>5, <1>6, NextSteps DEF subscriptionVars, stripeVars

LEMMA WorkspacesStep ==
  ASSUME SubIInv, [SubscriptionNext]_subscriptionVars
  PROVE  WorkspacesOK' /\ workspaces \subseteq workspaces'
<1>1. WorkspacesOK
  BY TypeParts DEF SubIInv
<1>2. CASE UNCHANGED workspaceVars
  BY <1>1, <1>2 DEF WorkspacesOK, workspaceVars
<1>3. ASSUME NEW c \in Calls, Calling(c), ~UNCHANGED workspaceVars
      PROVE  WorkspacesOK' /\ workspaces \subseteq workspaces'
  <2>1. call[c] \in CallRecords /\ CallFine(call[c])
    BY TypeParts DEF SubIInv
  <2>2. call[c].at # "idle" => Sub(c) \in Subs /\ Event(c).status \in Statuses
    BY <2>1 DEF CallFine, Event, Sub, EventRecords
  <2>3. ASSUME NEW status \in Statuses, NEW s \in Subs, SetRow(s, status),
               UNCHANGED <<link, workspaces, members, plan>>
        PROVE  WorkspacesOK' /\ workspaces \subseteq workspaces'
    BY <1>1, <2>3 DEF SetRow, WorkspacesOK
  <2>4. CASE Upsert(c)
    BY <2>2, <2>3, <2>4, <1>3 DEF Upsert, Checked, At, workspaceVars
  <2>5. CASE Cancel(c)
    <3>1. SetRow(Sub(c), "canceled") /\ Sub(c) \in Subs /\ UNCHANGED <<link, workspaces, members, plan>>
      BY <1>3, <2>2, <2>5 DEF Cancel, Checked, At, workspaceVars
    <3> QED
      BY <2>3, <3>1 DEF Statuses
  <2>6. CASE Set(c)
    <3>1. SetRow(Sub(c), Event(c).status) /\ Sub(c) \in Subs /\ Event(c).status \in Statuses
          /\ UNCHANGED <<link, workspaces, members, plan>>
      BY <1>3, <2>2, <2>6 DEF Set, Checked, At, workspaceVars
    <3> QED
      BY <2>3, <3>1
  <2>7. CASE SavePlan(c)
    BY <1>1, <1>3, <2>1, <2>7 DEF SavePlan, Checked, workspaceVars, WorkspacesOK, CallRecords
  <2>8. CASE Create(c)
    <3>1. call[c].row \in Subs
      BY <2>1, <2>8 DEF Create, At, CallFine
    <3> QED
      BY <1>1, <1>3, <2>8, <3>1 DEF Create, Swallowed, workspaceVars, WorkspacesOK
  <2>9. CASE Join(c)
    <3>1. call[c].row \in workspaces
      BY <2>1, <2>9 DEF Join, At, CallFine
    <3> QED
      BY <1>1, <1>3, <2>9, <3>1 DEF Join, Swallowed, workspaceVars, WorkspacesOK
  <2>10. CASE Link(c)
    <3>1. call[c].row \in Subs
      BY <2>1, <2>10 DEF Link, At, CallFine
    <3> QED
      BY <1>1, <1>3, <2>10, <3>1 DEF Link, Swallowed, workspaceVars, WorkspacesOK
  <2> QED
    BY <1>3, <2>4, <2>5, <2>6, <2>7, <2>8, <2>9, <2>10
    DEF Calling, Deliver, Handle, Route, Locate, Write, Retrieve, Seek, Insert, Resolve, Point, Owner,
        LoadPlan, Provision, Welcome, Notify, Answer, CallDies
<1>4. ASSUME NEW x \in Sweeps, SweepStep(x) PROVE UNCHANGED workspaceVars
  BY <1>4 DEF SweepStep, Select, Audit, Advance, SweepDies
<1>5. ASSUME NEW s \in Subs, Change(s) \/ ComeDue(s) PROVE UNCHANGED workspaceVars
  BY <1>5 DEF Change, ComeDue
<1> QED
  BY <1>2, <1>3, <1>4, <1>5, NextSteps DEF subscriptionVars, workspaceVars

LEMMA MailsStep ==
  ASSUME SubIInv, [SubscriptionNext]_subscriptionVars
  PROVE  MailsOK'
<1>1. MailsOK /\ StripeOK /\ sweep \in [Sweeps -> SweepRecords] /\ faults \in Nat
  BY TypeParts, BoundsAssumption DEF SubIInv, HistoryOK
<1>2. CASE UNCHANGED <<mails, months, shared>>
  BY <1>1, <1>2 DEF MailsOK
<1>3. ASSUME NEW r \in Subs, ComeDue(r) PROVE MailsOK'
  <2>1. /\ months' = months + 1 /\ mails' = [mails EXCEPT ![r] = 0] /\ UNCHANGED shared
        /\ version + months + faults < MaxTotal
    BY <1>3 DEF ComeDue, MoreToCome
  <2> QED
    BY <1>1, <2>1, BoundsAssumption DEF MailsOK, StripeOK
<1>4. ASSUME NEW x \in Sweeps, Audit(x), ~UNCHANGED mails PROVE MailsOK'
  <2>1. PICK r \in sweep[x].todo : mails' = [mails EXCEPT ![r] = mails[r] + 1]
    BY <1>1, <1>4 DEF Audit, SweepRecords, MailsOK
  <2>2. r \in Subs /\ UNCHANGED <<months, shared>>
    BY <1>1, <1>4, <2>1 DEF SweepRecords, Audit
  <2> QED
    BY <1>1, <2>1, <2>2 DEF MailsOK
<1>5. ASSUME NEW x \in Sweeps, Select(x) PROVE MailsOK'
  BY <1>1, <1>5 DEF Select, MailsOK, DueRows
<1>6. ASSUME NEW c \in Calls, Calling(c) PROVE UNCHANGED <<mails, months, shared>>
  BY <1>6 DEF Calling, Deliver, Handle, Route, Locate, Write, Retrieve, Seek, Insert, Resolve, Point, Upsert, Cancel, Owner,
     Set, LoadPlan, SavePlan, Provision, Create, Join, Link, Welcome, Notify, Answer, CallDies, monitorVars
<1>7. ASSUME NEW x \in Sweeps, Advance(x) \/ SweepDies(x) PROVE UNCHANGED <<mails, months, shared>>
  BY <1>7 DEF Advance, SweepDies, monitorVars
<1>8. ASSUME NEW s \in Subs, Change(s) PROVE UNCHANGED <<mails, months, shared>>
  BY <1>8 DEF Change, monitorVars
<1>9. ASSUME NEW x \in Sweeps, Audit(x) PROVE UNCHANGED <<months, shared>>
  BY <1>9 DEF Audit
<1> QED
  BY <1>2, <1>3, <1>4, <1>5, <1>6, <1>7, <1>8, <1>9, NextSteps DEF SweepStep, subscriptionVars

LEMMA FaultsStep ==
  ASSUME SubIInv, [SubscriptionNext]_subscriptionVars
  PROVE  faults' \in 0..MaxFaults /\ faults' >= faults
<1>1. faults \in 0..MaxFaults
  BY TypeParts DEF SubIInv, HistoryOK
<1>2. Fault \/ NoFault
  <2>1. ASSUME NEW c \in Calls, Calling(c) PROVE Fault \/ NoFault
    <3>1. CASE Route(c) \/ Locate(c) \/ Write(c) \/ Retrieve(c) \/ Seek(c) \/ Insert(c) \/ Resolve(c) \/ Point(c)
      BY <3>1 DEF Route, Locate, Write, Retrieve, Seek, Insert, Resolve, Point, Checked, NoFault
    <3>2. CASE ~(Route(c) \/ Locate(c) \/ Write(c) \/ Retrieve(c) \/ Seek(c) \/ Insert(c) \/ Resolve(c) \/ Point(c))
      BY <2>1, <3>2 DEF Calling, Deliver, Handle, Upsert, Cancel, Owner, Set, LoadPlan, SavePlan,
         Provision, Create, Join, Link, Welcome, Notify, Answer, CallDies, Checked, Swallowed, NoFault
    <3> QED
      BY <3>1, <3>2
  <2>2. ASSUME NEW x \in Sweeps, SweepStep(x) PROVE Fault \/ NoFault
    BY <2>2 DEF SweepStep, Select, Audit, Advance, SweepDies, NoFault
  <2>3. ASSUME NEW s \in Subs, Change(s) \/ ComeDue(s) PROVE NoFault
    BY <2>3 DEF Change, ComeDue, NoFault
  <2> QED
    BY <2>1, <2>2, <2>3, NextSteps DEF subscriptionVars, NoFault
<1> QED
  BY <1>1, <1>2, BoundsAssumption DEF Fault, NoFault

LEMMA HistoryStep ==
  ASSUME SubIInv, [SubscriptionNext]_subscriptionVars
  PROVE  HistoryOK'
<1>1. HistoryOK /\ MonitorsOK /\ faults' \in 0..MaxFaults
  BY FaultsStep, TypeParts DEF SubIInv
<1>2. CASE UNCHANGED historyVars
  BY <1>1, <1>2 DEF HistoryOK, historyVars
<1>3. ASSUME NEW c \in Calls, Calling(c), ~UNCHANGED historyVars PROVE HistoryOK'
  <2>1. call[c] \in CallRecords /\ CallFine(call[c])
    BY TypeParts DEF SubIInv
  <2>2. call[c].at # "idle" => Sub(c) \in Subs /\ Event(c).version \in 0..MaxChanges
    BY <2>1, BoundsAssumption DEF CallFine, Event, Sub, EventRecords
  <2>3. CASE \E e \in events : Deliver(c, e)
    <3>1. PICK e \in events : Deliver(c, e)
      BY <2>3
    <3>2. e.sub \in Subs
      BY <3>1, TypeParts DEF SubIInv, StripeOK, EventRecords
    <3> QED
      BY <1>1, <3>1, <3>2 DEF Deliver, HistoryOK
  <2>4. ASSUME Unseen(c), call[c].at # "idle" PROVE HistoryOK'
    BY <1>1, <2>2, <2>4 DEF Unseen, HistoryOK
  <2>5. CASE Write(c) \/ Point(c)
    <3>1. call[c].row \in Subs /\ monitor[call[c].row].sub \in Subs /\ call[c].at # "idle"
      BY <1>1, <2>1, <2>5 DEF Write, Point, At, CallFine, Taken, MonitorsOK, MonitorRows
    <3>2. \/ Unseen(c)
          \/ disturbed' = disturbed \cup ({monitor[call[c].row].sub} \ {Sub(c)}) /\ UNCHANGED <<handled, raced>>
      BY <1>3, <2>5 DEF Write, Point, Seen
    <3> QED
      BY <1>1, <2>4, <3>1, <3>2 DEF HistoryOK
  <2>6. CASE Answer(c)
    <3>1. /\ handled' = [handled EXCEPT ![Sub(c)] = IF Event(c).version > @ THEN Event(c).version ELSE @]
          /\ UNCHANGED <<disturbed, raced>> /\ call[c].at # "idle"
      BY <2>6 DEF Answer, At
    <3> QED
      BY <1>1, <2>2, <3>1 DEF HistoryOK
  <2>7. CASE Route(c) \/ Locate(c) \/ Retrieve(c) \/ Owner(c) \/ Create(c) \/ Join(c) \/ Link(c)
    <3>1. Unseen(c) /\ call[c].at # "idle"
      BY <1>3, <2>7 DEF Route, Locate, Retrieve, Owner, Create, Join, Link, Swallowed, Seen, At
    <3> QED
      BY <2>4, <3>1
  <2> QED
    BY <1>3, <2>3, <2>5, <2>6, <2>7
    DEF Calling, Handle, Seek, Insert, Resolve, Upsert, Cancel, Set, LoadPlan, SavePlan, Provision, Welcome,
        Notify, CallDies, historyVars
<1>4. ASSUME NEW x \in Sweeps, SweepStep(x) PROVE UNCHANGED historyVars
  BY <1>4 DEF SweepStep, Select, Audit, Advance, SweepDies
<1>5. ASSUME NEW s \in Subs, Change(s) \/ ComeDue(s) PROVE UNCHANGED historyVars
  BY <1>5 DEF Change, ComeDue
<1> QED
  BY <1>2, <1>3, <1>4, <1>5, NextSteps DEF subscriptionVars, historyVars

LEMMA SweepsStep ==
  ASSUME SubIInv, [SubscriptionNext]_subscriptionVars, Kept
  PROVE  sweep' \in [Sweeps -> SweepRecords] /\ \A x \in Sweeps : SweepFine(x)'
<1>1. /\ sweep \in [Sweeps -> SweepRecords] /\ MonitorsOK /\ Blank
      /\ \A x \in Sweeps : SweepFine(x)
  BY TypeParts DEF SubIInv
<1>2. CASE UNCHANGED sweep
  BY <1>1, <1>2 DEF SweepFine, Kept, SweepRecords
<1>3. ASSUME NEW x \in Sweeps, NEW n \in SweepRecords, Sweeping(x, n), \A r \in n.todo : Taken(r),
             n.at = "advance" => n.row \in Subs /\ Taken(n.row)
      PROVE  sweep' \in [Sweeps -> SweepRecords] /\ \A y \in Sweeps : SweepFine(y)'
  BY <1>1, <1>3 DEF Sweeping, SweepFine, Kept, SweepRecords
<1>4. ASSUME NEW x \in Sweeps, SweepStep(x)
      PROVE  sweep' \in [Sweeps -> SweepRecords] /\ \A y \in Sweeps : SweepFine(y)'
  <2>1. sweep[x] \in SweepRecords /\ SweepFine(x)
    BY <1>1
  <2>2. CASE Select(x)
    <3>1. PICK n : n = [IdleSweep EXCEPT !.at = "audit", !.todo = DueRows]
      OBVIOUS
    <3>2. n \in SweepRecords /\ n.at = "audit" /\ n.todo = DueRows
      BY <3>1 DEF IdleSweep, SweepRecords, DueRows
    <3>3. \A r \in DueRows : Taken(r)
      BY <1>1 DEF DueRows, Taken, Blank, NoRow
    <3> QED
      BY <1>3, <2>2, <3>1, <3>2, <3>3 DEF Select
  <2>3. CASE Audit(x)
    <3>1. PICK r \in sweep[x].todo, told \in BOOLEAN :
            Sweeping(x, [at |-> "advance", todo |-> sweep[x].todo \ {r}, row |-> r, told |-> told])
      BY <2>3 DEF Audit
    <3>2. PICK n : n = [at |-> "advance", todo |-> sweep[x].todo \ {r}, row |-> r, told |-> told]
      OBVIOUS
    <3>3. n \in SweepRecords /\ n.at = "advance" /\ n.todo = sweep[x].todo \ {r} /\ n.row = r /\ r \in Subs
      BY <2>1, <3>1, <3>2 DEF SweepRecords
    <3> QED
      BY <1>3, <2>1, <3>1, <3>2, <3>3 DEF SweepFine
  <2>4. CASE Advance(x)
    <3>1. PICK n : n = Rest(x)
      OBVIOUS
    <3>2. n \in SweepRecords /\ n.at # "advance" /\ n.todo = sweep[x].todo
      BY <2>1, <3>1 DEF Rest, IdleSweep, SweepRecords
    <3> QED
      BY <1>3, <2>1, <2>4, <3>1, <3>2 DEF SweepFine, Advance
  <2>5. CASE SweepDies(x)
    <3>1. IdleSweep \in SweepRecords /\ IdleSweep.at = "idle" /\ IdleSweep.todo = {}
      BY DEF IdleSweep, SweepRecords
    <3> QED
      BY <1>3, <2>5, <3>1 DEF SweepDies
  <2> QED
    BY <1>4, <2>2, <2>3, <2>4, <2>5 DEF SweepStep
<1>5. ASSUME NEW c \in Calls, Calling(c) PROVE UNCHANGED sweep
  BY <1>5 DEF Calling, Deliver, Handle, Route, Locate, Write, Retrieve, Seek, Insert, Resolve, Point, Upsert, Cancel, Owner,
     Set, LoadPlan, SavePlan, Provision, Create, Join, Link, Welcome, Notify, Answer, CallDies
<1>6. ASSUME NEW s \in Subs, Change(s) \/ ComeDue(s) PROVE UNCHANGED sweep
  BY <1>6 DEF Change, ComeDue
<1> QED
  BY <1>2, <1>4, <1>5, <1>6, NextSteps DEF subscriptionVars

LEMMA CallsStep ==
  ASSUME SubIInv, [SubscriptionNext]_subscriptionVars, Kept
  PROVE  call' \in [Calls -> CallRecords] /\ \A c \in Calls : CallFine(call[c])'
<1>1. /\ SubscriptionTypeOK /\ call \in [Calls -> CallRecords] /\ workspaces \subseteq workspaces'
      /\ \A c \in Calls : CallFine(call[c])
  BY TypeParts, WorkspacesStep DEF SubIInv
<1>2. ASSUME NEW k \in CallRecords, CallFine(k) PROVE CallFine(k)'
  <2>1. k.row \in Subs /\ Taken(k.row) => Taken(k.row)'
    BY DEF Kept
  <2>2. k.event.type = "checkout" /\ k.at \in {"notify", "answer"} => Stored(k.event.sub)'
    <3>1. k.at \in {"notify", "answer"} => k.event.sub \in Subs
      BY <1>2 DEF CallFine, EventRecords
    <3> QED
      BY <1>1, <1>2, <3>1, StaysStored DEF CallFine
  <2> QED
    BY <1>1, <1>2, <2>1, <2>2 DEF CallFine
<1>3. CASE UNCHANGED call
  BY <1>1, <1>2, <1>3
<1>4. ASSUME NEW c \in Calls, Calling(c)
      PROVE  call' \in [Calls -> CallRecords] /\ \A d \in Calls : CallFine(call[d])'
  <2>1. PICK k : k \in CallRecords /\ call' = [call EXCEPT ![c] = k] /\ CallFine(k)'
    BY <1>4, CallSteps DEF Calling, Holds
  <2>2. ASSUME NEW d \in Calls PROVE CallFine(call[d])'
    <3>1. PICK q : q = call'[d]
      OBVIOUS
    <3>2. q = k \/ (q = call[d] /\ q \in CallRecords)
      BY <1>1, <2>1, <3>1
    <3>3. CallFine(q)'
      BY <1>1, <1>2, <2>1, <3>2
    <3> QED
      BY <3>1, <3>3
  <2> QED
    BY <1>1, <2>1, <2>2
<1>5. ASSUME NEW x \in Sweeps, SweepStep(x) PROVE UNCHANGED call
  BY <1>5 DEF SweepStep, Select, Audit, Advance, SweepDies
<1>6. ASSUME NEW s \in Subs, Change(s) \/ ComeDue(s) PROVE UNCHANGED call
  BY <1>6 DEF Change, ComeDue
<1> QED
  BY <1>3, <1>4, <1>5, <1>6, NextSteps DEF subscriptionVars

-----------------------------------------------------------------------------
LEMMA SubscriptionsStep == SubIInv /\ [SubscriptionNext]_subscriptionVars => SubIInv'
<1> SUFFICES ASSUME SubIInv, [SubscriptionNext]_subscriptionVars PROVE SubIInv'
  OBVIOUS
<1>1. MonitorsOK' /\ Blank' /\ Kept
  BY CallMonitors, OtherMonitors, NextSteps DEF Calling, SweepStep
<1>2. call' \in [Calls -> CallRecords] /\ \A c \in Calls : CallFine(call[c])'
  BY <1>1, CallsStep
<1>3. sweep' \in [Sweeps -> SweepRecords] /\ \A x \in Sweeps : SweepFine(x)'
  BY <1>1, SweepsStep
<1>4. StripeOK' /\ WorkspacesOK' /\ MailsOK' /\ HistoryOK'
  BY StripeStep, WorkspacesStep, MailsStep, HistoryStep
<1>5. SubscriptionTypeOK'
  BY <1>1, <1>2, <1>3, <1>4
  DEF SubscriptionTypeOK, StripeOK, WorkspacesOK, MonitorsOK, OneEach, MailsOK, HistoryOK,
      MonitorRows, CallRecords, SweepRecords, Dues
<1> QED
  BY <1>1, <1>2, <1>3, <1>5 DEF SubIInv

LEMMA AlwaysSubIInv == SubscriptionSpec => []SubIInv
BY SubscriptionsStart, SubscriptionsStep, PTL DEF SubscriptionSpec

(***************************************************************************)
(* The state of the subscriptions has its type, in which a subscription    *)
(* is carried by one row of monitors at most.                              *)
(***************************************************************************)
THEOREM SubscriptionTypeCorrect == SubscriptionSpec => []SubscriptionTypeOK
<1>1. SubIInv => SubscriptionTypeOK
  BY DEF SubIInv
<1> QED
  BY <1>1, AlwaysSubIInv, PTL

(***************************************************************************)
(* A checkout is not answered with 200 before a row carries the            *)
(* subscription, for any subscriptions and any number of events handled at *)
(* one time: about handleMonitorCheckoutCompleted and its insert.          *)
(***************************************************************************)
THEOREM SeedIsAlwaysStored == SubscriptionSpec => SeedIsStored
<1> DEFINE Step_ == \A e \in events \ events' :
                      e.type = "checkout" => e.sub \in disturbed \/ \E r \in Subs : Carries(r, e.sub)
<1>1. SubIInv /\ [SubscriptionNext]_subscriptionVars => [Step_]_subscriptionVars
  <2> SUFFICES ASSUME SubIInv, [SubscriptionNext]_subscriptionVars,
                      NEW e \in events \ events', e.type = "checkout"
               PROVE  Stored(e.sub)
    BY DEF Stored
  <2>1. PICK c \in Calls : Answer(c)
    <3>1. ASSUME NEW c \in Calls, Calling(c), ~Answer(c) PROVE events' = events
      BY <3>1 DEF Calling, Deliver, Handle, Route, Locate, Write, Retrieve, Seek, Insert, Resolve, Point, Upsert, Cancel,
         Owner, Set, LoadPlan, SavePlan, Provision, Create, Join, Link, Welcome, Notify, CallDies
    <3>2. ASSUME NEW x \in Sweeps, SweepStep(x) PROVE events' = events
      BY <3>2 DEF SweepStep, Select, Audit, Advance, SweepDies
    <3>3. ASSUME NEW s \in Subs, Change(s) \/ ComeDue(s) PROVE events \subseteq events'
      BY <3>3 DEF Change, ComeDue
    <3> QED
      BY <3>1, <3>2, <3>3, NextSteps DEF subscriptionVars
  <2>2. e = call[c].event /\ call[c].at = "answer"
    BY <2>1 DEF Answer, At, Event
  <2>3. CallFine(call[c])
    BY DEF SubIInv
  <2> QED
    BY <2>2, <2>3 DEF CallFine
<1>2. SeedIsStored <=> [][Step_]_subscriptionVars
  BY DEF SeedIsStored
<1> QED
  BY <1>1, <1>2, AlwaysSubIInv, PTL DEF SubscriptionSpec

-----------------------------------------------------------------------------
(***************************************************************************)
(* The month of a monitor.  Sweeps that run at one time may all have a row *)
(* on their lists: each mails it once.  A sweep whose mail was reported as *)
(* failed makes the row due again, and then each may mail it once more.    *)
(* So what a row can still cost is charged to it: a mail for each sweep    *)
(* that has it on its list or may put it there, and a mail of each sweep   *)
(* for each sweep that will make it due.                                   *)
(***************************************************************************)
Number == Cardinality(Sweeps)

\* Sweeps that may mail the row before its date moves.
Mailing(r) == {x \in Sweeps : r \in sweep[x].todo \/ (monitor[r].due = "due" /\ ~Advancing(x, r))}

\* Sweeps that will make the row due.
Failed(r) == {x \in Sweeps : Advancing(x, r) /\ ~sweep[x].told}

Charge(r) == mails[r] + Cardinality(Mailing(r)) + Number * Cardinality(Failed(r))

MonthIInv ==
  /\ SubIInv /\ HandsOK
  /\ \A r \in Subs : Cardinality(Failed(r)) <= faults /\ Charge(r) <= Number * (1 + faults)

\* The webhook makes no row due.
LEMMA CallsMakeNothingDue ==
  ASSUME SubIInv, NEW c \in Calls, Calling(c), NEW r \in Subs, monitor'[r].due = "due"
  PROVE  monitor[r].due = "due"
<1>1. MonitorsOK /\ call[c] \in CallRecords /\ CallFine(call[c])
  BY TypeParts DEF SubIInv
<1>2. ASSUME NEW q \in Subs, NEW m \in MonitorRows, SetMonitor(q, m), m.due = "due" => monitor[q].due = "due"
      PROVE  monitor[r].due = "due"
  BY <1>1, <1>2 DEF SetMonitor, MonitorsOK
<1>3. \A status, due : Due(c, status, due) \in {due, "later"}
  BY DEF Due
<1>4. CASE Write(c) /\ ~UNCHANGED monitor
  <2>1. call[c].row \in Subs /\ Event(c).status \in Statuses
    BY <1>1, <1>4 DEF Write, At, CallFine, Event, EventRecords
  <2>2. PICK due : due = Due(c, Event(c).status, monitor[call[c].row].due)
    OBVIOUS
  <2>3. PICK m : m = [monitor[call[c].row] EXCEPT !.status = Event(c).status, !.due = due]
    OBVIOUS
  <2>4. due \in {monitor[call[c].row].due, "later"}
    BY <1>3, <2>2
  <2>5. m \in MonitorRows /\ (m.due = "due" => monitor[call[c].row].due = "due")
    BY <1>1, <2>1, <2>3, <2>4 DEF MonitorsOK, MonitorRows, Dues
  <2>6. SetMonitor(call[c].row, m)
    BY <1>4, <2>2, <2>3 DEF Write, Written
  <2> QED
    BY <1>2, <2>1, <2>5, <2>6
<1>5. ASSUME NEW q \in Subs, NEW due \in Dues, SetMonitor(q, Seeded(c, due)), call[c].at # "idle",
             due = "due" => monitor[q].due = "due"
      PROVE  monitor[r].due = "due"
  <2>1. Due(c, call[c].status, due) \in {due, "later"} /\ "later" \in Dues
    BY <1>3 DEF Dues
  <2>2. Seeded(c, due) \in MonitorRows /\ Seeded(c, due).due \in {due, "later"}
    BY <1>1, <1>5, <2>1 DEF Seeded, MonitorRows, CallRecords, CallFine, EventRecords, Sub
  <2> QED
    BY <1>2, <1>5, <2>2
<1>6. CASE Insert(c) /\ ~UNCHANGED monitor
  <2>1. PICK q \in Subs : SetMonitor(q, Seeded(c, "unarmed"))
    BY <1>6 DEF Insert, Checked, monitorVars
  <2> QED
    BY <1>5, <1>6, <2>1 DEF Insert, At, Dues
<1>7. CASE Point(c) /\ ~UNCHANGED monitor
  <2>1. SetMonitor(call[c].row, Seeded(c, monitor[call[c].row].due)) /\ call[c].row \in Subs
    BY <1>1, <1>7 DEF Point, Checked, At, CallFine
  <2>2. monitor[call[c].row].due \in Dues
    BY <1>1, <2>1 DEF MonitorsOK, MonitorRows
  <2> QED
    BY <1>5, <1>7, <2>1, <2>2 DEF Point, At
<1>8. CASE UNCHANGED monitor
  BY <1>8
<1> QED
  BY <1>4, <1>6, <1>7, <1>8
  DEF Calling, Deliver, Handle, Route, Locate, Retrieve, Seek, Resolve, Upsert, Cancel, Owner, Set, LoadPlan, SavePlan,
      Provision, Create, Join, Link, Welcome, Notify, Answer, CallDies, monitorVars

\* Counts of sweeps.
LEMMA Counted ==
  ASSUME NEW S \in SUBSET Sweeps
  PROVE  IsFiniteSet(S) /\ Cardinality(S) \in Nat /\ Cardinality(S) <= Number
BY SweepsAssumption, FS_Subset, FS_CardinalityType DEF Number

LEMMA Fewer ==
  ASSUME NEW S \in SUBSET Sweeps, NEW T \in SUBSET S
  PROVE  Cardinality(T) <= Cardinality(S)
BY Counted, FS_Subset

LEMMA OneLess ==
  ASSUME NEW S \in SUBSET Sweeps, NEW x \in S, NEW T \in SUBSET (S \ {x})
  PROVE  Cardinality(T) + 1 <= Cardinality(S)
<1>1. IsFiniteSet(S) /\ Cardinality(S) \in Nat /\ Cardinality(T) \in Nat
  BY Counted
<1>2. IsFiniteSet(S \ {x}) /\ Cardinality(S \ {x}) = Cardinality(S) - 1
  BY <1>1, FS_RemoveElement
<1>3. Cardinality(T) <= Cardinality(S \ {x})
  BY <1>2, FS_Subset
<1> QED
  BY <1>1, <1>2, <1>3

LEMMA OneMore ==
  ASSUME NEW S \in SUBSET Sweeps, NEW x \in Sweeps, NEW T \in SUBSET (S \cup {x})
  PROVE  Cardinality(T) <= Cardinality(S) + 1
<1>1. IsFiniteSet(S) /\ Cardinality(S) \in Nat /\ Cardinality(T) \in Nat
  BY Counted
<1>2. IsFiniteSet(S \cup {x}) /\ Cardinality(S \cup {x}) <= Cardinality(S) + 1
  BY <1>1, FS_AddElement
<1>3. Cardinality(T) <= Cardinality(S \cup {x}) /\ Cardinality(S \cup {x}) \in Nat
  BY <1>2, FS_Subset, FS_CardinalityType
<1> QED
  BY <1>1, <1>2, <1>3

LEMMA Product ==
  ASSUME NEW n \in Nat, NEW a \in Nat, NEW b \in Nat, a <= b
  PROVE  n * a \in Nat /\ n * a <= n * b /\ n * (a + 1) = n * a + n
<1>1. PICK d \in Nat : b = a + d
  <2>1. b - a \in Nat /\ b = a + (b - a)
    OBVIOUS
  <2> QED
    BY <2>1
<1>2. n * b = n * a + n * d /\ n * d \in Nat /\ n * a \in Nat
  BY <1>1
<1> QED
  BY <1>2

\* The same of the charge: u mails and m sweeps that may mail, k that make due,
\* and f faults become v, w, l and g.
LEMMA SameRound ==
  ASSUME NEW N \in Nat, NEW u \in Nat, NEW m \in Nat, NEW k \in Nat, NEW f \in Nat,
         NEW v \in Nat, NEW w \in Nat, NEW l \in Nat, NEW g \in Nat,
         k <= f, u + m + N * k <= N * (1 + f), v + w <= u + m, l <= k, f <= g
  PROVE  l <= g /\ v + w + N * l <= N * (1 + g)
<1>1. N * l <= N * k /\ N * l \in Nat /\ N * k \in Nat
  BY Product
<1>2. PICK a \in Nat, b \in Nat : a = 1 + f /\ b = 1 + g
  OBVIOUS
<1>3. a <= b
  BY <1>2
<1>4. N * a <= N * b /\ N * a \in Nat /\ N * b \in Nat
  BY <1>3, Product
<1> QED
  BY <1>1, <1>2, <1>4

LEMMA FirstRound ==
  ASSUME NEW N \in Nat, NEW w \in Nat, NEW l \in Nat, NEW g \in Nat, l <= g, w <= N
  PROVE  w + N * l <= N * (1 + g)
<1>1. N * l <= N * g /\ N * l \in Nat /\ N * g \in Nat /\ N * (g + 1) = N * g + N
  BY Product
<1>2. PICK a \in Nat : a = g + 1
  OBVIOUS
<1>3. 1 + g = a
  BY <1>2
<1> QED
  BY <1>1, <1>2, <1>3

LEMMA NextRound ==
  ASSUME NEW N \in Nat, NEW u \in Nat, NEW m \in Nat, NEW k \in Nat, NEW f \in Nat,
         NEW v \in Nat, NEW w \in Nat, NEW l \in Nat, NEW g \in Nat,
         k <= f, u + m + N * k <= N * (1 + f), v <= u, w <= N, l <= k, g = f + 1
  PROVE  l <= g /\ v + w + N * l <= N * (1 + g)
<1>1. N * l <= N * k /\ N * l \in Nat /\ N * k \in Nat
  BY Product
<1>2. PICK a \in Nat : a = 1 + f
  OBVIOUS
<1>3. N * (a + 1) = N * a + N /\ N * a \in Nat
  BY Product
<1>4. 1 + g = a + 1
  BY <1>2
<1> QED
  BY <1>1, <1>2, <1>3, <1>4

LEMMA FailedRound ==
  ASSUME NEW N \in Nat, NEW u \in Nat, NEW m \in Nat, NEW k \in Nat, NEW f \in Nat,
         NEW v \in Nat, NEW w \in Nat, NEW l \in Nat, NEW g \in Nat,
         k <= f, u + m + N * k <= N * (1 + f), v + w <= u + m, l <= k + 1, g = f + 1
  PROVE  l <= g /\ v + w + N * l <= N * (1 + g)
<1>1. PICK a \in Nat, b \in Nat : a = 1 + f /\ b = k + 1
  OBVIOUS
<1>2. N * l <= N * b /\ N * l \in Nat /\ N * b \in Nat
  BY <1>1, Product
<1>3. N * (k + 1) = N * k + N /\ N * k \in Nat
  BY Product
<1>4. N * (a + 1) = N * a + N /\ N * a \in Nat
  BY Product
<1>5. 1 + g = a + 1
  BY <1>1
<1> QED
  BY <1>1, <1>2, <1>3, <1>4, <1>5

LEMMA DueRound ==
  ASSUME NEW N \in Nat, NEW u \in Nat, NEW m \in Nat, NEW k \in Nat, NEW f \in Nat,
         NEW v \in Nat, NEW w \in Nat, NEW l \in Nat, NEW g \in Nat,
         k <= f, u + m + N * k <= N * (1 + f), v <= u, w <= N, l + 1 <= k, f <= g
  PROVE  l <= g /\ v + w + N * l <= N * (1 + g)
<1>1. PICK b \in Nat, a \in Nat, c \in Nat : b = l + 1 /\ a = 1 + f /\ c = 1 + g
  OBVIOUS
<1>2. N * b <= N * k /\ N * b \in Nat /\ N * k \in Nat
  BY <1>1, Product
<1>3. N * (l + 1) = N * l + N /\ N * l \in Nat
  BY Product
<1>4. a <= c
  BY <1>1
<1>5. N * a <= N * c /\ N * a \in Nat /\ N * c \in Nat
  BY <1>4, Product
<1> QED
  BY <1>1, <1>2, <1>3, <1>5

-----------------------------------------------------------------------------
(***************************************************************************)
(* What a step does to the charge of a row.                                *)
(***************************************************************************)
Eased(r) == mails'[r] <= mails[r] /\ Mailing(r)' \subseteq Mailing(r) /\ Failed(r)' \subseteq Failed(r)

Mailed(x, r) ==
  /\ mails'[r] <= mails[r] + 1 /\ x \in Mailing(r)
  /\ Mailing(r)' \subseteq Mailing(r) \ {x} /\ Failed(r)' \subseteq Failed(r)

MailFailed(x, r) ==
  /\ mails'[r] <= mails[r] + 1 /\ x \in Mailing(r) /\ faults' = faults + 1
  /\ Mailing(r)' \subseteq Mailing(r) \ {x} /\ Failed(r)' \subseteq Failed(r) \cup {x}

DueAgain(x, r) == mails'[r] <= mails[r] /\ x \in Failed(r) /\ Failed(r)' \subseteq Failed(r) \ {x}

Faulted(r) == mails'[r] <= mails[r] /\ faults' = faults + 1 /\ Failed(r)' \subseteq Failed(r)

MonthPassed(r) == mails'[r] = 0 /\ Failed(r)' \subseteq Failed(r)

ChargedStep(r) ==
  \/ Eased(r) \/ Faulted(r) \/ MonthPassed(r)
  \/ \E x \in Sweeps : Mailed(x, r) \/ MailFailed(x, r) \/ DueAgain(x, r)

LEMMA ChargeStays ==
  ASSUME MonthIInv, MailsOK', faults' \in Nat, faults' >= faults, NEW r \in Subs, ChargedStep(r)
  PROVE  (Cardinality(Failed(r)) <= faults)' /\ (Charge(r) <= Number * (1 + faults))'
<1>1. mails[r] \in Nat /\ mails'[r] \in Nat /\ faults \in Nat
  BY TypeParts, BoundsAssumption DEF MonthIInv, SubIInv, MailsOK, HistoryOK
<1>2. /\ Mailing(r) \in SUBSET Sweeps /\ Failed(r) \in SUBSET Sweeps
      /\ Mailing(r)' \in SUBSET Sweeps /\ Failed(r)' \in SUBSET Sweeps
  BY DEF Mailing, Failed
<1>3. PICK N \in Nat : N = Number
  BY SweepsAssumption, FS_CardinalityType DEF Number
<1>4. PICK u \in Nat, v \in Nat, f \in Nat, g \in Nat :
        u = mails[r] /\ v = mails'[r] /\ f = faults /\ g = faults'
  BY <1>1
<1>5. PICK m \in Nat, k \in Nat, w \in Nat, l \in Nat :
        /\ m = Cardinality(Mailing(r)) /\ k = Cardinality(Failed(r))
        /\ w = Cardinality(Mailing(r)') /\ l = Cardinality(Failed(r)')
  BY <1>2, Counted
<1>6. w <= N /\ f <= g
  BY <1>2, <1>3, <1>4, <1>5, Counted
<1>7. k <= f /\ u + m + N * k <= N * (1 + f)
  BY <1>3, <1>4, <1>5 DEF MonthIInv, Charge
<1>8. SUFFICES l <= g /\ v + w + N * l <= N * (1 + g)
  BY <1>3, <1>4, <1>5, <1>8 DEF Charge, Number
<1>9. CASE Eased(r)
  <2>1. v <= u /\ w <= m /\ l <= k
    BY <1>2, <1>4, <1>5, <1>9, Fewer DEF Eased
  <2> QED
    BY <1>6, <1>7, <2>1, SameRound
<1>10. CASE Faulted(r)
  <2>1. v <= u /\ l <= k /\ g = f + 1
    BY <1>2, <1>4, <1>5, <1>10, Fewer DEF Faulted
  <2> QED
    BY <1>6, <1>7, <2>1, NextRound
<1>11. CASE MonthPassed(r)
  <2>1. v = 0 /\ l <= k
    BY <1>2, <1>4, <1>5, <1>11, Fewer DEF MonthPassed
  <2>2. l <= f
    BY <1>7, <2>1
  <2> QED
    BY <1>6, <2>1, <2>2, FirstRound
<1>12. ASSUME NEW x \in Sweeps, Mailed(x, r) PROVE l <= g /\ v + w + N * l <= N * (1 + g)
  <2>1. v <= u + 1 /\ w + 1 <= m /\ l <= k
    BY <1>2, <1>4, <1>5, <1>12, Fewer, OneLess DEF Mailed
  <2> QED
    BY <1>6, <1>7, <2>1, SameRound
<1>13. ASSUME NEW x \in Sweeps, MailFailed(x, r) PROVE l <= g /\ v + w + N * l <= N * (1 + g)
  <2>1. v <= u + 1 /\ w + 1 <= m /\ l <= k + 1 /\ g = f + 1
    BY <1>2, <1>4, <1>5, <1>13, OneLess, OneMore DEF MailFailed
  <2> QED
    BY <1>7, <2>1, FailedRound
<1>14. ASSUME NEW x \in Sweeps, DueAgain(x, r) PROVE l <= g /\ v + w + N * l <= N * (1 + g)
  <2>1. v <= u /\ l + 1 <= k
    BY <1>2, <1>4, <1>5, <1>14, OneLess DEF DueAgain
  <2> QED
    BY <1>6, <1>7, <2>1, DueRound
<1> QED
  BY <1>9, <1>10, <1>11, <1>12, <1>13, <1>14 DEF ChargedStep

-----------------------------------------------------------------------------
LEMMA ChargeSteps ==
  ASSUME SubIInv, [SubscriptionNext]_subscriptionVars, NEW r \in Subs
  PROVE  ChargedStep(r)
<1>1. /\ mails \in [Subs -> Nat] /\ MonitorsOK /\ sweep \in [Sweeps -> SweepRecords] /\ faults \in Nat
  BY TypeParts, BoundsAssumption DEF SubIInv, HistoryOK, MailsOK
<1>2. CASE UNCHANGED <<sweep, mails>> /\ (monitor'[r].due = "due" => monitor[r].due = "due")
  BY <1>1, <1>2 DEF ChargedStep, Eased, Mailing, Failed, Advancing
<1>3. ASSUME NEW c \in Calls, Calling(c) PROVE ChargedStep(r)
  <2>1. UNCHANGED <<sweep, mails>>
    BY <1>3 DEF Calling, Deliver, Handle, Route, Locate, Write, Retrieve, Seek, Insert, Resolve, Point, Upsert, Cancel, Owner,
       Set, LoadPlan, SavePlan, Provision, Create, Join, Link, Welcome, Notify, Answer, CallDies, monitorVars
  <2> QED
    BY <1>2, <1>3, <2>1, CallsMakeNothingDue
<1>4. ASSUME NEW s \in Subs, Change(s) PROVE ChargedStep(r)
  BY <1>2, <1>4 DEF Change, monitorVars
<1>5. ASSUME NEW s \in Subs, ComeDue(s) PROVE ChargedStep(r)
  <2>1. UNCHANGED sweep /\ mails' = [mails EXCEPT ![s] = 0]
    BY <1>5 DEF ComeDue
  <2>2. CASE s = r
    BY <1>1, <2>1, <2>2 DEF ChargedStep, MonthPassed, Failed, Advancing
  <2>3. CASE s # r
    <3>1. monitor'[r] = monitor[r] /\ mails'[r] = mails[r]
      BY <1>1, <1>5, <2>1, <2>3 DEF ComeDue, SetMonitor, MonitorsOK
    <3> QED
      BY <1>1, <2>1, <3>1 DEF ChargedStep, Eased, Mailing, Failed, Advancing
  <2> QED
    BY <2>2, <2>3
<1>6. ASSUME NEW x \in Sweeps, Select(x) PROVE ChargedStep(r)
  <2>1. UNCHANGED <<monitor, mails>> /\ sweep[x].at = "idle"
    BY <1>6 DEF Select, monitorVars
  <2>2. sweep' = [sweep EXCEPT ![x] = [IdleSweep EXCEPT !.at = "audit", !.todo = DueRows]]
    BY <1>6 DEF Select, Sweeping
  <2>3. /\ sweep'[x].at = "audit" /\ sweep'[x].todo = DueRows
        /\ \A y \in Sweeps \ {x} : sweep'[y] = sweep[y]
    BY <1>1, <2>2 DEF IdleSweep
  <2>4. Mailing(r)' \subseteq Mailing(r) /\ Failed(r)' \subseteq Failed(r)
    BY <2>1, <2>3 DEF Mailing, Failed, Advancing, DueRows
  <2> QED
    BY <1>1, <2>1, <2>4 DEF ChargedStep, Eased
<1>7. ASSUME NEW x \in Sweeps, Audit(x) PROVE ChargedStep(r)
  <2>1. PICK q \in sweep[x].todo, told \in BOOLEAN :
          /\ Sweeping(x, [at |-> "advance", todo |-> sweep[x].todo \ {q}, row |-> q, told |-> told])
          /\ mails' = [mails EXCEPT ![q] = mails[q] + 1] \/ UNCHANGED mails
          /\ IF told THEN NoFault ELSE Fault
    BY <1>1, <1>7 DEF Audit, MailsOK
  <2>2. UNCHANGED monitor /\ sweep[x].at = "audit" /\ q \in Subs
    BY <1>1, <1>7 DEF Audit, SweepRecords
  <2>3. /\ sweep'[x].at = "advance" /\ sweep'[x].row = q /\ sweep'[x].told = told
        /\ sweep'[x].todo = sweep[x].todo \ {q}
        /\ \A y \in Sweeps \ {x} : sweep'[y] = sweep[y]
    BY <1>1, <2>1 DEF Sweeping
  <2>4. CASE q # r
    <3>1. mails'[r] = mails[r]
      BY <1>1, <2>1, <2>2, <2>4
    <3>2. Mailing(r)' \subseteq Mailing(r) /\ Failed(r)' \subseteq Failed(r)
      BY <2>2, <2>3, <2>4 DEF Mailing, Failed, Advancing
    <3> QED
      BY <1>1, <3>1, <3>2 DEF ChargedStep, Eased
  <2>5. CASE q = r
    <3>1. mails'[r] <= mails[r] + 1
      BY <1>1, <2>1, <2>2, <2>5
    <3>2. x \in Mailing(r) /\ Mailing(r)' \subseteq Mailing(r) \ {x}
      BY <2>1, <2>2, <2>3, <2>5 DEF Mailing, Advancing
    <3>3. Failed(r)' \subseteq (IF told THEN Failed(r) ELSE Failed(r) \cup {x})
      BY <2>3, <2>5 DEF Failed, Advancing
    <3> QED
      BY <2>1, <3>1, <3>2, <3>3 DEF ChargedStep, Mailed, MailFailed, Fault
  <2> QED
    BY <2>4, <2>5
<1>8. ASSUME NEW x \in Sweeps, Advance(x) PROVE ChargedStep(r)
  <2>1. UNCHANGED mails /\ sweep[x].at = "advance" /\ sweep' = [sweep EXCEPT ![x] = Rest(x)]
    BY <1>8 DEF Advance, Sweeping
  <2>2. /\ sweep'[x].at # "advance" /\ sweep'[x].todo = sweep[x].todo
        /\ \A y \in Sweeps \ {x} : sweep'[y] = sweep[y]
    BY <1>1, <2>1 DEF Rest, IdleSweep
  <2>3. Failed(r)' \subseteq Failed(r) \ {x}
    BY <2>2 DEF Failed, Advancing
  <2>4. mails'[r] <= mails[r]
    BY <1>1, <2>1
  <2>5. CASE Fault
    BY <2>3, <2>4, <2>5 DEF ChargedStep, Faulted, Fault
  <2>6. CASE ~Fault
    <3>1. PICK q : q = sweep[x].row
      OBVIOUS
    <3>2. SetMonitor(q, [monitor[q] EXCEPT !.due = NextAudit(x)])
      BY <1>8, <2>6, <3>1 DEF Advance
    <3>3. q \in Subs /\ monitor[q] \in MonitorRows
      BY <1>1, <2>1, <3>1 DEF SubIInv, SweepFine, MonitorsOK
    <3>4. monitor'[q].due = NextAudit(x) /\ \A p \in Subs \ {q} : monitor'[p] = monitor[p]
      BY <1>1, <3>2, <3>3 DEF SetMonitor, MonitorsOK, MonitorRows
    <3>5. CASE q # r
      <4>1. monitor'[r] = monitor[r]
        BY <3>4, <3>5
      <4>2. Mailing(r)' \subseteq Mailing(r)
        BY <2>2, <3>1, <3>5, <4>1 DEF Mailing, Advancing
      <4> QED
        BY <2>3, <2>4, <4>2 DEF ChargedStep, Eased
    <3>6. CASE q = r /\ sweep[x].told
      <4>1. monitor'[r].due # "due"
        BY <3>4, <3>6 DEF NextAudit
      <4>2. Mailing(r)' \subseteq Mailing(r)
        BY <2>2, <4>1 DEF Mailing
      <4> QED
        BY <2>3, <2>4, <4>2 DEF ChargedStep, Eased
    <3>7. CASE q = r /\ ~sweep[x].told
      <4>1. x \in Failed(r)
        BY <2>1, <3>1, <3>7 DEF Failed, Advancing
      <4> QED
        BY <2>3, <2>4, <4>1 DEF ChargedStep, DueAgain
    <3> QED
      BY <3>5, <3>6, <3>7
  <2> QED
    BY <2>5, <2>6
<1>9. ASSUME NEW x \in Sweeps, SweepDies(x) PROVE ChargedStep(r)
  <2>1. UNCHANGED mails /\ faults' = faults + 1 /\ sweep' = [sweep EXCEPT ![x] = IdleSweep]
    BY <1>9 DEF SweepDies, Sweeping, Fault, monitorVars
  <2>2. sweep'[x].at # "advance" /\ \A y \in Sweeps \ {x} : sweep'[y] = sweep[y]
    BY <1>1, <2>1 DEF IdleSweep
  <2>3. Failed(r)' \subseteq Failed(r)
    BY <2>2 DEF Failed, Advancing
  <2> QED
    BY <1>1, <2>1, <2>3 DEF ChargedStep, Faulted
<1>10. CASE UNCHANGED subscriptionVars
  BY <1>2, <1>10 DEF subscriptionVars
<1> QED
  BY <1>3, <1>4, <1>5, <1>6, <1>7, <1>8, <1>9, <1>10, NextSteps DEF SweepStep

-----------------------------------------------------------------------------
(***************************************************************************)
(* A row that no two sweeps have had in hand.                              *)
(***************************************************************************)
LEMMA HandsKept ==
  ASSUME SubIInv, MailsOK', faults' \in Nat, faults' >= faults, NEW r \in Subs, HandedOnce(r),
         shared \subseteq shared',
         r \notin shared' =>
           /\ \A x \in Sweeps : InHand(x, r)' => InHand(x, r)
           /\ mails'[r] <= mails[r]
           /\ faults' = faults + 1 \/ (ToBeMailed(r)' => ToBeMailed(r))
  PROVE  HandedOnce(r)'
<1>1. mails[r] \in Nat /\ mails'[r] \in Nat /\ faults \in Nat
  BY TypeParts, BoundsAssumption DEF SubIInv, MailsOK, HistoryOK
<1>2. SUFFICES ASSUME r \notin shared'
               PROVE  /\ \A x, y \in Sweeps : InHand(x, r)' /\ InHand(y, r)' => x = y
                      /\ mails'[r] <= 1 + faults'
                      /\ ToBeMailed(r)' => mails'[r] <= faults'
  BY DEF HandedOnce
<1>3. /\ \A x, y \in Sweeps : InHand(x, r) /\ InHand(y, r) => x = y
      /\ mails[r] <= 1 + faults
      /\ ToBeMailed(r) => mails[r] <= faults
  BY <1>2 DEF HandedOnce
<1> QED
  BY <1>1, <1>2, <1>3

LEMMA HandsSteps ==
  ASSUME SubIInv, SubIInv', [SubscriptionNext]_subscriptionVars, NEW r \in Subs, HandedOnce(r)
  PROVE  HandedOnce(r)'
<1>1. /\ mails \in [Subs -> Nat] /\ MonitorsOK /\ sweep \in [Sweeps -> SweepRecords] /\ faults \in Nat
      /\ MailsOK' /\ faults' \in Nat /\ faults' >= faults
  BY TypeParts, FaultsStep, MailsStep, BoundsAssumption DEF SubIInv, HistoryOK, MailsOK
<1>2. CASE UNCHANGED <<sweep, mails, shared>> /\ (monitor'[r].due = "due" => monitor[r].due = "due")
  <2>1. \A x \in Sweeps : InHand(x, r)' => InHand(x, r)
    BY <1>2 DEF InHand, Advancing
  <2>2. ToBeMailed(r)' => ToBeMailed(r)
    BY <1>2 DEF ToBeMailed, Advancing
  <2> QED
    BY <1>1, <1>2, <2>1, <2>2, HandsKept
<1>3. ASSUME NEW c \in Calls, Calling(c) PROVE HandedOnce(r)'
  <2>1. UNCHANGED <<sweep, mails, shared>>
    BY <1>3 DEF Calling, Deliver, Handle, Route, Locate, Write, Retrieve, Seek, Insert, Resolve, Point, Upsert, Cancel, Owner,
       Set, LoadPlan, SavePlan, Provision, Create, Join, Link, Welcome, Notify, Answer, CallDies, monitorVars
  <2> QED
    BY <1>2, <1>3, <2>1, CallsMakeNothingDue
<1>4. ASSUME NEW s \in Subs, Change(s) PROVE HandedOnce(r)'
  BY <1>2, <1>4 DEF Change, monitorVars
<1>5. ASSUME NEW s \in Subs, ComeDue(s) PROVE HandedOnce(r)'
  <2>1. UNCHANGED <<sweep, shared, faults>> /\ mails' = [mails EXCEPT ![s] = 0]
    BY <1>5 DEF ComeDue
  <2>2. CASE s = r
    <3>1. mails'[r] = 0
      BY <1>1, <2>1, <2>2
    <3> QED
      BY <1>1, <2>1, <3>1 DEF HandedOnce, InHand, Advancing
  <2>3. CASE s # r
    <3>1. monitor'[r] = monitor[r] /\ mails'[r] = mails[r]
      BY <1>1, <1>5, <2>1, <2>3 DEF ComeDue, SetMonitor, MonitorsOK
    <3>2. (ToBeMailed(r)' => ToBeMailed(r)) /\ \A x \in Sweeps : InHand(x, r)' => InHand(x, r)
      BY <2>1, <3>1 DEF ToBeMailed, InHand, Advancing
    <3> QED
      BY <1>1, <2>1, <3>1, <3>2, HandsKept
  <2> QED
    BY <2>2, <2>3
<1>6. ASSUME NEW x \in Sweeps, Select(x) PROVE HandedOnce(r)'
  <2>1. UNCHANGED <<monitor, mails, faults>> /\ sweep[x].at = "idle"
    BY <1>6 DEF Select
  <2>2. sweep' = [sweep EXCEPT ![x] = [IdleSweep EXCEPT !.at = "audit", !.todo = DueRows]]
    BY <1>6 DEF Select, Sweeping
  <2>3. /\ sweep'[x].at = "audit" /\ sweep'[x].todo = DueRows
        /\ \A y \in Sweeps \ {x} : sweep'[y] = sweep[y]
    BY <1>1, <2>2 DEF IdleSweep
  <2>4. shared' = shared \cup {q \in DueRows : \E y \in Sweeps : InHand(y, q)}
    BY <1>6 DEF Select
  <2>5. CASE r \notin DueRows
    <3>1. (ToBeMailed(r)' => ToBeMailed(r)) /\ \A y \in Sweeps : InHand(y, r)' => InHand(y, r)
      BY <2>1, <2>3, <2>5 DEF ToBeMailed, InHand, Advancing
    <3> QED
      BY <1>1, <2>1, <2>4, <3>1, HandsKept
  <2>6. CASE r \in DueRows /\ r \notin shared'
    <3>1. r \notin shared /\ \A y \in Sweeps : ~InHand(y, r)
      BY <2>4, <2>6
    <3>2. ToBeMailed(r)
      BY <2>6, <3>1 DEF ToBeMailed, DueRows, InHand
    <3>3. mails[r] <= faults /\ mails[r] <= 1 + faults
      BY <3>1, <3>2 DEF HandedOnce
    <3>4. \A y \in Sweeps : InHand(y, r)' => y = x
      BY <2>3, <3>1 DEF InHand, Advancing
    <3> QED
      BY <2>1, <3>3, <3>4 DEF HandedOnce
  <2> QED
    BY <2>5, <2>6 DEF HandedOnce
<1>7. ASSUME NEW x \in Sweeps, Audit(x) PROVE HandedOnce(r)'
  <2>1. PICK q \in sweep[x].todo, told \in BOOLEAN :
          /\ Sweeping(x, [at |-> "advance", todo |-> sweep[x].todo \ {q}, row |-> q, told |-> told])
          /\ mails' = [mails EXCEPT ![q] = mails[q] + 1] \/ UNCHANGED mails
          /\ IF told THEN NoFault ELSE Fault
    BY <1>1, <1>7 DEF Audit, MailsOK
  <2>2. UNCHANGED <<monitor, shared>> /\ sweep[x].at = "audit" /\ q \in Subs
    BY <1>1, <1>7 DEF Audit, SweepRecords
  <2>3. /\ sweep'[x].at = "advance" /\ sweep'[x].row = q /\ sweep'[x].told = told
        /\ sweep'[x].todo = sweep[x].todo \ {q}
        /\ \A y \in Sweeps \ {x} : sweep'[y] = sweep[y]
    BY <1>1, <2>1 DEF Sweeping
  <2>4. CASE q # r
    <3>1. mails'[r] = mails[r]
      BY <1>1, <2>1, <2>2, <2>4
    <3>2. (ToBeMailed(r)' => ToBeMailed(r)) /\ \A y \in Sweeps : InHand(y, r)' => InHand(y, r)
      BY <2>2, <2>3, <2>4 DEF ToBeMailed, InHand, Advancing
    <3> QED
      BY <1>1, <2>2, <3>1, <3>2, HandsKept
  <2>5. CASE q = r /\ r \notin shared
    <3>1. ToBeMailed(r) /\ InHand(x, r)
      BY <2>1, <2>5 DEF ToBeMailed, InHand
    <3>2. mails[r] <= faults /\ \A y \in Sweeps \ {x} : ~InHand(y, r)
      BY <2>5, <3>1 DEF HandedOnce
    <3>3. mails'[r] <= mails[r] + 1 /\ mails'[r] \in Nat /\ mails[r] \in Nat
      BY <1>1, <2>1, <2>2, <2>5
    <3>4. \A y \in Sweeps : InHand(y, r)' => y = x
      BY <2>3, <3>2 DEF InHand, Advancing
    <3>5. CASE told
      <4>1. ~ToBeMailed(r)'
        BY <2>3, <2>5, <3>2, <3>5 DEF ToBeMailed, InHand, Advancing
      <4> QED
        BY <1>1, <3>2, <3>3, <3>4, <4>1 DEF HandedOnce
    <3>6. CASE ~told
      <4>1. faults' = faults + 1
        BY <2>1, <3>6 DEF Fault
      <4> QED
        BY <1>1, <3>2, <3>3, <3>4, <4>1 DEF HandedOnce
    <3> QED
      BY <3>5, <3>6
  <2> QED
    BY <2>2, <2>4, <2>5 DEF HandedOnce
<1>8. ASSUME NEW x \in Sweeps, Advance(x) PROVE HandedOnce(r)'
  <2>1. UNCHANGED <<mails, shared>> /\ sweep[x].at = "advance" /\ sweep' = [sweep EXCEPT ![x] = Rest(x)]
    BY <1>8 DEF Advance, Sweeping
  <2>2. /\ sweep'[x].at # "advance" /\ sweep'[x].todo = sweep[x].todo
        /\ \A y \in Sweeps \ {x} : sweep'[y] = sweep[y]
    BY <1>1, <2>1 DEF Rest, IdleSweep
  <2>3. mails'[r] <= mails[r] /\ \A y \in Sweeps : InHand(y, r)' => InHand(y, r)
    BY <1>1, <2>1, <2>2 DEF InHand, Advancing
  <2>4. CASE Fault
    BY <1>1, <2>1, <2>3, <2>4, HandsKept DEF Fault
  <2>5. CASE ~Fault
    <3>1. PICK q : q = sweep[x].row
      OBVIOUS
    <3>2. SetMonitor(q, [monitor[q] EXCEPT !.due = NextAudit(x)])
      BY <1>8, <2>5, <3>1 DEF Advance
    <3>3. q \in Subs /\ monitor[q] \in MonitorRows
      BY <1>1, <2>1, <3>1 DEF SubIInv, SweepFine, MonitorsOK
    <3>4. monitor'[q].due = NextAudit(x) /\ \A p \in Subs \ {q} : monitor'[p] = monitor[p]
      BY <1>1, <3>2, <3>3 DEF SetMonitor, MonitorsOK, MonitorRows
    <3>5. CASE q # r
      <4>1. monitor'[r] = monitor[r]
        BY <3>4, <3>5
      <4>2. ToBeMailed(r)' => ToBeMailed(r)
        BY <2>2, <3>1, <3>5, <4>1 DEF ToBeMailed, Advancing
      <4> QED
        BY <1>1, <2>1, <2>3, <4>2, HandsKept
    <3>6. CASE q = r /\ ~sweep[x].told
      <4>1. ToBeMailed(r)
        BY <2>1, <3>1, <3>6 DEF ToBeMailed, Advancing
      <4> QED
        BY <1>1, <2>1, <2>3, <4>1, HandsKept
    <3>7. CASE q = r /\ sweep[x].told
      <4>1. monitor'[r].due # "due"
        BY <3>4, <3>7 DEF NextAudit
      <4>2. ToBeMailed(r)' => ToBeMailed(r)
        BY <2>2, <4>1 DEF ToBeMailed, Advancing
      <4> QED
        BY <1>1, <2>1, <2>3, <4>2, HandsKept
    <3> QED
      BY <3>5, <3>6, <3>7
  <2> QED
    BY <2>4, <2>5
<1>9. ASSUME NEW x \in Sweeps, SweepDies(x) PROVE HandedOnce(r)'
  <2>1. UNCHANGED <<mails, shared>> /\ faults' = faults + 1 /\ sweep' = [sweep EXCEPT ![x] = IdleSweep]
    BY <1>9 DEF SweepDies, Sweeping, Fault, monitorVars
  <2>2. /\ sweep'[x].at # "advance" /\ sweep'[x].todo = {}
        /\ \A y \in Sweeps \ {x} : sweep'[y] = sweep[y]
    BY <1>1, <2>1 DEF IdleSweep
  <2>3. mails'[r] <= mails[r] /\ \A y \in Sweeps : InHand(y, r)' => InHand(y, r)
    BY <1>1, <2>1, <2>2 DEF InHand, Advancing
  <2> QED
    BY <1>1, <2>1, <2>3, HandsKept
<1>10. CASE UNCHANGED subscriptionVars
  BY <1>2, <1>10 DEF subscriptionVars
<1> QED
  BY <1>3, <1>4, <1>5, <1>6, <1>7, <1>8, <1>9, <1>10, NextSteps DEF SweepStep

(***************************************************************************)
(* The report of a month is mailed once, and once more for each fault,     *)
(* unless two sweeps had the row in hand at one time; then each of the     *)
(* sweeps may mail it, and once more for each fault.  For any              *)
(* subscriptions, sweeps, events and limits: about runDueMonitorAudits,    *)
(* which mails before it moves the date and claims nothing.                *)
(***************************************************************************)
THEOREM MonthIsAlwaysMailedOnce == SubscriptionSpec => []MonthIsMailedOnce
<1>1. SubscriptionInit => MonthIInv
  <2> SUFFICES ASSUME SubscriptionInit PROVE MonthIInv
    OBVIOUS
  <2>1. \A r \in Subs : mails[r] = 0 /\ Mailing(r) = {} /\ Failed(r) = {}
    BY DEF SubscriptionInit, IdleSweep, NoRow, Mailing, Failed, Advancing
  <2>2. faults = 0 /\ Number \in Nat /\ Cardinality({}) = 0
    BY SweepsAssumption, FS_CardinalityType, FS_EmptySet DEF SubscriptionInit, Number
  <2>3. Number * 0 = 0 /\ Number * (1 + 0) = Number
    BY <2>2
  <2>4. \A r \in Subs : Charge(r) = 0 /\ Cardinality(Failed(r)) = 0
    BY <2>1, <2>2, <2>3 DEF Charge
  <2>5. \A x \in Sweeps, r \in Subs : ~InHand(x, r)
    BY DEF SubscriptionInit, IdleSweep, InHand, Advancing
  <2>6. HandsOK
    BY <2>1, <2>2, <2>5 DEF HandsOK, HandedOnce
  <2> QED
    BY <2>2, <2>3, <2>4, <2>6, SubscriptionsStart DEF MonthIInv
<1>2. MonthIInv /\ [SubscriptionNext]_subscriptionVars => MonthIInv'
  <2> SUFFICES ASSUME MonthIInv, [SubscriptionNext]_subscriptionVars PROVE MonthIInv'
    OBVIOUS
  <2>1. SubIInv' /\ MailsOK' /\ faults' \in Nat /\ faults' >= faults
    BY SubscriptionsStep, MailsStep, FaultsStep, BoundsAssumption DEF MonthIInv
  <2>2. \A r \in Subs : ChargedStep(r)
    BY ChargeSteps DEF MonthIInv
  <2>3. HandsOK'
    BY <2>1, HandsSteps DEF MonthIInv, HandsOK
  <2> QED
    BY <2>1, <2>2, <2>3, ChargeStays DEF MonthIInv
<1>3. MonthIInv => MonthIsMailedOnce
  <2> SUFFICES ASSUME MonthIInv, NEW r \in Subs PROVE mails[r] <= Mailers(r) * (1 + faults)
    BY DEF MonthIsMailedOnce
  <2>1. mails[r] \in Nat /\ faults \in Nat
    BY TypeParts, BoundsAssumption DEF MonthIInv, SubIInv, MailsOK, HistoryOK
  <2>2. Mailing(r) \in SUBSET Sweeps /\ Failed(r) \in SUBSET Sweeps
    BY DEF Mailing, Failed
  <2>3. /\ Number \in Nat /\ Cardinality(Mailing(r)) \in Nat /\ Cardinality(Failed(r)) \in Nat
    BY <2>2, Counted, SweepsAssumption, FS_CardinalityType DEF Number
  <2>4. Number * Cardinality(Failed(r)) \in Nat /\ Number * (1 + faults) \in Nat
    BY <2>1, <2>3, Product
  <2>5. CASE r \in shared
    <3>1. mails[r] <= Number * (1 + faults)
      BY <2>1, <2>3, <2>4 DEF MonthIInv, Charge
    <3> QED
      BY <2>5, <3>1 DEF Mailers, Number
  <2>6. CASE r \notin shared
    <3>1. mails[r] <= 1 + faults
      BY <2>6 DEF MonthIInv, HandsOK, HandedOnce
    <3>2. Mailers(r) = 1
      BY <2>6 DEF Mailers
    <3> QED
      BY <2>1, <3>1, <3>2
  <2> QED
    BY <2>5, <2>6
<1> QED
  BY <1>1, <1>2, <1>3, PTL DEF SubscriptionSpec

=============================================================================
