---------------------- MODULE SubscriptionsAnswered_proofs ----------------------
(***************************************************************************)
(* Proofs about the subscriptions of one customer, continued: once every   *)
(* event of a subscription is answered, its row is live if it is live at   *)
(* Stripe and only then, and a live one has its workspace; once all events *)
(* are answered, the plan is the best of what is paid for.  Both hold for  *)
(* any subscriptions, invocations of the webhook, sweeps and limits.       *)
(*                                                                         *)
(* The first argument is about one event: the newest change that Stripe    *)
(* still delivers.  As long as it is pending, rows may be wrong; it is     *)
(* answered only by an invocation that has written what it says, and no    *)
(* later event says otherwise.  The second is about the plan that an       *)
(* invocation carries from the rows to the customer.                       *)
(***************************************************************************)
EXTENDS Subscriptions_proofs

EventsOf(s) == {e \in events : e.sub = s}
Main(e) == e.type \in {"changed", "deleted"}
Newest(e) == handled[e.sub] <= e.version /\ \A f \in EventsOf(e.sub) : f.version <= e.version
Pending(s) == \E e \in EventsOf(s) : Main(e) /\ Newest(e)
Agrees(s, status) == status \in Live <=> stripe[s] \in Live
Believed(s, status) == Agrees(s, status) \/ Pending(s)
HasRow(s) == \E r \in Subs : Carries(r, s)

\* Either the newest change is pending, or nothing newer than what was answered.
EventsFine ==
  /\ \A e \in events : /\ e.version <= version
                       /\ e.type = "deleted" => e.status = "canceled"
                       /\ Newest(e) => Agrees(e.sub, e.status)
  /\ \A s \in Subs : handled[s] <= version
  /\ \A s \in Subs : Pending(s) \/ \A e \in EventsOf(s) : e.version <= handled[s]

LinksFine == \A s \in Subs : link[s] \in workspaces \cup {NoSub}

\* An invocation works alone on an event that is still to be answered.
Alone(c) ==
  call[c].at # "idle" /\ Sub(c) \notin disturbed =>
    /\ Event(c) \in events /\ Event(c).version >= handled[Sub(c)]
    /\ \A d \in Calls \ {c} : Sub(d) # Sub(c)

MonitorLabels == {"locate", "write", "notify", "answer"}
ChangeLabels == {"upsert", "load", "save", "provision", "create", "join", "link", "welcome", "answer"}

\* The way of an event through the handlers.
OnItsWay(k) ==
  /\ k.event.version <= version
  /\ k.at # "idle" => k.event \in events \/ k.event.version <= handled[k.event.sub]
  /\ Main(k.event) /\ kind[k.event.sub] = "monitor" => k.at \in MonitorLabels
  /\ k.event.type = "changed" /\ kind[k.event.sub] # "monitor" => k.at \in ChangeLabels
  /\ k.at = "cancel" => k.event.type = "deleted"
  /\ k.at = "link" => k.row \in workspaces

\* What the rows say of the event that an invocation is at.
RowTold(k) ==
  /\ k.event.type = "changed" /\ k.at # "upsert" => row[k.event.sub] = k.event.status
  /\ k.event.type = "deleted" /\ k.at # "cancel" => row[k.event.sub] \notin Live

LinkTold(k) ==
  k.event.type = "changed" =>
    /\ k.at \in {"load", "save"} /\ k.known => link[k.event.sub] \in workspaces
    /\ k.event.status \in Live /\ k.at \in {"welcome", "answer"} => link[k.event.sub] \in workspaces

MonitorTold(k) ==
  /\ Main(k.event) /\ k.at \in {"notify", "answer"} =>
       \A r \in Subs : Carries(r, k.event.sub) => monitor[r].status = k.event.status
  /\ k.at \in {"seek", "insert", "resolve", "point"} => Believed(k.event.sub, k.status)
  /\ k.at = "write" => Carries(k.row, k.event.sub)

Told(k) ==
  k.at # "idle" /\ k.event.sub \notin disturbed =>
    IF kind[k.event.sub] = "monitor" THEN MonitorTold(k) ELSE RowTold(k) /\ LinkTold(k)

\* What the rows say of a subscription.
MonitorTrue(s) ==
  IF HasRow(s) THEN Believed(s, IF IsLive(s) THEN "active" ELSE "none")
  ELSE stripe[s] \in {"none", "incomplete", "canceled"} \/ \E e \in EventsOf(s) : e.type = "checkout"

WorkspaceTrue(s) ==
  /\ Believed(s, row[s])
  /\ stripe[s] \in Live => \/ link[s] \in workspaces
                           \/ \E e \in EventsOf(s) : e.type = "changed" /\ e.status \in Live

RowsTrue(s) == s \notin disturbed => IF kind[s] = "monitor" THEN MonitorTrue(s) ELSE WorkspaceTrue(s)

AnswerIInv ==
  /\ SubIInv /\ EventsFine /\ LinksFine
  /\ \A c \in Calls : Alone(c) /\ OnItsWay(call[c]) /\ Told(call[c])
  /\ \A s \in Subs : RowsTrue(s)

LEMMA AnswersStart == SubscriptionInit => AnswerIInv
<1> SUFFICES ASSUME SubscriptionInit PROVE AnswerIInv
  OBVIOUS
<1>1. /\ events = {} /\ version = 0 /\ handled = [s \in Subs |-> 0] /\ stripe = [s \in Subs |-> "none"]
      /\ link = [s \in Subs |-> NoSub] /\ row = [s \in Subs |-> "none"]
      /\ \A r \in Subs : monitor[r].sub = NoSub
      /\ \A c \in Calls : call[c] = IdleCall
  BY DEF SubscriptionInit, NoRow
<1>2. EventsFine /\ LinksFine
  BY <1>1 DEF EventsFine, LinksFine, EventsOf
<1>3. \A c \in Calls : Alone(c) /\ OnItsWay(call[c]) /\ Told(call[c])
  BY <1>1 DEF Alone, OnItsWay, Told, IdleCall, NoEvent, Main
<1>4. \A s \in Subs : RowsTrue(s)
  BY <1>1, SubsAssumption
  DEF RowsTrue, MonitorTrue, WorkspaceTrue, HasRow, Carries, Believed, Agrees, Live
<1> QED
  BY <1>2, <1>3, <1>4, SubscriptionsStart DEF AnswerIInv

(***************************************************************************)
(* The invariant says what is wanted.                                      *)
(***************************************************************************)
LEMMA AnsweredThenTrue == AnswerIInv => AnsweredMeansTrue
<1> SUFFICES ASSUME AnswerIInv, NEW s \in Subs \ disturbed, Quiet(s)
             PROVE  /\ IsLive(s) <=> stripe[s] \in Live
                    /\ stripe[s] \in Live /\ kind[s] # "monitor" => link[s] \in workspaces
  BY DEF AnsweredMeansTrue
<1>1. EventsOf(s) = {} /\ ~Pending(s)
  BY DEF Quiet, EventsOf, Pending
<1>2. RowsTrue(s)
  BY DEF AnswerIInv
<1>3. CASE kind[s] = "monitor"
  BY <1>1, <1>2, <1>3 DEF RowsTrue, MonitorTrue, Believed, Agrees, HasRow, IsLive, LiveRows, Live
<1>4. CASE kind[s] # "monitor"
  BY <1>1, <1>2, <1>4 DEF RowsTrue, WorkspaceTrue, Believed, Agrees, IsLive
<1> QED
  BY <1>3, <1>4

-----------------------------------------------------------------------------
(***************************************************************************)
(* Events.                                                                 *)
(***************************************************************************)
\* What an event says that is not older than the answered ones.
LEMMA NewestOrPending ==
  ASSUME SubIInv, EventsFine, NEW e \in events, e.version >= handled[e.sub]
  PROVE  Believed(e.sub, e.status)
<1>1. StripeOK /\ e.sub \in Subs /\ e \in EventsOf(e.sub) /\ e.version \in Int
  BY TypeParts DEF SubIInv, StripeOK, EventRecords, EventsOf
<1>2. HistoryOK /\ \A f \in events : f.version \in Int
  BY <1>1, TypeParts DEF SubIInv, StripeOK, EventRecords
<1>3. CASE Pending(e.sub)
  BY <1>3 DEF Believed
<1>4. CASE ~Pending(e.sub)
  <2>1. \A f \in EventsOf(e.sub) : f.version <= handled[e.sub]
    BY <1>1, <1>4 DEF EventsFine
  <2>2. handled[e.sub] \in Int
    BY <1>1, <1>2 DEF HistoryOK
  <2>3. Newest(e)
    BY <1>1, <1>2, <2>1, <2>2 DEF Newest, EventsOf
  <2> QED
    BY <2>3 DEF EventsFine, Believed
<1> QED
  BY <1>3, <1>4

\* Everything about Stripe and its events.
feedVars == <<kind, stripe, version, events, handled>>

LEMMA SameFeed ==
  ASSUME UNCHANGED feedVars
  PROVE  /\ EventsFine => EventsFine'
         /\ \A s, status : Believed(s, status)' <=> Believed(s, status)
         /\ \A s : EventsOf(s)' = EventsOf(s)
BY DEF feedVars, EventsFine, Believed, Pending, Newest, EventsOf, Main, Agrees

-----------------------------------------------------------------------------
(***************************************************************************)
(* What a step leaves alone, seen from one subscription.                   *)
(***************************************************************************)
Same(s) ==
  /\ row'[s] = row[s] /\ link'[s] = link[s]
  /\ \A r \in Subs : Carries(r, s)' <=> Carries(r, s)
  /\ \A r \in Subs : Carries(r, s) => monitor'[r].status = monitor[r].status

Grows == UNCHANGED kind /\ disturbed \subseteq disturbed' /\ workspaces \subseteq workspaces'

\* What was believed is believed, and no checkout or change has gone.
StillBelieved(s) ==
  /\ \A status \in {"none"} \cup Statuses : Believed(s, status) => Believed(s, status)'
  /\ EventsOf(s) \subseteq EventsOf(s)'
  /\ stripe'[s] = stripe[s]

LEMMA SameRows ==
  ASSUME SubIInv, NEW s \in Subs, Same(s)
  PROVE  (HasRow(s)' <=> HasRow(s)) /\ (kind'[s] = kind[s] => (IsLive(s)' <=> IsLive(s)))
BY DEF Same, HasRow, IsLive, LiveRows, Carries

LEMMA RowsStayTrue ==
  ASSUME SubIInv, Grows, NEW s \in Subs, Same(s), StillBelieved(s), RowsTrue(s)
  PROVE  RowsTrue(s)'
<1>1. /\ HasRow(s)' <=> HasRow(s)
      /\ IsLive(s)' <=> IsLive(s)
  BY SameRows DEF Grows
<1>2. row[s] \in {"none"} \cup Statuses
  BY TypeParts DEF SubIInv, WorkspacesOK
<1>3. CASE kind[s] = "monitor"
  <2>1. MonitorTrue(s) => MonitorTrue(s)'
    BY <1>1 DEF MonitorTrue, StillBelieved, Statuses, Live
  <2> QED
    BY <1>3, <2>1 DEF RowsTrue, Grows
<1>4. CASE kind[s] # "monitor"
  <2>1. WorkspaceTrue(s) => WorkspaceTrue(s)'
    BY <1>2 DEF WorkspaceTrue, StillBelieved, Same, Grows
  <2> QED
    BY <1>4, <2>1 DEF RowsTrue, Grows
<1> QED
  BY <1>3, <1>4

LEMMA StaysTold ==
  ASSUME SubIInv, Grows, NEW k \in CallRecords, k.event.sub \in Subs, Same(k.event.sub),
         \A status \in {"none"} \cup Statuses : Believed(k.event.sub, status) => Believed(k.event.sub, status)',
         k.at = "write" => k.row \in Subs,
         Told(k)
  PROVE  Told(k)'
<1>1. k.status \in {"none"} \cup Statuses
  BY DEF CallRecords
<1>2. MonitorTold(k) => MonitorTold(k)'
  BY <1>1 DEF MonitorTold, Main, Same
<1>3. RowTold(k) /\ LinkTold(k) => RowTold(k)' /\ LinkTold(k)'
  BY DEF RowTold, LinkTold, Same, Grows
<1> QED
  BY <1>2, <1>3 DEF Told, Grows

LEMMA StaysOnItsWay ==
  ASSUME Grows, version' \in Int, version \in Int, version <= version', NEW k \in CallRecords,
         k.event.version \in Int, OnItsWay(k),
         k.at # "idle" => k.event \in events' \/ k.event.version <= handled'[k.event.sub]
  PROVE  OnItsWay(k)'
BY DEF OnItsWay, Grows, Main

LEMMA AlwaysGrows ==
  ASSUME SubIInv, [SubscriptionNext]_subscriptionVars
  PROVE  Grows
<1>1. disturbed \subseteq disturbed'
  BY CallMonitors, OtherMonitors, NextSteps DEF Calling, SweepStep, Kept
<1>2. workspaces \subseteq workspaces'
  BY WorkspacesStep
<1>3. UNCHANGED kind
  <2>1. ASSUME NEW c \in Calls, Calling(c) PROVE UNCHANGED kind
    BY <2>1 DEF Calling, Deliver, Handle, Route, Locate, Write, Retrieve, Seek, Insert, Resolve, Point, Upsert, Cancel, Owner,
       Set, LoadPlan, SavePlan, Provision, Create, Join, Link, Welcome, Notify, Answer, CallDies, stripeVars
  <2>2. ASSUME NEW x \in Sweeps, SweepStep(x) PROVE UNCHANGED kind
    BY <2>2 DEF SweepStep, Select, Audit, Advance, SweepDies, stripeVars
  <2>3. ASSUME NEW s \in Subs, Change(s) \/ ComeDue(s) PROVE UNCHANGED kind
    BY <2>3 DEF Change, ComeDue, stripeVars
  <2> QED
    BY <2>1, <2>2, <2>3, NextSteps DEF subscriptionVars
<1> QED
  BY <1>1, <1>2, <1>3 DEF Grows

-----------------------------------------------------------------------------
(***************************************************************************)
(* The steps that touch no row of anybody: the sweep's dates, a month that *)
(* passes, and a change at Stripe, which leaves its event pending.         *)
(***************************************************************************)
LEMMA OnlyDates ==
  ASSUME SubIInv, NEW s \in Subs,
         \/ \E r \in Subs : ComeDue(r)
         \/ \E x \in Sweeps : SweepStep(x)
         \/ UNCHANGED subscriptionVars
         \/ \E r \in Subs : Change(r)
  PROVE  Same(s)
<1>1. MonitorsOK
  BY TypeParts DEF SubIInv
<1>2. UNCHANGED <<row, link>>
  BY DEF ComeDue, SweepStep, Select, Audit, Advance, SweepDies, Change, workspaceVars, subscriptionVars
<1>3. \/ UNCHANGED monitor
      \/ \E r \in Subs : \E due : monitor' = [monitor EXCEPT ![r] = [monitor[r] EXCEPT !.due = due]]
  <2>1. ASSUME NEW x \in Sweeps, Advance(x), ~UNCHANGED monitor
        PROVE  \E r \in Subs : \E due : monitor' = [monitor EXCEPT ![r] = [monitor[r] EXCEPT !.due = due]]
    BY <2>1 DEF Advance, SetMonitor, SubIInv, SweepFine
  <2> QED
    BY <2>1 DEF ComeDue, SetMonitor, SweepStep, Select, Audit, SweepDies, Change, monitorVars, subscriptionVars
<1>4. \A r \in Subs : monitor'[r].sub = monitor[r].sub /\ monitor'[r].status = monitor[r].status
  <2>1. CASE UNCHANGED monitor
    BY <2>1
  <2>2. ASSUME NEW r \in Subs, NEW due, monitor' = [monitor EXCEPT ![r] = [monitor[r] EXCEPT !.due = due]]
        PROVE  \A q \in Subs : monitor'[q].sub = monitor[q].sub /\ monitor'[q].status = monitor[q].status
    BY <1>1, <2>2 DEF MonitorsOK, MonitorRows
  <2> QED
    BY <1>3, <2>1, <2>2
<1> QED
  BY <1>2, <1>4 DEF Same, Carries

-----------------------------------------------------------------------------
(***************************************************************************)
(* A change at Stripe, and an event answered.                              *)
(***************************************************************************)
LEMMA ChangeFeeds ==
  ASSUME SubIInv, EventsFine, NEW s \in Subs, Change(s)
  PROVE  EventsFine' /\ Pending(s)' /\ \A t \in Subs \ {s} : StillBelieved(t)
<1>1. StripeOK /\ StripeOK' /\ HistoryOK /\ version \in Int
      /\ \A e \in events : e.sub \in Subs /\ e.version \in Int
  BY StripeStep, TypeParts DEF SubIInv, StripeOK, EventRecords, SubscriptionNext
<1>2. version' = version + 1 /\ UNCHANGED <<kind, handled>> /\ \A t \in Subs : handled[t] \in Int
  BY <1>1 DEF Change, historyVars, HistoryOK
<1>3. PICK new \in Follows(stripe[s]) :
        /\ stripe' = [stripe EXCEPT ![s] = new]
        /\ events' = events \cup Emitted(s, stripe[s], new, version + 1)
  BY DEF Change
<1>4. stripe'[s] = new /\ \A t \in Subs \ {s} : stripe'[t] = stripe[t]
  BY <1>1, <1>3 DEF StripeOK
<1>5. \A e \in Emitted(s, stripe[s], new, version + 1) :
        /\ e.sub = s /\ e.version = version + 1 /\ (e.status \in Live <=> new \in Live)
        /\ e.type = "deleted" => e.status = "canceled"
  BY DEF Emitted, Live
<1>6. \E e \in Emitted(s, stripe[s], new, version + 1) : Main(e)
  <2>1. PICK e : e = [sub |-> s, type |-> IF new = "canceled" THEN "deleted" ELSE "changed",
                      status |-> new, version |-> version + 1]
    OBVIOUS
  <2>2. e \in Emitted(s, stripe[s], new, version + 1)
    BY <2>1 DEF Emitted
  <2> QED
    BY <2>1, <2>2 DEF Main
<1>7. \A e \in events : e.version <= version
  BY DEF EventsFine
<1>8. ASSUME NEW e \in events', e.version = version + 1 PROVE Newest(e)'
  BY <1>1, <1>2, <1>3, <1>5, <1>7, <1>8 DEF Newest, EventsOf, EventsFine
<1>9. Pending(s)'
  <2>1. PICK e \in Emitted(s, stripe[s], new, version + 1) : Main(e)
    BY <1>6
  <2> QED
    BY <1>3, <1>5, <1>8, <2>1 DEF Pending, EventsOf, Main
<1>10. ASSUME NEW t \in Subs \ {s}
       PROVE  EventsOf(t)' = EventsOf(t) /\ \A e \in EventsOf(t) : Newest(e)' <=> Newest(e)
  <2>1. EventsOf(t)' = EventsOf(t)
    BY <1>3, <1>5 DEF EventsOf
  <2>2. \A e : e.sub = t => EventsOf(e.sub)' = EventsOf(e.sub)
    BY <2>1
  <2> QED
    BY <1>2, <2>1, <2>2 DEF Newest, EventsOf
<1>11. ASSUME NEW t \in Subs \ {s} PROVE (Pending(t)' <=> Pending(t)) /\ StillBelieved(t)
  BY <1>4, <1>10 DEF StillBelieved, Believed, Agrees, Pending, Main
<1>12. ASSUME NEW e \in events', Newest(e)' PROVE Agrees(e.sub, e.status)'
  <2>1. CASE e.sub = s
    <3>1. PICK f \in Emitted(s, stripe[s], new, version + 1) : Main(f)
      BY <1>6
    <3>2. f.version <= e.version
      BY <1>3, <1>5, <1>12, <2>1, <3>1 DEF Newest, EventsOf
    <3>3. e \in Emitted(s, stripe[s], new, version + 1)
      BY <1>1, <1>3, <1>5, <1>7, <3>1, <3>2
    <3> QED
      BY <1>4, <1>5, <3>3, <2>1 DEF Agrees
  <2>2. CASE e.sub # s
    <3>1. e \in events /\ e \in EventsOf(e.sub) /\ e.sub \in Subs
      BY <1>1, <1>3, <1>5, <2>2 DEF EventsOf
    <3>2. Newest(e)
      BY <1>10, <1>12, <2>2, <3>1
    <3> QED
      BY <1>4, <2>2, <3>1, <3>2 DEF EventsFine, Agrees
  <2> QED
    BY <2>1, <2>2
<1>13. \A e \in events' : e.version <= version' /\ (e.type = "deleted" => e.status = "canceled")
  BY <1>1, <1>2, <1>3, <1>5, <1>7 DEF EventsFine
<1>14. ASSUME NEW t \in Subs PROVE Pending(t)' \/ \A e \in EventsOf(t)' : e.version <= handled'[t]
  BY <1>2, <1>9, <1>10, <1>11 DEF EventsFine
<1>15. \A t \in Subs : handled'[t] <= version'
  BY <1>1, <1>2 DEF EventsFine
<1> QED
  BY <1>9, <1>11, <1>12, <1>13, <1>14, <1>15 DEF EventsFine

LEMMA AnswerFeeds ==
  ASSUME SubIInv, EventsFine, NEW c \in Calls, OnItsWay(call[c]), Answer(c)
  PROVE  /\ EventsFine'
         /\ \A t \in Subs \ {Sub(c)} : StillBelieved(t)
         /\ Pending(Sub(c)) => \/ \E t \in {Sub(c)} : Pending(t)'
                               \/ Main(Event(c)) /\ Agrees(Sub(c), Event(c).status)
         /\ \A t \in Subs : handled'[t] >= handled[t]
         /\ Event(c).version <= handled'[Sub(c)]
<1>0. PICK e : e = Event(c)
  OBVIOUS
<1>1. StripeOK /\ HistoryOK /\ CallFine(call[c]) /\ call[c].at = "answer"
  BY TypeParts DEF SubIInv, Answer, At
<1>2. e \in EventRecords /\ e.sub \in Subs /\ e.version \in Int /\ version \in Int
  BY <1>0, <1>1 DEF CallFine, Event, EventRecords, StripeOK
<1>3. \A f \in events : f.sub \in Subs /\ f.version \in Int
  BY <1>1 DEF StripeOK, EventRecords
<1>4. \A t \in Subs : handled[t] \in Int
  BY <1>1 DEF HistoryOK
<1>5. /\ UNCHANGED <<kind, stripe, version>> /\ events' = events \ {e}
      /\ handled' = [handled EXCEPT ![e.sub] = IF e.version > handled[e.sub] THEN e.version ELSE handled[e.sub]]
  BY <1>0, <1>1, <1>2 DEF Answer, stripeVars, Sub, Event, HistoryOK
<1>6. /\ \A t \in Subs \ {e.sub} : handled'[t] = handled[t]
      /\ handled'[e.sub] = IF e.version > handled[e.sub] THEN e.version ELSE handled[e.sub]
  BY <1>1, <1>2, <1>5 DEF HistoryOK
<1>7. \A t \in Subs : handled'[t] >= handled[t] /\ handled'[t] \in Int
  BY <1>2, <1>4, <1>6
<1>8. e.version <= handled'[e.sub] /\ e.version <= version /\ (e \in events \/ e.version <= handled[e.sub])
  BY <1>0, <1>1, <1>2, <1>4, <1>6 DEF OnItsWay, Event
<1>9. ASSUME NEW f \in events', Newest(f)' PROVE Newest(f)
  BY <1>2, <1>3, <1>4, <1>5, <1>7, <1>8, <1>9 DEF Newest, EventsOf
<1>10. ASSUME NEW t \in Subs \ {e.sub}
       PROVE  EventsOf(t)' = EventsOf(t) /\ \A f \in EventsOf(t) : Newest(f)' <=> Newest(f)
  <2>1. EventsOf(t)' = EventsOf(t)
    BY <1>5 DEF EventsOf
  <2> QED
    BY <1>6, <2>1 DEF Newest, EventsOf
<1>11. ASSUME NEW t \in Subs \ {e.sub} PROVE (Pending(t)' <=> Pending(t)) /\ StillBelieved(t)
  BY <1>5, <1>10 DEF StillBelieved, Believed, Agrees, Pending, Main
<1>12. ASSUME NEW f \in EventsOf(e.sub), f # e, Main(f), Newest(f) PROVE Pending(e.sub)'
  <2>1. f \in events' /\ f.sub = e.sub
    BY <1>5, <1>12 DEF EventsOf
  <2>2. handled'[e.sub] <= f.version
    BY <1>2, <1>3, <1>4, <1>6, <1>8, <1>12, <2>1 DEF Newest, EventsOf
  <2>3. Newest(f)'
    BY <1>5, <1>12, <2>1, <2>2 DEF Newest, EventsOf
  <2> QED
    BY <1>12, <2>1, <2>3 DEF Pending, EventsOf, Main
<1>13. ASSUME ~Pending(e.sub)' PROVE \A f \in EventsOf(e.sub)' : f.version <= handled'[e.sub]
  <2>1. CASE Pending(e.sub)
    <3>1. e \in EventsOf(e.sub) /\ Newest(e)
      BY <1>12, <1>13, <2>1 DEF Pending
    <3> QED
      BY <1>2, <1>3, <1>5, <1>7, <1>8, <3>1 DEF Newest, EventsOf
  <2>2. CASE ~Pending(e.sub)
    <3>1. \A f \in EventsOf(e.sub) : f.version <= handled[e.sub]
      BY <1>2, <2>2 DEF EventsFine
    <3> QED
      BY <1>2, <1>3, <1>4, <1>5, <1>7, <3>1 DEF EventsOf
  <2> QED
    BY <2>1, <2>2
<1>14. ASSUME NEW t \in Subs PROVE Pending(t)' \/ \A f \in EventsOf(t)' : f.version <= handled'[t]
  <2>1. CASE t = e.sub
    BY <1>13, <2>1
  <2>2. CASE t # e.sub
    BY <1>6, <1>10, <1>11, <2>2 DEF EventsFine
  <2> QED
    BY <2>1, <2>2
<1>15. \A f \in events' : Newest(f)' => Agrees(f.sub, f.status)'
  BY <1>5, <1>9 DEF EventsFine, Agrees
<1>16. \A t \in Subs : handled'[t] <= version'
  BY <1>2, <1>4, <1>5, <1>6, <1>8 DEF EventsFine
<1>17. EventsFine'
  BY <1>5, <1>14, <1>15, <1>16 DEF EventsFine
<1>18. ASSUME Pending(e.sub), ~Pending(e.sub)' PROVE Main(e) /\ Agrees(e.sub, e.status)
  <2>1. e \in EventsOf(e.sub) /\ Newest(e) /\ Main(e)
    BY <1>12, <1>18 DEF Pending
  <2> QED
    BY <2>1 DEF EventsFine, EventsOf
<1> QED
  BY <1>0, <1>2, <1>7, <1>8, <1>11, <1>17, <1>18 DEF Sub, Event

-----------------------------------------------------------------------------
(***************************************************************************)
(* Invocations: what one does to other subscriptions than its own.         *)
(***************************************************************************)
LEMMA CallFeeds ==
  ASSUME NEW c \in Calls, Calling(c), ~Answer(c)
  PROVE  UNCHANGED feedVars
<1>1. UNCHANGED <<kind, stripe, version, events>>
  BY DEF Calling, Deliver, Handle, Route, Locate, Write, Retrieve, Seek, Insert, Resolve, Point, Upsert, Cancel, Owner,
     Set, LoadPlan, SavePlan, Provision, Create, Join, Link, Welcome, Notify, CallDies, stripeVars
<1>2. UNCHANGED handled
  <2>1. CASE Route(c) \/ Locate(c) \/ Write(c) \/ Retrieve(c) \/ Point(c) \/ Owner(c) \/ Create(c) \/ Join(c) \/ Link(c)
    BY <2>1 DEF Route, Locate, Write, Retrieve, Point, Owner, Create, Join, Link, Swallowed, Seen, Unseen, historyVars
  <2>2. CASE ~(Route(c) \/ Locate(c) \/ Write(c) \/ Retrieve(c) \/ Point(c) \/ Owner(c) \/ Create(c) \/ Join(c) \/ Link(c))
    BY <2>2 DEF Calling, Deliver, Handle, Seek, Insert, Resolve, Upsert, Cancel, Set, LoadPlan, SavePlan, Provision,
       Welcome, Notify, CallDies, historyVars
  <2> QED
    BY <2>1, <2>2
<1> QED
  BY <1>1, <1>2 DEF feedVars

Writers(c) == Upsert(c) \/ Cancel(c) \/ Set(c) \/ Link(c) \/ Write(c) \/ Insert(c) \/ Point(c)

LEMMA NotWriting ==
  ASSUME NEW c \in Calls, Calling(c), ~Writers(c), NEW s \in Subs
  PROVE  Same(s)
<1>1. UNCHANGED <<row, link, monitor>>
  BY DEF Writers, Calling, Deliver, Handle, Route, Locate, Retrieve, Seek, Resolve, Owner, LoadPlan, SavePlan,
     Provision, Create, Join, Welcome, Notify, Answer, CallDies, workspaceVars, monitorVars
<1> QED
  BY <1>1 DEF Same, Carries

\* A monitor's row is written over another subscription only if that one is disturbed.
LEMMA PutElsewhere ==
  ASSUME SubIInv, NEW r \in Subs, NEW m, SetMonitor(r, m), NEW s \in Subs, m.sub # s, monitor[r].sub # s,
         UNCHANGED <<row, link>>
  PROVE  Same(s)
BY TypeParts DEF SubIInv, MonitorsOK, SetMonitor, Same, Carries

LEMMA Elsewhere ==
  ASSUME SubIInv, NEW c \in Calls, Calling(c), NEW s \in Subs \ disturbed', s # Sub(c)
  PROVE  Same(s)
<1>1. /\ MonitorsOK /\ WorkspacesOK /\ CallFine(call[c]) /\ NoSub \notin Subs
      /\ call[c].at # "idle" => Sub(c) \in Subs
  BY TypeParts, SubsAssumption DEF SubIInv, CallFine, EventRecords, Sub
<1>2. CASE ~Writers(c)
  BY <1>2, NotWriting
<1>3. CASE Upsert(c) \/ Cancel(c) \/ Set(c) \/ Link(c)
  <2>1. UNCHANGED monitor
    BY <1>3 DEF Upsert, Cancel, Set, Link, monitorVars
  <2>2. row'[s] = row[s] /\ link'[s] = link[s]
    BY <1>1, <1>3 DEF Upsert, Cancel, Set, Link, Checked, Swallowed, SetRow, WorkspacesOK
  <2> QED
    BY <2>1, <2>2 DEF Same, Carries
<1>4. CASE UNCHANGED <<row, link, monitor>>
  BY <1>4 DEF Same, Carries
<1>5. CASE Write(c) /\ ~UNCHANGED monitor
  <2>1. PICK m : m = Written(c, call[c].row)
    OBVIOUS
  <2>2. SetMonitor(call[c].row, m) /\ call[c].row \in Subs /\ UNCHANGED <<row, link>>
        /\ monitor[call[c].row].sub # s
    BY <1>1, <1>5, <2>1 DEF Write, CallFine, At, workspaceVars
  <2>3. m.sub = monitor[call[c].row].sub
    BY <1>1, <2>1, <2>2 DEF Written, MonitorsOK, MonitorRows
  <2> QED
    BY <2>2, <2>3, PutElsewhere
<1>6. CASE Insert(c) /\ ~UNCHANGED monitor
  <2>1. PICK r \in Subs : monitor[r] = NoRow /\ SetMonitor(r, Seeded(c, "unarmed")) /\ UNCHANGED <<row, link>>
    BY <1>6 DEF Insert, Checked, monitorVars, workspaceVars
  <2>2. Seeded(c, "unarmed").sub # s /\ monitor[r].sub # s
    BY <1>1, <2>1 DEF Seeded, NoRow
  <2> QED
    BY <2>1, <2>2, PutElsewhere
<1>7. CASE Point(c) /\ ~UNCHANGED monitor
  <2>1. SetMonitor(call[c].row, Seeded(c, monitor[call[c].row].due)) /\ call[c].row \in Subs /\ UNCHANGED <<row, link>>
        /\ monitor[call[c].row].sub # s
    BY <1>1, <1>7 DEF Point, CallFine, At, Checked, workspaceVars
  <2>2. Seeded(c, monitor[call[c].row].due).sub # s
    BY DEF Seeded
  <2> QED
    BY <2>1, <2>2, PutElsewhere
<1>8. UNCHANGED <<row, link>> \/ Upsert(c) \/ Cancel(c) \/ Set(c) \/ Link(c) \/ ~Writers(c)
  BY DEF Writers, Write, Insert, Point, workspaceVars
<1> QED
  BY <1>2, <1>3, <1>4, <1>5, <1>6, <1>7, <1>8 DEF Writers

-----------------------------------------------------------------------------
(***************************************************************************)
(* What it does to its own.                                                *)
(***************************************************************************)
\* A live row, or another, whose status is believed.
LEMMA PutOwn ==
  ASSUME SubIInv, Blank', MonitorsOK', NEW s \in Subs, NEW r \in Subs, monitor'[r].sub = s,
         kind'[s] = "monitor", Believed(s, monitor[r].status)'
  PROVE  MonitorTrue(s)'
<1>1. \A q \in Subs : Carries(q, s)' => q = r
  BY SubsAssumption DEF MonitorsOK, OneEach, Carries, NoRow
<1>2. HasRow(s)' /\ (IsLive(s)' <=> monitor'[r].status \in Live)
  BY <1>1 DEF HasRow, Carries, IsLive, LiveRows
<1> QED
  BY <1>2 DEF MonitorTrue, Believed, Agrees, Live

LEMMA OwnRows ==
  ASSUME AnswerIInv, NEW c \in Calls, Handle(c) \/ CallDies(c), ~Answer(c), Grows, NEW s \in Subs \ disturbed', s = Sub(c)
  PROVE  RowsTrue(s)'
<1>0. /\ SubIInv /\ RowsTrue(s) /\ Told(call[c]) /\ OnItsWay(call[c]) /\ Alone(c) /\ EventsFine /\ LinksFine
      /\ s \notin disturbed /\ Calling(c)
  BY DEF AnswerIInv, Grows, Calling
<1>1. PICK e : e = Event(c)
  OBVIOUS
<1>2. MonitorsOK /\ WorkspacesOK /\ CallFine(call[c]) /\ call[c] \in CallRecords
  BY <1>0, TypeParts DEF SubIInv
<1>3. UNCHANGED feedVars
  BY <1>0, CallFeeds
<1>4. StillBelieved(s) /\ EventsOf(s)' = EventsOf(s) /\ \A status : Believed(s, status)' <=> Believed(s, status)
  BY <1>3, SameFeed DEF StillBelieved, feedVars
<1>5. CASE Same(s)
  BY <1>0, <1>4, <1>5, RowsStayTrue
<1>6. call[c].at # "idle"
  BY DEF Handle, CallDies, Route, Locate, Write, Retrieve, Seek, Insert, Resolve, Point, Upsert, Cancel, Owner,
     Set, LoadPlan, SavePlan, Provision, Create, Join, Link, Welcome, Notify, At
<1>7. e \in events /\ e.sub = s /\ Believed(s, e.status) /\ (e.type = "deleted" => e.status = "canceled")
  BY <1>0, <1>1, <1>6, NewestOrPending DEF Alone, EventsFine, Event, Sub
<1>8. CASE (Upsert(c) \/ Cancel(c) \/ Set(c)) /\ ~Same(s)
  <2>1. UNCHANGED <<monitor, link, workspaces>>
    BY <1>8 DEF Upsert, Cancel, Set, monitorVars
  <2>2. Cancel(c) => e.type = "deleted"
    BY <1>0, <1>1 DEF Cancel, At, OnItsWay, Event
  <2>3. UNCHANGED row \/ SetRow(s, e.status)
    BY <1>1, <1>7, <1>8, <2>2 DEF Upsert, Cancel, Set, Checked
  <2>4. row'[s] = e.status
    BY <1>2, <1>8, <2>1, <2>3 DEF SetRow, WorkspacesOK, Same, Carries
  <2>5. CASE kind[s] = "monitor"
    <3>1. MonitorTrue(s) => MonitorTrue(s)'
      BY <1>3, <1>4, <2>1, <2>5 DEF MonitorTrue, HasRow, IsLive, LiveRows, Carries, feedVars
    <3> QED
      BY <1>0, <2>5, <3>1 DEF RowsTrue, Grows
  <2>6. CASE kind[s] # "monitor"
    <3>1. WorkspaceTrue(s) => WorkspaceTrue(s)'
      BY <1>3, <1>4, <1>7, <2>1, <2>4 DEF WorkspaceTrue, feedVars
    <3> QED
      BY <1>0, <2>6, <3>1 DEF RowsTrue, Grows
  <2> QED
    BY <2>5, <2>6
<1>9. CASE Link(c) /\ ~Same(s)
  <2>1. UNCHANGED <<monitor, row, workspaces>>
    BY <1>9 DEF Link, monitorVars
  <2>2. link' = [link EXCEPT ![s] = call[c].row] /\ call[c].row \in workspaces
    BY <1>0, <1>9, <2>1 DEF Link, Swallowed, Same, Carries, At, OnItsWay
  <2>3. link'[s] \in workspaces'
    BY <1>2, <2>1, <2>2 DEF WorkspacesOK
  <2>4. CASE kind[s] = "monitor"
    <3>1. MonitorTrue(s) => MonitorTrue(s)'
      BY <1>3, <1>4, <2>1, <2>4 DEF MonitorTrue, HasRow, IsLive, LiveRows, Carries, feedVars
    <3> QED
      BY <1>0, <2>4, <3>1 DEF RowsTrue, Grows
  <2>5. CASE kind[s] # "monitor"
    <3>1. WorkspaceTrue(s) => WorkspaceTrue(s)'
      BY <1>4, <2>1, <2>3 DEF WorkspaceTrue
    <3> QED
      BY <1>0, <2>5, <3>1 DEF RowsTrue, Grows
  <2> QED
    BY <2>4, <2>5
<1>10. CASE (Write(c) \/ Insert(c) \/ Point(c)) /\ ~Same(s)
  <2>1. UNCHANGED <<row, link, workspaces>> /\ ~UNCHANGED monitor
    BY <1>10 DEF Write, Insert, Point, workspaceVars, Same, Carries
  <2>2. CASE kind[s] # "monitor"
    <3>1. WorkspaceTrue(s) => WorkspaceTrue(s)'
      BY <1>3, <1>4, <2>1 DEF WorkspaceTrue, feedVars
    <3> QED
      BY <1>0, <2>2, <3>1 DEF RowsTrue, Grows
  <2>3. CASE kind[s] = "monitor"
    <3>1. MonitorTold(call[c]) /\ call[c].event.sub = s
      BY <1>0, <1>6, <2>3 DEF Told, Sub
    <3>2. \E r \in Subs : monitor'[r].sub = s /\ Believed(s, monitor'[r].status)
      <4>1. CASE Write(c)
        <5>1. PICK m : m = Written(c, call[c].row)
          OBVIOUS
        <5>2. /\ monitor' = [monitor EXCEPT ![call[c].row] = m]
              /\ call[c].row \in Subs /\ Carries(call[c].row, s)
          BY <1>2, <2>1, <3>1, <4>1, <5>1 DEF Write, SetMonitor, CallFine, At, MonitorTold
        <5>3. m.sub = s /\ m.status = e.status
          BY <1>1, <1>2, <5>1, <5>2 DEF Written, MonitorsOK, MonitorRows, Carries
        <5> QED
          BY <1>2, <1>7, <5>2, <5>3 DEF MonitorsOK
      <4>2. ASSUME NEW r \in Subs, NEW due, SetMonitor(r, Seeded(c, due)), Insert(c) \/ Point(c)
            PROVE  \E q \in Subs : monitor'[q].sub = s /\ Believed(s, monitor'[q].status)
        <5>1. Seeded(c, due).sub = s /\ Seeded(c, due).status = call[c].status
          BY DEF Seeded
        <5>2. Believed(s, call[c].status)
          BY <3>1, <4>2 DEF MonitorTold, Insert, Point, At
        <5> QED
          BY <1>2, <4>2, <5>1, <5>2 DEF SetMonitor, MonitorsOK
      <4>3. CASE Insert(c)
        <5>1. PICK r \in Subs : SetMonitor(r, Seeded(c, "unarmed"))
          BY <2>1, <4>3 DEF Insert, Checked, monitorVars
        <5> QED
          BY <4>2, <4>3, <5>1
      <4>4. CASE Point(c)
        <5>1. SetMonitor(call[c].row, Seeded(c, monitor[call[c].row].due)) /\ call[c].row \in Subs
          BY <1>2, <2>1, <4>4 DEF Point, Checked, CallFine, At
        <5> QED
          BY <4>2, <4>4, <5>1
      <4> QED
        BY <1>10, <4>1, <4>3, <4>4
    <3>3. PICK r \in Subs : monitor'[r].sub = s /\ Believed(s, monitor'[r].status)
      BY <3>2
    <3>4. MonitorsOK' /\ Blank'
      BY <1>0, CallMonitors DEF Calling
    <3>5. kind'[s] = "monitor" /\ Believed(s, monitor[r].status)'
      <4>1. PICK status : status = monitor'[r].status
        OBVIOUS
      <4>2. Believed(s, status)'
        BY <1>4, <3>3, <4>1
      <4> QED
        BY <2>3, <4>1, <4>2 DEF Grows, Believed, Agrees
    <3>6. MonitorTrue(s)'
      BY <1>0, <3>3, <3>4, <3>5, PutOwn
    <3> QED
      BY <3>5, <3>6 DEF RowsTrue
  <2> QED
    BY <2>2, <2>3
<1> QED
  BY <1>0, <1>5, <1>8, <1>9, <1>10, NotWriting DEF Writers

-----------------------------------------------------------------------------
(***************************************************************************)
(* Where a step leads its invocation.                                      *)
(***************************************************************************)
Led(c, k) ==
  /\ k \in CallRecords /\ call' = [call EXCEPT ![c] = k]
  /\ k = IdleCall \/ (k.event = Event(c) /\ k.at # "idle")
  /\ OnItsWay(k)' /\ Told(k)'

LEMMA EndLed ==
  ASSUME NEW c \in Calls, End(c), version' \in Nat
  PROVE  \E k : Led(c, k)
<1>1. IdleCall \in CallRecords /\ IdleCall.at = "idle" /\ IdleCall.event = NoEvent
  BY DEF IdleCall, NoEvent, CallRecords, Dues, Plans
<1>2. OnItsWay(IdleCall)' /\ Told(IdleCall)'
  BY DEF IdleCall, NoEvent, OnItsWay, Told, Main
<1>3. call' = [call EXCEPT ![c] = IdleCall]
  BY DEF End, Step
<1> WITNESS IdleCall
<1> QED
  BY <1>1, <1>2, <1>3 DEF Led

LEMMA GoesOn ==
  ASSUME AnswerIInv, Grows, UNCHANGED feedVars, NEW c \in Calls, call[c].at # "idle",
         NEW k \in CallRecords, Step(c, k), k.event = Event(c), k.at \notin {"idle", "cancel"},
         Main(k.event) /\ kind[k.event.sub] = "monitor" => k.at \in MonitorLabels,
         k.event.type = "changed" /\ kind[k.event.sub] # "monitor" => k.at \in ChangeLabels,
         k.at = "link" => k.row \in workspaces,
         k.event.sub \notin disturbed' =>
           IF kind[k.event.sub] = "monitor" THEN MonitorTold(k)' ELSE RowTold(k)' /\ LinkTold(k)'
  PROVE  \E q : Led(c, q)
<1>1. OnItsWay(call[c])
  BY DEF AnswerIInv
<1>2. OnItsWay(k)'
  BY <1>1 DEF OnItsWay, Grows, feedVars, Main, Event
<1>3. Told(k)'
  BY DEF Told, Grows
<1> WITNESS k
<1> QED
  BY <1>2, <1>3 DEF Led, Step

LEMMA OwnCall ==
  ASSUME AnswerIInv, [SubscriptionNext]_subscriptionVars, NEW c \in Calls, Handle(c) \/ CallDies(c)
  PROVE  \E k : Led(c, k)
<1>0. /\ SubIInv /\ Told(call[c]) /\ OnItsWay(call[c]) /\ Alone(c) /\ EventsFine /\ LinksFine
      /\ Grows /\ Calling(c)
  BY AlwaysGrows DEF AnswerIInv, Calling
<1>1. PICK o : o = call[c]
  OBVIOUS
<1>2. PICK s : s = o.event.sub
  OBVIOUS
<1>3. /\ MonitorsOK /\ WorkspacesOK /\ StripeOK /\ StripeOK' /\ CallFine(o) /\ o \in CallRecords
      /\ call \in [Calls -> CallRecords]
  BY <1>0, <1>1, StripeStep, TypeParts DEF SubIInv
<1>4. o.at # "idle"
  BY <1>1 DEF Handle, CallDies, Route, Locate, Write, Retrieve, Seek, Insert, Resolve, Point, Upsert, Cancel, Owner,
     Set, LoadPlan, SavePlan, Provision, Create, Join, Link, Welcome, Notify, Answer, At
<1>5. s \in Subs /\ s = Sub(c) /\ o.event = Event(c) /\ o.event \in EventRecords
  BY <1>1, <1>2, <1>3, <1>4 DEF CallFine, EventRecords, Sub, Event
<1>6. CASE End(c)
  BY <1>3, <1>6, EndLed, BoundsAssumption DEF StripeOK
<1>7. Throw(c) => End(c)
  BY DEF Throw
<1> SUFFICES ASSUME Handle(c), ~End(c), ~Throw(c), ~Answer(c) PROVE \E k : Led(c, k)
  BY <1>6, <1>7 DEF CallDies, Answer
<1>8. UNCHANGED feedVars
  BY <1>0, CallFeeds
<1>9. \A status : Believed(s, status)' <=> Believed(s, status)
  BY <1>8, SameFeed
<1>10. s \notin disturbed' => s \notin disturbed
  BY <1>0 DEF Grows
\* What the rows said, they say when the step does not write them.
<1>11. ASSUME ~Writers(c), s \notin disturbed'
       PROVE  IF kind[s] = "monitor" THEN MonitorTold(o)' ELSE RowTold(o)' /\ LinkTold(o)'
  <2>1. Same(s)
    BY <1>0, <1>5, <1>11, NotWriting
  <2>2. Told(o)'
    BY <1>0, <1>1, <1>2, <1>3, <1>5, <1>9, <2>1, StaysTold DEF CallFine
  <2> QED
    BY <1>0, <1>2, <1>4, <1>11, <2>2 DEF Told, Grows
<1>12. /\ Main(o.event) /\ kind[s] = "monitor" => o.at \in MonitorLabels
       /\ o.event.type = "changed" /\ kind[s] # "monitor" => o.at \in ChangeLabels
  BY <1>0, <1>1, <1>2 DEF OnItsWay
\* To a label at which nothing new is said of the rows.
<1>13. ASSUME ~Writers(c), NEW k \in CallRecords, Step(c, k), k.event = o.event, k.status = o.status,
              k.at \notin {"idle", "cancel", "upsert", "write"}, o.at \notin {"cancel", "upsert"},
              Main(o.event) /\ kind[s] = "monitor" =>
                k.at \in MonitorLabels /\ (k.at \in {"notify", "answer"} => o.at = "notify"),
              o.event.type = "changed" /\ kind[s] # "monitor" => k.at \in ChangeLabels,
              k.at = "link" => k.row \in workspaces,
              k.at \in {"seek", "insert", "resolve", "point"} => o.at \in {"seek", "insert", "resolve", "point"},
              s \notin disturbed' /\ kind[s] # "monitor" => LinkTold(k)'
       PROVE  \E q : Led(c, q)
  <2>1. s \notin disturbed' /\ kind[s] = "monitor" => MonitorTold(k)'
    BY <1>2, <1>11, <1>13 DEF MonitorTold, Main
  <2>2. s \notin disturbed' /\ kind[s] # "monitor" => RowTold(k)' /\ LinkTold(k)'
    BY <1>2, <1>11, <1>13 DEF RowTold
  <2> QED
    BY <1>0, <1>1, <1>2, <1>4, <1>5, <1>8, <1>13, <2>1, <2>2, GoesOn DEF Main
<1>14. ASSUME NEW label \in Labels, Goto(c, label)
       PROVE  \E k \in CallRecords : /\ Step(c, k) /\ k.at = label /\ k.event = o.event /\ k.row = o.row
                                     /\ k.status = o.status /\ k.known = o.known
  <2>1. PICK k : k = [o EXCEPT !.at = label]
    OBVIOUS
  <2>2. k \in CallRecords /\ k.at = label /\ k.event = o.event /\ k.row = o.row
        /\ k.status = o.status /\ k.known = o.known
    BY <1>3, <2>1 DEF CallRecords
  <2> QED
    BY <1>1, <1>14, <2>1, <2>2 DEF Goto
<1>15. CASE Route(c)
  <2>1. PICK label \in {"locate", "owner"} : Goto(c, label)
    BY <1>15 DEF Route
  <2>2. o.at = "route" /\ ~Writers(c)
    BY <1>1, <1>15 DEF Route, At, Writers, Upsert, Cancel, Set, Link, Write, Insert, Point
  <2>3. PICK k \in CallRecords : Step(c, k) /\ k.at = label /\ k.event = o.event /\ k.status = o.status
    BY <1>14, <2>1 DEF Labels
  <2>4. LinkTold(k)'
    BY <2>1, <2>3 DEF LinkTold
  <2> QED
    BY <1>12, <1>13, <2>1, <2>2, <2>3, <2>4 DEF MonitorLabels, ChangeLabels
<1>16. CASE Locate(c)
  <2>1. o.at = "locate" /\ ~Writers(c)
    BY <1>1, <1>16 DEF Locate, At, Writers, Upsert, Cancel, Set, Link, Write, Insert, Point
  <2>2. Same(s) \/ s \in disturbed'
    BY <1>0, <1>5, <2>1, NotWriting
  <2>3. o.event.type = "changed" => kind[s] = "monitor"
    BY <1>12, <2>1 DEF ChangeLabels
  <2>4. CASE Goto(c, "notify") /\ (Unseen(c) \/ ~\E r \in Subs : Carries(r, Sub(c)))
    <3>1. PICK k \in CallRecords : Step(c, k) /\ k.at = "notify" /\ k.event = o.event
      BY <1>14, <2>4 DEF Labels
    <3>2. s \in disturbed' \/ ~\E r \in Subs : Carries(r, s)
      BY <1>5, <2>4 DEF Unseen
    <3>3. s \notin disturbed' => MonitorTold(k)'
      BY <1>2, <2>2, <3>1, <3>2 DEF MonitorTold, Same
    <3>4. kind[s] # "monitor" /\ s \notin disturbed' => RowTold(k)' /\ LinkTold(k)'
      BY <1>2, <1>11, <2>1, <3>1 DEF RowTold, LinkTold
    <3> QED
      BY <1>0, <1>1, <1>2, <1>4, <1>5, <1>8, <2>3, <3>1, <3>3, <3>4, GoesOn DEF MonitorLabels
  <2>5. CASE \E r \in Subs : /\ Carries(r, Sub(c))
                             /\ Step(c, [call[c] EXCEPT !.at = "write", !.row = r, !.due = monitor[r].due])
    <3>1. PICK r \in Subs : Carries(r, s) /\ Step(c, [o EXCEPT !.at = "write", !.row = r, !.due = monitor[r].due])
      BY <1>1, <1>5, <2>5
    <3>2. PICK k : k = [o EXCEPT !.at = "write", !.row = r, !.due = monitor[r].due]
      OBVIOUS
    <3>3. k \in CallRecords /\ k.at = "write" /\ k.row = r /\ k.event = o.event /\ Step(c, k)
      BY <1>3, <3>1, <3>2 DEF CallRecords, MonitorsOK, MonitorRows, Labels
    <3>4. s \notin disturbed' => MonitorTold(k)'
      BY <1>2, <2>2, <3>1, <3>3 DEF MonitorTold, Same
    <3>5. kind[s] # "monitor" /\ s \notin disturbed' => RowTold(k)' /\ LinkTold(k)'
      BY <1>2, <1>11, <2>1, <3>3 DEF RowTold, LinkTold
    <3> QED
      BY <1>0, <1>1, <1>2, <1>4, <1>5, <1>8, <2>3, <3>3, <3>4, <3>5, GoesOn DEF MonitorLabels
  <2> QED
    BY <1>16, <2>4, <2>5 DEF Locate
<1>17. CASE Write(c)
  <2>1. o.at = "write" /\ o.row \in Subs
    BY <1>1, <1>3, <1>17 DEF Write, At, CallFine
  <2>2. PICK k \in CallRecords : Step(c, k) /\ k.at = "notify" /\ k.event = o.event
    BY <1>14, <1>17 DEF Write, Labels
  <2>3. o.event.type = "changed" => kind[s] = "monitor"
    BY <1>12, <2>1 DEF ChangeLabels
  <2>4. ASSUME kind[s] = "monitor", s \notin disturbed' PROVE MonitorTold(k)'
    <3>1. Carries(o.row, s)
      BY <1>0, <1>1, <1>2, <1>10, <2>1, <2>4 DEF Told, MonitorTold
    <3>2. monitor' = [monitor EXCEPT ![o.row] = Written(c, o.row)]
      BY <1>1, <1>5, <1>17, <2>4 DEF Write, SetMonitor, Unseen
    <3>3. PICK m : m = Written(c, o.row)
      OBVIOUS
    <3>4. m.sub = s /\ m.status = o.event.status
      BY <1>3, <1>5, <2>1, <3>1, <3>3 DEF Written, MonitorsOK, MonitorRows, Carries
    <3>5. \A r \in Subs : Carries(r, s)' => r = o.row
      BY <1>3, <1>5, <2>1, <3>1, <3>2, <3>3, <3>4, SubsAssumption DEF Carries, MonitorsOK, OneEach, NoRow
    <3>6. monitor'[o.row].status = o.event.status
      BY <1>3, <2>1, <3>2, <3>3, <3>4 DEF MonitorsOK
    <3> QED
      BY <1>2, <2>2, <3>5, <3>6 DEF MonitorTold
  <2>5. ASSUME kind[s] # "monitor", s \notin disturbed' PROVE RowTold(k)' /\ LinkTold(k)'
    <3>1. RowTold(o) /\ UNCHANGED row
      BY <1>0, <1>1, <1>2, <1>10, <1>17, <2>1, <2>5 DEF Told, Write, workspaceVars
    <3> QED
      BY <1>2, <2>1, <2>2, <2>3, <2>5, <3>1 DEF RowTold, LinkTold
  <2> QED
    BY <1>0, <1>1, <1>2, <1>4, <1>5, <1>8, <2>2, <2>3, <2>4, <2>5, GoesOn DEF MonitorLabels
\* A checkout is no change.
<1>18. ASSUME o.at \in {"retrieve", "seek", "insert", "resolve", "point", "owner", "set"}
       PROVE  o.event.type # "changed" /\ (Main(o.event) => kind[s] # "monitor")
  BY <1>12, <1>18 DEF MonitorLabels, ChangeLabels, Main
<1>19. CASE Retrieve(c)
  <2>1. o.at = "retrieve" /\ ~Writers(c)
    BY <1>1, <1>19 DEF Retrieve, At, Writers, Upsert, Cancel, Set, Link, Write, Insert, Point
  <2>2. PICK status \in {"none"} \cup Statuses : /\ Step(c, [o EXCEPT !.at = "seek", !.status = status])
                                                 /\ status = stripe[s] \/ s \in disturbed'
    BY <1>1, <1>3, <1>5, <1>19 DEF Retrieve, StripeOK, Statuses, Live, Unseen
  <2>3. PICK k : k = [o EXCEPT !.at = "seek", !.status = status]
    OBVIOUS
  <2>4. k \in CallRecords /\ k.at = "seek" /\ k.event = o.event /\ k.status = status /\ Step(c, k)
    BY <1>3, <2>2, <2>3 DEF CallRecords, Labels
  <2>5. s \notin disturbed' => Believed(s, status)'
    BY <1>9, <2>2 DEF Believed, Agrees
  <2>6. s \notin disturbed' => MonitorTold(k)'
    BY <1>2, <2>4, <2>5 DEF MonitorTold
  <2>7. kind[s] # "monitor" /\ s \notin disturbed' => RowTold(k)' /\ LinkTold(k)'
    BY <1>2, <1>11, <2>1, <2>4 DEF RowTold, LinkTold
  <2> QED
    BY <1>0, <1>1, <1>2, <1>4, <1>5, <1>8, <1>18, <2>1, <2>4, <2>6, <2>7, GoesOn
<1>20. ASSUME NEW r \in Subs, Aim(c, r), o.at \in {"seek", "resolve"}, ~Writers(c)
       PROVE  \E q : Led(c, q)
  <2>1. PICK k : k = [o EXCEPT !.at = "point", !.row = r, !.due = monitor[r].due]
    OBVIOUS
  <2>2. k \in CallRecords /\ k.at = "point" /\ k.event = o.event /\ k.status = o.status /\ Step(c, k)
    BY <1>1, <1>3, <1>20, <2>1 DEF CallRecords, MonitorsOK, MonitorRows, Labels, Aim
  <2>3. LinkTold(k)'
    BY <2>2 DEF LinkTold
  <2> QED
    BY <1>13, <1>18, <1>20, <2>2, <2>3
<1>21. CASE Seek(c) \/ Resolve(c)
  <2>1. o.at \in {"seek", "resolve"} /\ ~Writers(c)
    BY <1>1, <1>21 DEF Seek, Resolve, At, Writers, Upsert, Cancel, Set, Link, Write, Insert, Point
  <2>2. CASE \E r \in Subs : Aim(c, r)
    BY <1>20, <2>1, <2>2
  <2>3. CASE Goto(c, "insert")
    <3>1. PICK k \in CallRecords : Step(c, k) /\ k.at = "insert" /\ k.event = o.event /\ k.status = o.status
      BY <1>14, <2>3 DEF Labels
    <3>2. LinkTold(k)'
      BY <3>1 DEF LinkTold
    <3> QED
      BY <1>13, <1>18, <2>1, <3>1, <3>2
  <2> QED
    BY <1>21, <2>2, <2>3 DEF Seek, Resolve, LiveRows
<1>22. CASE Insert(c) \/ Point(c)
  <2>1. o.at \in {"insert", "point"} /\ UNCHANGED row
    BY <1>1, <1>22 DEF Insert, Point, At, workspaceVars
  <2>2. PICK label \in {"resolve", "notify"} : Goto(c, label) /\ (label = "resolve" => UNCHANGED monitor)
    BY <1>22 DEF Insert, Point, Checked, monitorVars
  <2>3. PICK k \in CallRecords : Step(c, k) /\ k.at = label /\ k.event = o.event /\ k.status = o.status
    BY <1>14, <2>2 DEF Labels
  <2>4. ASSUME kind[s] = "monitor", s \notin disturbed' PROVE MonitorTold(k)'
    <3>1. Believed(s, o.status)
      BY <1>0, <1>1, <1>2, <1>10, <2>1, <2>4 DEF Told, MonitorTold
    <3> QED
      BY <1>2, <1>9, <1>18, <2>1, <2>2, <2>3, <2>4, <3>1 DEF MonitorTold, Main
  <2>5. ASSUME kind[s] # "monitor", s \notin disturbed' PROVE RowTold(k)' /\ LinkTold(k)'
    <3>1. RowTold(o)
      BY <1>0, <1>1, <1>2, <1>10, <2>1, <2>5 DEF Told
    <3> QED
      BY <1>2, <1>18, <2>1, <2>2, <2>3, <3>1 DEF RowTold, LinkTold
  <2> QED
    BY <1>0, <1>1, <1>2, <1>4, <1>5, <1>8, <1>18, <2>1, <2>2, <2>3, <2>4, <2>5, GoesOn
<1>23. CASE Upsert(c)
  <2>1. o.at = "upsert" /\ UNCHANGED <<link, workspaces>>
    BY <1>1, <1>23 DEF Upsert, At
  <2>2. /\ SetRow(s, o.event.status)
        /\ Step(c, [o EXCEPT !.at = "load", !.known = (link[s] # NoSub)])
    BY <1>1, <1>5, <1>23 DEF Upsert, Checked
  <2>3. PICK k : k = [o EXCEPT !.at = "load", !.known = (link[s] # NoSub)]
    OBVIOUS
  <2>4. k \in CallRecords /\ k.at = "load" /\ k.event = o.event /\ k.known = (link[s] # NoSub) /\ Step(c, k)
    BY <1>3, <2>2, <2>3 DEF CallRecords, Labels
  <2>5. row'[s] = o.event.status
    BY <1>3, <1>5, <2>2 DEF SetRow, WorkspacesOK
  <2>6. s \notin disturbed' /\ o.event.type = "deleted" => o.event.status = "canceled"
    BY <1>0, <1>1, <1>2, <1>4, <1>5, <1>10 DEF Alone, EventsFine
  <2>7. s \notin disturbed' => RowTold(k)'
    BY <1>2, <2>4, <2>5, <2>6 DEF RowTold, Live
  <2>8. LinkTold(k)'
    BY <1>0, <1>2, <1>5, <2>1, <2>4 DEF LinkTold, LinksFine
  <2>9. Main(o.event) => kind[s] # "monitor"
    BY <1>12, <2>1 DEF MonitorLabels
  <2>10. MonitorTold(k)'
    BY <2>4 DEF MonitorTold
  <2> QED
    BY <1>0, <1>1, <1>2, <1>4, <1>5, <1>8, <2>4, <2>7, <2>8, <2>9, <2>10, GoesOn DEF ChangeLabels
<1>24. CASE Cancel(c)
  <2>1. o.at = "cancel" /\ o.event.type = "deleted"
    BY <1>0, <1>1, <1>24 DEF Cancel, At, OnItsWay
  <2>2. PICK k \in CallRecords : Step(c, k) /\ k.at = "load" /\ k.event = o.event
    BY <1>14, <1>24 DEF Cancel, Checked, Labels
  <2>3. row'[s] \notin Live
    BY <1>3, <1>5, <1>24 DEF Cancel, Checked, SetRow, WorkspacesOK, Live
  <2>4. RowTold(k)' /\ LinkTold(k)' /\ MonitorTold(k)'
    BY <1>2, <2>1, <2>2, <2>3 DEF RowTold, LinkTold, MonitorTold
  <2>5. Main(o.event) => kind[s] # "monitor"
    BY <1>12, <2>1 DEF MonitorLabels
  <2> QED
    BY <1>0, <1>1, <1>2, <1>4, <1>5, <1>8, <2>1, <2>2, <2>4, <2>5, GoesOn
<1>25. CASE Owner(c)
  <2>1. o.at = "owner" /\ ~Writers(c)
    BY <1>1, <1>25 DEF Owner, At, Writers, Upsert, Cancel, Set, Link, Write, Insert, Point
  <2>2. PICK known \in BOOLEAN : Step(c, [o EXCEPT !.at = "set", !.known = known])
    BY <1>1, <1>25 DEF Owner
  <2>3. PICK k : k = [o EXCEPT !.at = "set", !.known = known]
    OBVIOUS
  <2>4. k \in CallRecords /\ k.at = "set" /\ k.event = o.event /\ k.status = o.status /\ Step(c, k)
    BY <1>3, <2>2, <2>3 DEF CallRecords, Labels
  <2>5. LinkTold(k)'
    BY <2>4 DEF LinkTold
  <2> QED
    BY <1>13, <1>18, <2>1, <2>4, <2>5
<1>26. CASE Set(c)
  <2>1. o.at = "set" /\ UNCHANGED monitor
    BY <1>1, <1>26 DEF Set, At, monitorVars
  <2>2. PICK label \in {"load", "notify"} : Goto(c, label)
    BY <1>26 DEF Set, Checked
  <2>3. PICK k \in CallRecords : Step(c, k) /\ k.at = label /\ k.event = o.event
    BY <1>14, <2>2 DEF Labels
  <2>4. row' = row \/ SetRow(s, o.event.status)
    BY <1>1, <1>5, <1>26 DEF Set, Checked
  <2>5. ASSUME kind[s] # "monitor", s \notin disturbed' PROVE RowTold(k)'
    <3>1. RowTold(o) /\ (o.event.type = "deleted" => o.event.status = "canceled")
      BY <1>0, <1>1, <1>2, <1>4, <1>5, <1>10, <2>5 DEF Told, Alone, EventsFine
    <3> QED
      BY <1>2, <1>3, <1>5, <1>18, <2>1, <2>3, <2>4, <3>1 DEF RowTold, SetRow, WorkspacesOK, Live
  <2>6. LinkTold(k)' /\ (kind[s] = "monitor" => MonitorTold(k)')
    BY <1>2, <1>18, <2>1, <2>3 DEF LinkTold, MonitorTold, Main
  <2> QED
    BY <1>0, <1>1, <1>2, <1>4, <1>5, <1>8, <1>18, <2>1, <2>2, <2>3, <2>5, <2>6, GoesOn
<1>27. CASE LoadPlan(c)
  <2>1. o.at = "load" /\ ~Writers(c)
    BY <1>1, <1>27 DEF LoadPlan, At, Writers, Upsert, Cancel, Set, Link, Write, Insert, Point
  <2>2. PICK best \in Plans : Step(c, [o EXCEPT !.at = "save", !.plan = best])
    <3>1. Best({q \in Subs : row[q] \in Live}) \in Plans
      BY DEF Best, Plans
    <3> QED
      BY <1>1, <1>27, <3>1 DEF LoadPlan
  <2>3. PICK k : k = [o EXCEPT !.at = "save", !.plan = best]
    OBVIOUS
  <2>4. /\ k \in CallRecords /\ k.at = "save" /\ k.event = o.event /\ k.status = o.status /\ k.known = o.known
        /\ Step(c, k)
    BY <1>3, <2>2, <2>3 DEF CallRecords, Labels
  <2>5. s \notin disturbed' /\ kind[s] # "monitor" => LinkTold(k)'
    BY <1>2, <1>11, <2>1, <2>4 DEF LinkTold
  <2>6. Main(o.event) => kind[s] # "monitor"
    BY <1>12, <2>1 DEF MonitorLabels
  <2> QED
    BY <1>13, <2>1, <2>4, <2>5, <2>6 DEF ChangeLabels
<1>28. CASE SavePlan(c)
  <2>1. o.at = "save" /\ ~Writers(c)
    BY <1>1, <1>28 DEF SavePlan, At, Writers, Upsert, Cancel, Set, Link, Write, Insert, Point
  <2>2. AfterPlan(c) \in {"provision", "answer", "notify"} /\ Goto(c, AfterPlan(c))
    BY <1>28 DEF SavePlan, Checked, AfterPlan
  <2>3. /\ o.event.type = "changed" => AfterPlan(c) # "notify"
        /\ AfterPlan(c) = "answer" /\ o.event.type = "changed" /\ o.event.status \in Live => o.known
    BY <1>1, <1>5 DEF AfterPlan, ShouldProvision
  <2>4. PICK k \in CallRecords : /\ Step(c, k) /\ k.at = AfterPlan(c) /\ k.event = o.event /\ k.status = o.status
                                 /\ k.known = o.known
    BY <1>14, <2>2 DEF Labels
  <2>5. s \notin disturbed' /\ kind[s] # "monitor" => LinkTold(k)'
    BY <1>2, <1>11, <2>1, <2>2, <2>3, <2>4 DEF LinkTold
  <2>6. Main(o.event) => kind[s] # "monitor"
    BY <1>12, <2>1 DEF MonitorLabels
  <2> QED
    BY <1>13, <2>1, <2>2, <2>3, <2>4, <2>5, <2>6 DEF ChangeLabels
<1>29. CASE Provision(c)
  <2>1. o.at = "provision" /\ ~Writers(c)
    BY <1>1, <1>29 DEF Provision, At, Writers, Upsert, Cancel, Set, Link, Write, Insert, Point
  <2>2. PICK key \in Subs : Step(c, [o EXCEPT !.at = "create", !.row = key])
    <3>1. Sub(c) \in Subs /\ Accounts(c) \subseteq Subs
      BY <1>3, <1>5 DEF Accounts, WorkspacesOK
    <3> QED
      BY <1>1, <1>29, <3>1 DEF Provision
  <2>3. PICK k : k = [o EXCEPT !.at = "create", !.row = key]
    OBVIOUS
  <2>4. k \in CallRecords /\ k.at = "create" /\ k.event = o.event /\ k.status = o.status /\ Step(c, k)
    BY <1>3, <2>2, <2>3 DEF CallRecords, Labels
  <2>5. LinkTold(k)'
    BY <2>4 DEF LinkTold
  <2>6. Main(o.event) => kind[s] # "monitor"
    BY <1>12, <2>1 DEF MonitorLabels
  <2> QED
    BY <1>13, <2>1, <2>4, <2>5, <2>6 DEF ChangeLabels
\* Of provisioning, an error leaves the subscription disturbed.
<1>30. CASE Create(c) \/ Join(c) \/ Link(c)
  <2>1. o.at \in {"create", "join", "link"} /\ UNCHANGED <<row, monitor>>
    BY <1>1, <1>30 DEF Create, Join, Link, At, monitorVars
  <2>2. PICK label \in {"join", "link", "welcome"} :
          /\ Goto(c, label)
          /\ label = "link" => o.row \in workspaces
          /\ label = "welcome" /\ s \notin disturbed' => link' = [link EXCEPT ![s] = o.row] /\ o.row \in workspaces
    <3>1. Create(c) => \/ Goto(c, "join")
                       \/ Goto(c, "welcome") /\ s \in disturbed'
      BY <1>5 DEF Create, Swallowed, Unseen
    <3>2. Join(c) => Goto(c, "link") /\ o.row \in workspaces
      BY <1>1, <1>3 DEF Join, Swallowed, At, CallFine
    <3>3. Link(c) => /\ Goto(c, "welcome") /\ o.row \in workspaces
                     /\ s \in disturbed' \/ link' = [link EXCEPT ![s] = o.row]
      BY <1>0, <1>1, <1>5 DEF Link, Swallowed, Unseen, At, OnItsWay
    <3> QED
      BY <1>30, <3>1, <3>2, <3>3
  <2>3. PICK k \in CallRecords : Step(c, k) /\ k.at = label /\ k.event = o.event /\ k.row = o.row
    BY <1>14, <2>2 DEF Labels
  <2>4. s \notin disturbed' => LinkTold(k)'
    <3>1. label = "welcome" /\ s \notin disturbed' => link'[s] = o.row /\ o.row \in workspaces'
      BY <1>0, <1>3, <1>5, <2>2 DEF WorkspacesOK, Grows
    <3> QED
      BY <1>2, <2>3, <3>1 DEF LinkTold
  <2>5. s \notin disturbed' /\ kind[s] # "monitor" => RowTold(k)'
    BY <1>0, <1>1, <1>2, <1>4, <1>10, <2>1, <2>2, <2>3 DEF Told, RowTold
  <2>6. Main(o.event) => kind[s] # "monitor"
    BY <1>12, <2>1 DEF MonitorLabels
  <2>7. MonitorTold(k)'
    BY <2>2, <2>3 DEF MonitorTold
  <2> QED
    BY <1>0, <1>1, <1>2, <1>4, <1>5, <1>8, <2>2, <2>3, <2>4, <2>5, <2>6, <2>7, GoesOn DEF ChangeLabels
<1>31. CASE Welcome(c) \/ Notify(c)
  <2>1. o.at \in {"welcome", "notify"} /\ ~Writers(c)
    BY <1>1, <1>31 DEF Welcome, Notify, At, Writers, Upsert, Cancel, Set, Link, Write, Insert, Point
  <2>2. PICK k \in CallRecords : Step(c, k) /\ k.at = "answer" /\ k.event = o.event /\ k.status = o.status
    BY <1>14, <1>31 DEF Welcome, Notify, Labels
  <2>3. o.event.type = "changed" /\ kind[s] # "monitor" => o.at = "welcome"
    BY <1>12, <2>1 DEF ChangeLabels
  <2>4. s \notin disturbed' /\ kind[s] # "monitor" => LinkTold(k)'
    BY <1>2, <1>11, <2>1, <2>2, <2>3 DEF LinkTold
  <2>5. Main(o.event) /\ kind[s] = "monitor" => o.at = "notify"
    BY <1>12, <2>1 DEF MonitorLabels
  <2> QED
    BY <1>13, <2>1, <2>2, <2>4, <2>5 DEF ChangeLabels, MonitorLabels
<1> QED
  BY <1>15, <1>16, <1>17, <1>19, <1>21, <1>22, <1>23, <1>24, <1>25, <1>26, <1>27, <1>28, <1>29, <1>30, <1>31
  DEF Handle

\* A delivery: the invocation is alone with the event, or leaves it disturbed.
LEMMA Delivered ==
  ASSUME AnswerIInv, [SubscriptionNext]_subscriptionVars, NEW c \in Calls, NEW e \in events, Deliver(c, e)
  PROVE  \E k : /\ k \in CallRecords /\ call' = [call EXCEPT ![c] = k] /\ k.event = e
                /\ OnItsWay(k)' /\ Told(k)'
<1>1. /\ SubIInv /\ Grows /\ StripeOK /\ EventsFine /\ e \in EventRecords /\ kind[e.sub] \in Kinds
  BY AlwaysGrows, TypeParts DEF AnswerIInv, SubIInv, StripeOK, EventRecords
<1>2. PICK k : k = [IdleCall EXCEPT !.at = Handler(e), !.event = e]
  OBVIOUS
<1>3. Handler(e) \in {"retrieve", "route", "locate", "upsert", "cancel"}
  BY DEF Handler
<1>4. k \in CallRecords /\ k.at = Handler(e) /\ k.event = e
  BY <1>1, <1>2, <1>3 DEF IdleCall, CallRecords, Labels, Dues, Plans
<1>5. call' = [call EXCEPT ![c] = k] /\ UNCHANGED <<kind, version, events>>
  BY <1>2 DEF Deliver, Step, stripeVars
<1>6. e.version <= version /\ e.type \in {"changed", "deleted", "paid", "failed", "checkout"}
  BY <1>1 DEF EventsFine, EventRecords
<1>7. OnItsWay(k)'
  BY <1>4, <1>5, <1>6 DEF OnItsWay, Handler, Main, MonitorLabels, ChangeLabels
<1>8. Told(k)'
  BY <1>3, <1>4, <1>5, <1>6 DEF Told, MonitorTold, RowTold, LinkTold, Handler, Main
<1> WITNESS k
<1> QED
  BY <1>4, <1>5, <1>7, <1>8

\* What an invocation that answers has written is true without its event.
LEMMA AnsweredRows ==
  ASSUME AnswerIInv, NEW c \in Calls, Answer(c), Grows, NEW s \in Subs \ disturbed', s = Sub(c)
  PROVE  RowsTrue(s)'
<1>1. PICK e : e = Event(c)
  OBVIOUS
<1>2. /\ SubIInv /\ EventsFine /\ RowsTrue(s) /\ Told(call[c]) /\ OnItsWay(call[c]) /\ Alone(c) /\ CallFine(call[c])
      /\ s \notin disturbed /\ call[c].at = "answer" /\ call[c].event = e /\ e.sub = s
  BY <1>1 DEF AnswerIInv, SubIInv, Grows, Answer, At, Event, Sub
<1>3. UNCHANGED <<kind, stripe, row, link, workspaces, monitor>> /\ events' = events \ {e}
  BY <1>1 DEF Answer, stripeVars, workspaceVars, monitorVars
<1>4. Pending(s) => Pending(s)' \/ (Main(e) /\ Agrees(s, e.status))
  BY <1>1, <1>2, AnswerFeeds
<1>5. \A status : Agrees(s, status)' <=> Agrees(s, status)
  BY <1>3 DEF Agrees
<1>6. e \in events /\ (e.type = "deleted" => e.status = "canceled")
  BY <1>1, <1>2 DEF Alone, EventsFine, Event
<1>7. CASE kind[s] = "monitor"
  <2>1. MonitorTold(call[c]) /\ MonitorTrue(s)
    BY <1>2, <1>7 DEF Told, RowsTrue
  <2>2. (HasRow(s)' <=> HasRow(s)) /\ (IsLive(s)' <=> IsLive(s))
    BY <1>3 DEF HasRow, IsLive, LiveRows, Carries
  <2>3. CASE HasRow(s)
    <3>1. Main(e) => (IsLive(s) <=> e.status \in Live)
      BY <1>2, <1>7, <2>1, <2>3 DEF MonitorTold, HasRow, IsLive, LiveRows
    <3>2. PICK status : status = IF IsLive(s) THEN "active" ELSE "none"
      OBVIOUS
    <3>3. Believed(s, status) /\ (Main(e) => (status \in Live <=> e.status \in Live))
      BY <2>1, <2>3, <3>1, <3>2 DEF MonitorTrue, Live
    <3>4. Believed(s, status)'
      BY <1>4, <1>5, <3>3 DEF Believed, Agrees
    <3>5. MonitorTrue(s)'
      BY <2>2, <2>3, <3>2, <3>4 DEF MonitorTrue
    <3> QED
      BY <1>3, <1>7, <3>5 DEF RowsTrue
  <2>4. CASE ~HasRow(s)
    <3>1. e.type # "checkout"
      BY <1>2, <2>4 DEF CallFine, Stored, HasRow
    <3>2. MonitorTrue(s)'
      BY <1>3, <2>1, <2>2, <2>4, <3>1 DEF MonitorTrue, EventsOf
    <3> QED
      BY <1>3, <1>7, <3>2 DEF RowsTrue
  <2> QED
    BY <2>3, <2>4
<1>8. CASE kind[s] # "monitor"
  <2>1. RowTold(call[c]) /\ LinkTold(call[c]) /\ WorkspaceTrue(s)
    BY <1>2, <1>8 DEF Told, RowsTrue
  <2>2. Main(e) => (row[s] \in Live <=> e.status \in Live)
    BY <1>2, <1>6, <2>1 DEF RowTold, Main, Live
  <2>3. PICK status : status = row[s]
    OBVIOUS
  <2>4. Believed(s, status)'
    BY <1>4, <1>5, <2>1, <2>2, <2>3 DEF WorkspaceTrue, Believed, Agrees
  <2>5. e.type = "changed" /\ e.status \in Live => link[s] \in workspaces
    BY <1>2, <2>1 DEF LinkTold
  <2>6. WorkspaceTrue(s)'
    BY <1>3, <2>1, <2>3, <2>4, <2>5 DEF WorkspaceTrue, EventsOf, Believed, Agrees
  <2> QED
    BY <1>3, <1>8, <2>6 DEF RowsTrue
<1> QED
  BY <1>7, <1>8

-----------------------------------------------------------------------------
LEMMA CallsAnswer ==
  ASSUME AnswerIInv, [SubscriptionNext]_subscriptionVars, NEW c \in Calls, Calling(c)
  PROVE  AnswerIInv'
<1>1. /\ SubIInv /\ SubIInv' /\ EventsFine /\ LinksFine /\ Grows /\ NoSub \notin Subs
      /\ \A d \in Calls : Alone(d) /\ OnItsWay(call[d]) /\ Told(call[d])
      /\ \A s \in Subs : RowsTrue(s)
  BY AlwaysGrows, SubscriptionsStep, SubsAssumption DEF AnswerIInv
<1>2. /\ StripeOK /\ StripeOK' /\ HistoryOK /\ HistoryOK' /\ WorkspacesOK /\ call \in [Calls -> CallRecords]
      /\ \A d \in Calls : CallFine(call[d])
  BY <1>1, TypeParts, StripeStep, HistoryStep DEF SubIInv
<1>3. PICK k : /\ k \in CallRecords /\ call' = [call EXCEPT ![c] = k] /\ OnItsWay(k)' /\ Told(k)'
               /\ \/ k = IdleCall
                  \/ k.event = Event(c) /\ k.at # "idle" /\ call[c].at # "idle" /\ ~\E e \in events : Deliver(c, e)
                  \/ \E e \in events : Deliver(c, e) /\ k.event = e
  <2>1. CASE \E e \in events : Deliver(c, e)
    BY <2>1, Delivered
  <2>2. CASE ~\E e \in events : Deliver(c, e)
    <3>1. call[c].at # "idle"
      BY <2>2 DEF Calling, Handle, CallDies, Route, Locate, Write, Retrieve, Seek, Insert, Resolve, Point, Upsert, Cancel,
         Owner, Set, LoadPlan, SavePlan, Provision, Create, Join, Link, Welcome, Notify, Answer, At
    <3> QED
      BY <2>2, <3>1, OwnCall DEF Calling, Led
  <2> QED
    BY <2>1, <2>2
<1>4. call'[c] = k /\ \A d \in Calls \ {c} : call'[d] = call[d]
  BY <1>2, <1>3
<1>5. \/ ~Answer(c) /\ UNCHANGED feedVars
      \/ Answer(c) /\ k = IdleCall
  <2>1. Answer(c) => k = IdleCall
    BY <1>3, <1>4, <1>2 DEF Answer, End, Step, Deliver, At
  <2> QED
    BY <2>1, CallFeeds
<1>6. EventsFine'
  BY <1>1, <1>5, SameFeed, AnswerFeeds
<1>7. LinksFine'
  <2>1. CASE UNCHANGED link
    BY <1>1, <2>1 DEF LinksFine, Grows
  <2>2. CASE Link(c) /\ ~UNCHANGED link
    <3>1. link' = [link EXCEPT ![Sub(c)] = call[c].row] /\ call[c].row \in workspaces /\ UNCHANGED workspaces
      BY <1>1, <2>2 DEF Link, Swallowed, At, OnItsWay
    <3> QED
      BY <1>1, <1>2, <3>1 DEF LinksFine, WorkspacesOK
  <2> QED
    BY <2>1, <2>2
    DEF Calling, Deliver, Handle, Route, Locate, Write, Retrieve, Seek, Insert, Resolve, Point, Upsert, Cancel, Owner,
        Set, LoadPlan, SavePlan, Provision, Create, Join, Welcome, Notify, Answer, CallDies, workspaceVars
\* The others.
<1>8. ASSUME NEW s \in Subs, s # Sub(c) PROVE StillBelieved(s) /\ handled'[s] = handled[s]
  <2>1. CASE UNCHANGED feedVars
    <3>1. \A t, status : Believed(t, status)' <=> Believed(t, status)
      BY <2>1, SameFeed
    <3>2. EventsOf(s)' = EventsOf(s)
      BY <2>1, SameFeed
    <3> QED
      BY <2>1, <3>1, <3>2 DEF StillBelieved, feedVars
  <2>2. CASE Answer(c)
    <3>1. StillBelieved(s)
      BY <1>1, <1>8, <2>2, AnswerFeeds
    <3>2. handled'[s] = handled[s]
      BY <1>2, <1>8, <2>2 DEF Answer, HistoryOK
    <3> QED
      BY <3>1, <3>2
  <2> QED
    BY <1>5, <2>1, <2>2
<1>9. ASSUME NEW s \in Subs PROVE handled'[s] >= handled[s] /\ handled[s] \in Int
  <2>1. handled[s] \in Int
    BY <1>2 DEF HistoryOK
  <2>2. CASE UNCHANGED feedVars
    BY <2>1, <2>2 DEF feedVars
  <2>3. CASE Answer(c)
    BY <1>1, <2>1, <2>3, AnswerFeeds
  <2> QED
    BY <1>5, <2>1, <2>2, <2>3
<1>10. ASSUME NEW d \in Calls \ {c}, call[d].at # "idle"
       PROVE  OnItsWay(call[d])' /\ Told(call[d])' /\ Alone(d)'
  <2>1. PICK o : o = call[d]
    OBVIOUS
  <2>2. PICK s : s = o.event.sub
    OBVIOUS
  <2>3. /\ o \in CallRecords /\ CallFine(o) /\ OnItsWay(o) /\ Told(o) /\ o.event \in EventRecords /\ s \in Subs
        /\ o.event.version \in Int /\ call'[d] = o /\ o.at # "idle"
    BY <1>1, <1>2, <1>4, <1>10, <2>1, <2>2 DEF CallFine, EventRecords
  <2>4. version \in Int /\ version' = version
    BY <1>2, <1>5 DEF StripeOK, feedVars, Answer, stripeVars
  <2>5. o.event \in events' \/ o.event.version <= handled'[s]
    <3>1. o.event \in events \/ o.event.version <= handled[s]
      BY <2>2, <2>3 DEF OnItsWay
    <3>2. handled[s] \in Int /\ handled'[s] \in Int /\ handled'[s] >= handled[s]
      BY <1>2, <1>9, <2>3 DEF HistoryOK
    <3>3. CASE UNCHANGED feedVars
      BY <3>1, <3>3 DEF feedVars
    <3>4. CASE Answer(c)
      <4>1. events' = events \ {Event(c)} /\ Event(c).version <= handled'[Sub(c)]
        BY <1>1, <3>4, AnswerFeeds DEF Answer
      <4> QED
        BY <2>2, <2>3, <3>1, <3>2, <4>1 DEF Sub, Event
    <3> QED
      BY <1>5, <3>3, <3>4
  <2>6. OnItsWay(o)'
    BY <1>1, <2>2, <2>3, <2>4, <2>5, StaysOnItsWay
  <2>7. CASE s \in disturbed'
    BY <2>1, <2>2, <2>3, <2>6, <2>7 DEF Told, Alone, Sub
  <2>8. CASE s \notin disturbed'
    <3>1. /\ s \notin disturbed /\ o.event \in events /\ o.event.version >= handled[s]
          /\ \A x \in Calls \ {d} : Sub(x) # s
      BY <1>1, <1>10, <2>1, <2>2, <2>8 DEF Alone, Grows, Sub, Event
    <3>2. s # Sub(c)
      BY <1>10, <3>1
    <3>3. Same(s)
      BY <1>1, <2>3, <2>8, <3>2, Elsewhere
    <3>4. Told(o)'
      BY <1>1, <1>8, <2>2, <2>3, <3>2, <3>3, StaysTold DEF StillBelieved, CallFine
    <3>5. k.event.sub # s
      <4>1. CASE k = IdleCall
        BY <1>1, <2>3, <4>1 DEF IdleCall, NoEvent
      <4>2. CASE k.event = Event(c)
        BY <3>2, <4>2 DEF Sub, Event
      <4>3. ASSUME NEW e \in events, Deliver(c, e), k.event = e PROVE k.event.sub # s
        BY <2>1, <2>2, <2>8, <4>3 DEF Deliver, Sub
      <4> QED
        BY <1>3, <4>1, <4>2, <4>3
    <3>6. o.event \in events' /\ handled'[s] = handled[s]
      BY <1>8, <2>2, <2>3, <3>1, <3>2 DEF StillBelieved, EventsOf
    <3>7. \A x \in Calls \ {d} : call'[x].event.sub # s
      BY <1>4, <3>1, <3>5 DEF Sub
    <3>8. Alone(d)'
      BY <2>2, <2>3, <3>1, <3>6, <3>7 DEF Alone, Sub, Event
    <3> QED
      BY <2>1, <2>3, <2>6, <3>4, <3>8
  <2> QED
    BY <2>7, <2>8
<1>11. ASSUME NEW d \in Calls \ {c}, call[d].at = "idle"
       PROVE  OnItsWay(call[d])' /\ Told(call[d])' /\ Alone(d)'
  <2>1. PICK o : o = call[d]
    OBVIOUS
  <2>2. call'[d] = o /\ o.at = "idle" /\ OnItsWay(o)
    BY <1>1, <1>4, <1>11, <2>1
  <2>3. version' = version /\ UNCHANGED kind
    BY <1>1, <1>5 DEF Grows, feedVars, Answer, stripeVars
  <2>4. OnItsWay(o)' /\ Told(o)'
    BY <2>2, <2>3 DEF OnItsWay, Told, Main
  <2> QED
    BY <2>1, <2>2, <2>4 DEF Alone
\* Its own.
<1>12. OnItsWay(call[c])' /\ Told(call[c])'
  BY <1>3, <1>4
<1>13. Alone(c)'
  <2>1. CASE k = IdleCall
    BY <1>4, <2>1 DEF Alone, IdleCall
  <2>2. CASE k.event = Event(c) /\ k.at # "idle" /\ call[c].at # "idle"
    <3>1. CASE Answer(c)
      BY <1>5, <2>2, <3>1 DEF IdleCall
    <3>2. CASE UNCHANGED feedVars
      BY <1>1, <1>4, <2>2, <3>2 DEF Alone, Grows, Sub, Event, feedVars
    <3> QED
      BY <1>5, <3>1, <3>2
  <2>3. ASSUME NEW e \in events, Deliver(c, e), k.event = e PROVE Alone(c)'
    <3>1. UNCHANGED <<events, handled>> /\ e.sub \in Subs /\ e.version \in Int /\ handled[e.sub] \in Int
      BY <1>2, <2>3 DEF Deliver, StripeOK, EventRecords, HistoryOK
    <3>2. e.sub \notin disturbed' => e.version >= handled[e.sub] /\ \A d \in Calls : Sub(d) # e.sub
      BY <2>3, <3>1 DEF Deliver
    <3> QED
      BY <1>4, <2>3, <3>1, <3>2 DEF Alone, Sub, Event
  <2> QED
    BY <1>3, <2>1, <2>2, <2>3
<1>14. ASSUME NEW s \in Subs PROVE RowsTrue(s)'
  <2>1. CASE s \in disturbed'
    BY <2>1 DEF RowsTrue
  <2>2. CASE s \notin disturbed' /\ s # Sub(c)
    BY <1>1, <1>8, <2>2, Elsewhere, RowsStayTrue
  <2>3. CASE s \notin disturbed' /\ s = Sub(c) /\ Answer(c)
    BY <1>1, <2>3, AnsweredRows
  <2>4. CASE s \notin disturbed' /\ s = Sub(c) /\ ~Answer(c) /\ (Handle(c) \/ CallDies(c))
    BY <1>1, <2>4, OwnRows
  <2>5. CASE \E e \in events : Deliver(c, e)
    <3>1. ~Writers(c) /\ UNCHANGED feedVars
      BY <2>5 DEF Deliver, At, Writers, Upsert, Cancel, Set, Link, Write, Insert, Point, feedVars, stripeVars
    <3>2. Same(s)
      BY <1>1, <3>1, NotWriting
    <3>3. \A t, status : Believed(t, status)' <=> Believed(t, status)
      BY <3>1, SameFeed
    <3>4. EventsOf(s)' = EventsOf(s)
      BY <3>1, SameFeed
    <3>5. StillBelieved(s)
      BY <3>1, <3>3, <3>4 DEF StillBelieved, feedVars
    <3> QED
      BY <1>1, <3>2, <3>5, RowsStayTrue
  <2> QED
    BY <2>1, <2>2, <2>3, <2>4, <2>5 DEF Calling
<1> QED
  BY <1>1, <1>6, <1>7, <1>10, <1>11, <1>12, <1>13, <1>14 DEF AnswerIInv

LEMMA OthersAnswer ==
  ASSUME AnswerIInv, [SubscriptionNext]_subscriptionVars,
         \/ \E s \in Subs : Change(s) \/ ComeDue(s)
         \/ \E x \in Sweeps : SweepStep(x)
         \/ UNCHANGED subscriptionVars
  PROVE  AnswerIInv'
<1>1. /\ SubIInv /\ SubIInv' /\ EventsFine /\ LinksFine /\ Grows
      /\ \A d \in Calls : Alone(d) /\ OnItsWay(call[d]) /\ Told(call[d])
      /\ \A s \in Subs : RowsTrue(s)
  BY AlwaysGrows, SubscriptionsStep DEF AnswerIInv
<1>2. /\ StripeOK /\ StripeOK' /\ HistoryOK /\ WorkspacesOK /\ call \in [Calls -> CallRecords]
      /\ \A d \in Calls : CallFine(call[d])
  BY <1>1, TypeParts, StripeStep DEF SubIInv
<1>3. UNCHANGED <<call, handled, disturbed, workspaces, link>>
  BY DEF Change, ComeDue, SweepStep, Select, Audit, Advance, SweepDies, workspaceVars, historyVars, subscriptionVars
<1>4. \/ UNCHANGED feedVars
      \/ \E s \in Subs : Change(s)
  BY <1>3 DEF ComeDue, SweepStep, Select, Audit, Advance, SweepDies, subscriptionVars, stripeVars, feedVars
<1>5. \A s \in Subs : Same(s)
  BY <1>1, OnlyDates
<1>6. version \in Int /\ version' \in Int /\ version' >= version /\ events \subseteq events'
  <2>1. version \in Int /\ version' \in Int
    BY <1>2 DEF StripeOK
  <2>2. CASE UNCHANGED feedVars
    BY <2>1, <2>2 DEF feedVars
  <2>3. ASSUME NEW s \in Subs, Change(s) PROVE version' >= version /\ events \subseteq events'
    BY <2>1, <2>3 DEF Change
  <2> QED
    BY <1>4, <2>1, <2>2, <2>3
<1>7. EventsFine'
  BY <1>1, <1>4, SameFeed, ChangeFeeds
<1>8. LinksFine'
  BY <1>1, <1>3 DEF LinksFine
<1>9. \A s \in Subs : StillBelieved(s) \/ (Change(s) /\ Pending(s)')
  <2>1. CASE UNCHANGED feedVars
    <3>1. \A t, status : Believed(t, status)' <=> Believed(t, status)
      BY <2>1, SameFeed
    <3>2. \A s : EventsOf(s)' = EventsOf(s)
      BY <2>1, SameFeed
    <3> QED
      BY <2>1, <3>1, <3>2 DEF StillBelieved, feedVars
  <2>2. CASE \E s \in Subs : Change(s)
    BY <1>1, <2>2, ChangeFeeds
  <2> QED
    BY <1>4, <2>1, <2>2
<1>10. \A s \in Subs : \A status \in {"none"} \cup Statuses : Believed(s, status) => Believed(s, status)'
  BY <1>9 DEF StillBelieved, Believed
<1>11. ASSUME NEW d \in Calls PROVE OnItsWay(call[d])' /\ Told(call[d])' /\ Alone(d)'
  <2>1. PICK o : o = call[d]
    OBVIOUS
  <2>2. o \in CallRecords /\ CallFine(o) /\ OnItsWay(o) /\ Told(o) /\ call'[d] = o
    BY <1>1, <1>2, <1>3, <2>1
  <2>3. o.event.version \in Int
    BY <2>2 DEF CallRecords, EventRecords, NoEvent
  <2>4. OnItsWay(o)'
    BY <1>1, <1>3, <1>6, <2>2, <2>3, StaysOnItsWay DEF OnItsWay
  <2>5. Told(o)'
    <3>1. CASE o.at = "idle"
      BY <3>1 DEF Told
    <3>2. CASE o.at # "idle"
      <4>1. o.event.sub \in Subs /\ (o.at = "write" => o.row \in Subs)
        BY <2>2, <3>2 DEF CallFine, EventRecords
      <4> QED
        BY <1>1, <1>5, <1>10, <2>2, <4>1, StaysTold
    <3> QED
      BY <3>1, <3>2
  <2>6. Alone(d)'
    BY <1>1, <1>3, <1>6 DEF Alone, Sub, Event
  <2> QED
    BY <2>1, <2>2, <2>4, <2>5, <2>6
<1>12. ASSUME NEW s \in Subs PROVE RowsTrue(s)'
  <2>1. CASE StillBelieved(s)
    BY <1>1, <1>5, <2>1, RowsStayTrue
  <2>2. CASE Change(s) /\ Pending(s)'
    <3>1. PICK new \in Follows(stripe[s]) :
            /\ stripe' = [stripe EXCEPT ![s] = new]
            /\ events' = events \cup Emitted(s, stripe[s], new, version + 1)
      BY <2>2 DEF Change
    <3>2. stripe'[s] = new /\ stripe[s] \in {"none"} \cup Statuses
      BY <1>2, <3>1 DEF StripeOK
    <3>3. CASE kind[s] = "monitor"
      <4>1. ASSUME s \notin disturbed, ~HasRow(s)
            PROVE  new \in {"none", "incomplete", "canceled"} \/ \E e \in EventsOf(s)' : e.type = "checkout"
        <5>1. stripe[s] \in {"none", "incomplete", "canceled"} \/ \E e \in EventsOf(s) : e.type = "checkout"
          BY <1>1, <3>3, <4>1 DEF RowsTrue, MonitorTrue
        <5>2. CASE \E e \in EventsOf(s) : e.type = "checkout"
          BY <1>6, <5>2 DEF EventsOf
        <5>3. CASE stripe[s] \in {"none", "incomplete", "canceled"}
          <6>1. new \in Live \cup {"incomplete", "canceled"}
                /\ (new \in Live => stripe[s] \in {"none", "incomplete"})
            BY <5>3, <3>1, PortfoliosAssumption DEF Follows, Live
          <6>2. CASE new \in Live
            <7>1. PICK e : e = [sub |-> s, type |-> "checkout", status |-> new, version |-> version + 1]
              OBVIOUS
            <7>2. e \in Emitted(s, stripe[s], new, version + 1)
              BY <3>3, <6>1, <6>2, <7>1 DEF Emitted
            <7> QED
              BY <3>1, <7>1, <7>2 DEF EventsOf
          <6> QED
            BY <6>1, <6>2
        <5> QED
          BY <5>1, <5>2, <5>3
      <4>2. HasRow(s)' <=> HasRow(s)
        BY <1>1, <1>5, SameRows
      <4>3. s \notin disturbed => MonitorTrue(s)'
        BY <2>2, <3>2, <4>1, <4>2 DEF MonitorTrue, Believed
      <4> QED
        BY <1>1, <1>3, <3>3, <4>3 DEF RowsTrue, Grows
    <3>4. CASE kind[s] # "monitor"
      <4>1. ASSUME new \in Live PROVE \E e \in EventsOf(s)' : e.type = "changed" /\ e.status \in Live
        <5>1. PICK e : e = [sub |-> s, type |-> "changed", status |-> new, version |-> version + 1]
          OBVIOUS
        <5>2. e \in Emitted(s, stripe[s], new, version + 1)
          BY <4>1, <5>1 DEF Emitted, Live
        <5> QED
          BY <3>1, <4>1, <5>1, <5>2 DEF EventsOf
      <4>2. WorkspaceTrue(s)'
        BY <2>2, <3>2, <4>1 DEF WorkspaceTrue, Believed
      <4> QED
        BY <1>1, <3>4, <4>2 DEF RowsTrue, Grows
    <3> QED
      BY <3>3, <3>4
  <2> QED
    BY <1>9, <2>1, <2>2
<1> QED
  BY <1>1, <1>7, <1>8, <1>11, <1>12 DEF AnswerIInv

(***************************************************************************)
(* When every event of a subscription is answered, its row is live if it   *)
(* is live at Stripe and only then, and a live one has its workspace, for  *)
(* any subscriptions, invocations, sweeps and limits: about the webhook's  *)
(* 500s, after which Stripe delivers again, and its handlers that write    *)
(* before they answer.                                                     *)
(***************************************************************************)
THEOREM AnsweredIsAlwaysTrue == SubscriptionSpec => []AnsweredMeansTrue
<1>1. AnswerIInv /\ [SubscriptionNext]_subscriptionVars => AnswerIInv'
  BY CallsAnswer, OthersAnswer, NextSteps
<1> QED
  BY <1>1, AnswersStart, AnsweredThenTrue, PTL DEF SubscriptionSpec

-----------------------------------------------------------------------------
(***************************************************************************)
(* The plan.  While nothing overlaps, it is the best of the live rows, or  *)
(* an event is still to be answered whose handler writes it.               *)
(***************************************************************************)
Undisturbed == ~raced /\ disturbed = {}
LiveRowsPlan == Best({s \in Subs : row[s] \in Live})
Right == plan = LiveRowsPlan
Owing(e) == kind[e.sub] # "monitor" /\ e.type # "checkout" /\ (Main(e) \/ row[e.sub] # "none")

SeedLabels == {"retrieve", "seek", "insert", "resolve", "point"}
ProvisionLabels == {"provision", "create", "join", "link", "welcome"}

\* Monitors and workspaces keep to their own tables and handlers.
MonitorsApart ==
  /\ \A e \in events : e.type = "checkout" => kind[e.sub] = "monitor"
  /\ \A r, s \in Subs : Carries(r, s) => kind[s] = "monitor"
  /\ \A s \in Subs : kind[s] = "monitor" => row[s] = "none"

Apart(k) ==
  /\ k.event.type = "checkout" => kind[k.event.sub] = "monitor"
  /\ k.at \in SeedLabels => k.event.type = "checkout"
  /\ k.at \in {"locate", "write"} => kind[k.event.sub] = "monitor"
  /\ k.at \in {"upsert", "cancel", "load", "save"} \cup ProvisionLabels => kind[k.event.sub] # "monitor"
  /\ k.at = "set" /\ k.known => kind[k.event.sub] # "monitor"
  /\ Main(k.event) /\ kind[k.event.sub] # "monitor" => k.at \in ChangeLabels \cup {"cancel", "notify"}

\* How far an invocation is with the plan.
Planned(k) ==
  /\ k.at = "set" => (k.known <=> row[k.event.sub] # "none")
  /\ k.at = "save" => k.plan = LiveRowsPlan
  /\ k.at \in ProvisionLabels => Right
  /\ k.at \in {"notify", "answer"} /\ Owing(k.event) => Right

Busy(c) == call[c].at # "idle" /\ kind[Sub(c)] # "monitor"
Sole == \A c, d \in Calls : Busy(c) /\ Busy(d) => c = d

PlanIInv ==
  /\ MonitorsApart /\ \A c \in Calls : Apart(call[c])
  /\ Undisturbed => /\ Sole /\ \A c \in Calls : Planned(call[c])
                    /\ Right \/ \E e \in events : Owing(e)

LEMMA PlanStarts == SubscriptionInit => PlanIInv
<1> SUFFICES ASSUME SubscriptionInit PROVE PlanIInv
  OBVIOUS
<1>1. /\ events = {} /\ plan = "free" /\ row = [s \in Subs |-> "none"]
      /\ \A r \in Subs : monitor[r].sub = NoSub
      /\ \A c \in Calls : call[c] = IdleCall
  BY DEF SubscriptionInit, NoRow
<1>2. MonitorsApart
  BY <1>1, SubsAssumption DEF MonitorsApart, Carries
<1>3. \A c \in Calls : Apart(call[c]) /\ Planned(call[c]) /\ ~Busy(c)
  BY <1>1 DEF Apart, Planned, Busy, IdleCall, NoEvent, SeedLabels, ProvisionLabels, Main
<1>4. Right
  <2>1. {s \in Subs : row[s] \in Live} = {}
    BY <1>1 DEF Live
  <2> QED
    BY <1>1, <2>1 DEF Right, LiveRowsPlan, Best
<1> QED
  BY <1>2, <1>3, <1>4 DEF PlanIInv, Sole

(***************************************************************************)
(* The labels that an invocation goes through.                             *)
(***************************************************************************)
Moved(c, k) ==
  /\ call' = [call EXCEPT ![c] = k] /\ k.event = call[c].event
  /\ \/ call[c].at = "route" /\ (k.at = "owner" \/ (k.at = "locate" /\ HasRow(Sub(c))))
     \/ call[c].at = "locate" /\ k.at \in {"write", "notify"}
     \/ call[c].at = "write" /\ k.at = "notify"
     \/ call[c].at \in SeedLabels /\ k.at \in SeedLabels \cup {"notify"}
     \/ call[c].at \in {"upsert", "cancel"} /\ k.at = "load"
     \/ call[c].at = "owner" /\ k.at = "set"
        /\ (k.known => row[Sub(c)] # "none") /\ (k.known \/ row[Sub(c)] = "none" \/ Sub(c) \in disturbed')
     \/ call[c].at = "set" /\ k.at = (IF call[c].known THEN "load" ELSE "notify")
     \/ call[c].at = "load" /\ k.at = "save" /\ k.plan = LiveRowsPlan
     \/ call[c].at = "save" /\ k.at \in {"provision", "notify", "answer"} /\ plan' = call[c].plan
     \/ call[c].at \in ProvisionLabels \ {"welcome"} /\ k.at \in ProvisionLabels
     \/ call[c].at \in {"welcome", "notify"} /\ k.at = "answer"

LEMMA Moves ==
  ASSUME SubIInv, NEW c \in Calls, Handle(c), ~End(c)
  PROVE  \E k : Moved(c, k)
<1>1. PICK o : o = call[c]
  OBVIOUS
<1>2. o \in CallRecords
  BY <1>1, TypeParts DEF SubIInv
<1>3. ~Throw(c) /\ ~Answer(c)
  BY DEF Throw, Answer
<1>4. ASSUME NEW label, Goto(c, label)
      PROVE  \E k : /\ call' = [call EXCEPT ![c] = k] /\ k.event = o.event /\ k.at = label
  <2>1. PICK k : k = [o EXCEPT !.at = label]
    OBVIOUS
  <2>2. k.event = o.event /\ k.at = label
    BY <1>2, <2>1 DEF CallRecords
  <2> QED
    BY <1>1, <1>4, <2>1, <2>2 DEF Goto, Step
<1>5. CASE Route(c)
  <2>1. PICK label : /\ Goto(c, label) /\ o.at = "route"
                     /\ label = "owner" \/ (label = "locate" /\ HasRow(Sub(c)))
    BY <1>1, <1>5 DEF Route, At, HasRow
  <2> QED
    BY <1>1, <1>4, <2>1 DEF Moved
<1>6. ASSUME NEW k, Step(c, k), k.event = o.event,
             \/ o.at = "locate" /\ k.at \in {"write", "notify"}
             \/ o.at \in SeedLabels /\ k.at \in SeedLabels \cup {"notify"}
             \/ o.at = "upsert" /\ k.at = "load"
             \/ o.at \in ProvisionLabels \ {"welcome"} /\ k.at \in ProvisionLabels
      PROVE  \E q : Moved(c, q)
  BY <1>1, <1>6 DEF Moved, Step
<1>7. ASSUME NEW label, Goto(c, label),
             \/ o.at = "locate" /\ label = "notify"
             \/ o.at = "write" /\ label = "notify"
             \/ o.at \in SeedLabels /\ label \in SeedLabels \cup {"notify"}
             \/ o.at = "cancel" /\ label = "load"
             \/ o.at = "set" /\ label = (IF o.known THEN "load" ELSE "notify")
             \/ o.at = "save" /\ label \in {"provision", "notify", "answer"} /\ plan' = o.plan
             \/ o.at \in ProvisionLabels \ {"welcome"} /\ label \in ProvisionLabels
             \/ o.at \in {"welcome", "notify"} /\ label = "answer"
      PROVE  \E q : Moved(c, q)
  <2>1. PICK k : call' = [call EXCEPT ![c] = k] /\ k.event = o.event /\ k.at = label
    BY <1>4, <1>7
  <2> QED
    BY <1>1, <1>7, <2>1 DEF Moved
<1>8. CASE Locate(c)
  <2>1. o.at = "locate"
    BY <1>1, <1>8 DEF Locate, At
  <2>2. CASE Goto(c, "notify")
    BY <1>7, <2>1, <2>2
  <2>3. ASSUME NEW r, Step(c, [call[c] EXCEPT !.at = "write", !.row = r, !.due = monitor[r].due])
        PROVE  \E q : Moved(c, q)
    <3>1. PICK k : k = [o EXCEPT !.at = "write", !.row = r, !.due = monitor[r].due]
      OBVIOUS
    <3>2. k.event = o.event /\ k.at = "write" /\ Step(c, k)
      BY <1>1, <1>2, <2>3, <3>1 DEF CallRecords
    <3> QED
      BY <1>6, <2>1, <3>2
  <2> QED
    BY <1>8, <2>2, <2>3 DEF Locate
<1>9. CASE Write(c) \/ Cancel(c) \/ Welcome(c) \/ Notify(c) \/ Join(c) \/ Link(c) \/ Create(c)
  <2>1. PICK label : /\ Goto(c, label)
                     /\ \/ o.at = "write" /\ label = "notify"
                        \/ o.at = "cancel" /\ label = "load"
                        \/ o.at \in {"welcome", "notify"} /\ label = "answer"
                        \/ o.at \in {"join", "link", "create"} /\ label \in {"join", "link", "welcome"}
    BY <1>1, <1>3, <1>9 DEF Write, Cancel, Welcome, Notify, Join, Link, Create, Checked, Swallowed, At
  <2> QED
    BY <1>7, <2>1 DEF ProvisionLabels
<1>10. CASE Set(c) \/ SavePlan(c)
  <2>1. PICK label : /\ Goto(c, label)
                     /\ \/ o.at = "set" /\ label = (IF o.known THEN "load" ELSE "notify")
                        \/ o.at = "save" /\ label \in {"provision", "notify", "answer"} /\ plan' = o.plan
    BY <1>1, <1>3, <1>10 DEF Set, SavePlan, AfterPlan, Checked, At
  <2> QED
    BY <1>7, <2>1
<1>11. CASE Retrieve(c)
  <2>1. PICK status : Step(c, [o EXCEPT !.at = "seek", !.status = status]) /\ o.at = "retrieve"
    BY <1>1, <1>11 DEF Retrieve, At
  <2>2. PICK k : k = [o EXCEPT !.at = "seek", !.status = status]
    OBVIOUS
  <2>3. k.event = o.event /\ k.at = "seek" /\ Step(c, k)
    BY <1>2, <2>1, <2>2 DEF CallRecords
  <2> QED
    BY <1>6, <2>1, <2>3 DEF SeedLabels
<1>12. ASSUME NEW r, Aim(c, r), o.at \in SeedLabels PROVE \E q : Moved(c, q)
  <2>1. PICK k : k = [o EXCEPT !.at = "point", !.row = r, !.due = monitor[r].due]
    OBVIOUS
  <2>2. k.event = o.event /\ k.at = "point" /\ Step(c, k)
    BY <1>1, <1>2, <1>12, <2>1 DEF CallRecords, Aim
  <2> QED
    BY <1>6, <1>12, <2>2 DEF SeedLabels
<1>13. CASE Seek(c) \/ Resolve(c) \/ Insert(c) \/ Point(c)
  <2>1. o.at \in SeedLabels
    BY <1>1, <1>13 DEF Seek, Resolve, Insert, Point, At, SeedLabels
  <2>2. \/ \E r : Aim(c, r)
        \/ \E label \in {"insert", "resolve", "notify"} : Goto(c, label)
    BY <1>3, <1>13 DEF Seek, Resolve, Insert, Point, Checked
  <2> QED
    BY <1>7, <1>12, <2>1, <2>2 DEF SeedLabels
<1>14. CASE Upsert(c)
  <2>1. PICK known : Step(c, [o EXCEPT !.at = "load", !.known = known]) /\ o.at = "upsert"
    BY <1>1, <1>3, <1>14 DEF Upsert, Checked, At
  <2>2. PICK k : k = [o EXCEPT !.at = "load", !.known = known]
    OBVIOUS
  <2>3. k.event = o.event /\ k.at = "load" /\ Step(c, k)
    BY <1>2, <2>1, <2>2 DEF CallRecords
  <2> QED
    BY <1>6, <2>1, <2>3
<1>15. CASE Owner(c)
  <2>1. PICK known \in BOOLEAN : /\ Step(c, [o EXCEPT !.at = "set", !.known = known]) /\ o.at = "owner"
                                 /\ known => row[Sub(c)] # "none"
                                 /\ known \/ row[Sub(c)] = "none" \/ Sub(c) \in disturbed'
    BY <1>1, <1>15 DEF Owner, At, Unseen
  <2>2. PICK k : k = [o EXCEPT !.at = "set", !.known = known]
    OBVIOUS
  <2>3. k.event = o.event /\ k.at = "set" /\ k.known = known /\ Step(c, k)
    BY <1>2, <2>1, <2>2 DEF CallRecords
  <2> QED
    BY <1>1, <2>1, <2>3 DEF Moved, Step
<1>16. CASE LoadPlan(c)
  <2>1. Step(c, [o EXCEPT !.at = "save", !.plan = LiveRowsPlan]) /\ o.at = "load"
    BY <1>1, <1>3, <1>16 DEF LoadPlan, At, LiveRowsPlan
  <2>2. PICK k : k = [o EXCEPT !.at = "save", !.plan = LiveRowsPlan]
    OBVIOUS
  <2>3. k.event = o.event /\ k.at = "save" /\ k.plan = LiveRowsPlan /\ Step(c, k)
    BY <1>2, <2>1, <2>2 DEF CallRecords
  <2> QED
    BY <1>1, <2>1, <2>3 DEF Moved, Step
<1>17. CASE Provision(c)
  <2>1. PICK key : Step(c, [o EXCEPT !.at = "create", !.row = key]) /\ o.at = "provision"
    BY <1>1, <1>17 DEF Provision, At
  <2>2. PICK k : k = [o EXCEPT !.at = "create", !.row = key]
    OBVIOUS
  <2>3. k.event = o.event /\ k.at = "create" /\ Step(c, k)
    BY <1>2, <2>1, <2>2 DEF CallRecords
  <2> QED
    BY <1>6, <2>1, <2>3 DEF ProvisionLabels
<1> QED
  BY <1>3, <1>5, <1>8, <1>9, <1>10, <1>11, <1>13, <1>14, <1>15, <1>16, <1>17 DEF Handle

(***************************************************************************)
(* Rows and plan: who writes them, and what a step does not change.        *)
(***************************************************************************)
LEMMA RowsMove ==
  ASSUME SubIInv, NEW c \in Calls, Calling(c)
  PROVE  /\ \/ UNCHANGED row
            \/ /\ call[c].at \in {"upsert", "cancel", "set"} /\ UNCHANGED plan
               /\ call[c].at = "set" => row[Sub(c)] # "none"
               /\ call[c].at = "cancel" => row[Sub(c)] # "none"
               /\ Sub(c) \in Subs /\ row'[Sub(c)] # "none"
               /\ \A s \in Subs \ {Sub(c)} : row'[s] = row[s]
         /\ UNCHANGED plan \/ (call[c].at = "save" /\ plan' = call[c].plan /\ UNCHANGED row)
<1>1. WorkspacesOK /\ CallFine(call[c])
  BY TypeParts DEF SubIInv
<1>2. call[c].at # "idle" => Sub(c) \in Subs /\ Event(c).status \in Statuses
  BY <1>1 DEF CallFine, EventRecords, Sub, Event
<1>3. CASE Upsert(c) \/ Cancel(c) \/ Set(c)
  <2>1. UNCHANGED plan /\ call[c].at \in {"upsert", "cancel", "set"}
    BY <1>3 DEF Upsert, Cancel, Set, At
  <2>2. \/ UNCHANGED row
        \/ \E status \in Statuses : /\ SetRow(Sub(c), status)
                                    /\ call[c].at \in {"set", "cancel"} => row[Sub(c)] # "none"
    BY <1>2, <1>3, <2>1 DEF Upsert, Cancel, Set, Checked, At, Statuses, Live
  <2>3. ASSUME NEW status \in Statuses, SetRow(Sub(c), status)
        PROVE  row'[Sub(c)] # "none" /\ \A s \in Subs \ {Sub(c)} : row'[s] = row[s]
    BY <1>1, <1>2, <2>1, <2>3 DEF SetRow, WorkspacesOK, Statuses, Live
  <2> QED
    BY <1>2, <2>1, <2>2, <2>3
<1>4. CASE SavePlan(c)
  BY <1>4 DEF SavePlan, Checked, At
<1>5. CASE ~(Upsert(c) \/ Cancel(c) \/ Set(c) \/ SavePlan(c))
  <2>1. UNCHANGED <<row, plan>>
    BY <1>5
    DEF Calling, Deliver, Handle, Route, Locate, Write, Retrieve, Seek, Insert, Resolve, Point, Owner, LoadPlan,
        Provision, Create, Join, Link, Welcome, Notify, Answer, CallDies, workspaceVars
  <2> QED
    BY <2>1
<1> QED
  BY <1>3, <1>4, <1>5

LEMMA SameBest ==
  ASSUME UNCHANGED <<row, kind>>
  PROVE  LiveRowsPlan' = LiveRowsPlan
<1>1. PICK live : live = {s \in Subs : row[s] \in Live}
  OBVIOUS
<1>2. {s \in Subs : row'[s] \in Live} = live
  BY <1>1
<1>3. Best(live)' = Best(live)
  BY DEF Best
<1> QED
  BY <1>1, <1>2, <1>3 DEF LiveRowsPlan

LEMMA SamePlan ==
  ASSUME UNCHANGED <<row, kind, plan>>
  PROVE  /\ Right' <=> Right
         /\ \A e : Owing(e)' <=> Owing(e)
         /\ \A k : Planned(k)' <=> Planned(k)
<1>1. (Right' <=> Right) /\ LiveRowsPlan' = LiveRowsPlan
  BY SameBest DEF Right
<1>2. \A e : Owing(e)' <=> Owing(e)
  BY DEF Owing, Main
<1> QED
  BY <1>1, <1>2 DEF Planned

\* Which rows of monitors come to carry a subscription.
LEMMA Carriers ==
  ASSUME SubIInv, NEW c \in Calls, Calling(c), NEW r \in Subs, NEW s \in Subs, Carries(r, s)'
  PROVE  Carries(r, s) \/ (s = Sub(c) /\ call[c].at \in SeedLabels)
<1>1. MonitorsOK /\ CallFine(call[c])
  BY TypeParts DEF SubIInv
<1>2. CASE UNCHANGED monitor
  BY <1>2 DEF Carries
<1>3. ASSUME NEW q \in Subs, NEW m, SetMonitor(q, m), m.sub = monitor[q].sub
      PROVE  Carries(r, s)
  BY <1>1, <1>3 DEF SetMonitor, MonitorsOK, Carries
<1>4. ASSUME NEW q \in Subs, NEW m, SetMonitor(q, m), m.sub = Sub(c)
      PROVE  Carries(r, s) \/ s = Sub(c)
  BY <1>1, <1>4 DEF SetMonitor, MonitorsOK, Carries
<1>5. CASE Write(c) /\ ~UNCHANGED monitor
  <2>1. PICK m : m = Written(c, call[c].row)
    OBVIOUS
  <2>2. SetMonitor(call[c].row, m) /\ call[c].row \in Subs
    BY <1>1, <1>5, <2>1 DEF Write, CallFine, At
  <2>3. m.sub = monitor[call[c].row].sub
    BY <1>1, <2>1, <2>2 DEF Written, MonitorsOK, MonitorRows
  <2> QED
    BY <1>3, <2>2, <2>3
<1>6. CASE (Insert(c) \/ Point(c)) /\ ~UNCHANGED monitor
  <2>1. PICK q \in Subs : \E due : SetMonitor(q, Seeded(c, due))
    BY <1>1, <1>6 DEF Insert, Point, Checked, CallFine, At, monitorVars
  <2>2. PICK due : SetMonitor(q, Seeded(c, due))
    BY <2>1
  <2>3. Seeded(c, due).sub = Sub(c)
    BY DEF Seeded
  <2> QED
    BY <1>4, <1>6, <2>2, <2>3 DEF Insert, Point, At, SeedLabels
<1> QED
  BY <1>2, <1>5, <1>6
  DEF Calling, Deliver, Handle, Route, Locate, Retrieve, Seek, Resolve, Upsert, Cancel, Owner, Set, LoadPlan, SavePlan,
      Provision, Create, Join, Link, Welcome, Notify, Answer, CallDies, monitorVars

\* What an invocation is at after its step.
LEMMA Came ==
  ASSUME SubIInv, NEW c \in Calls, Calling(c)
  PROVE  \E k : /\ call' = [call EXCEPT ![c] = k]
                /\ \/ k = IdleCall
                   \/ \E e \in events : Deliver(c, e) /\ k.event = e /\ k.at = Handler(e)
                   \/ Moved(c, k)
<1>1. CASE \E e \in events : Deliver(c, e)
  <2>1. PICK e \in events : Deliver(c, e)
    BY <1>1
  <2>2. PICK k : k = [IdleCall EXCEPT !.at = Handler(e), !.event = e]
    OBVIOUS
  <2>3. k.event = e /\ k.at = Handler(e)
    BY <2>2 DEF IdleCall
  <2>4. call' = [call EXCEPT ![c] = k]
    BY <2>1, <2>2 DEF Deliver, Step
  <2> QED
    BY <2>1, <2>3, <2>4
<1>2. CASE End(c)
  BY <1>2 DEF End, Step
<1>3. CASE Handle(c) /\ ~End(c)
  <2>1. PICK k : Moved(c, k)
    BY <1>3, Moves
  <2> QED
    BY <2>1 DEF Moved
<1> QED
  BY <1>1, <1>2, <1>3 DEF Calling, CallDies

-----------------------------------------------------------------------------
(***************************************************************************)
(* The steps of invocations.                                               *)
(***************************************************************************)
LEMMA ApartStep ==
  ASSUME SubIInv, Grows, MonitorsApart, \A d \in Calls : Apart(call[d]), NEW c \in Calls, Calling(c)
  PROVE  MonitorsApart' /\ \A d \in Calls : Apart(call[d])'
<1>1. /\ call \in [Calls -> CallRecords] /\ UNCHANGED kind /\ StripeOK
      /\ call[c].at # "idle" => Sub(c) \in Subs /\ Event(c) \in EventRecords
  BY TypeParts DEF SubIInv, Grows, CallFine, EventRecords, Sub, Event
<1>2. \A k : Apart(k)' <=> Apart(k)
  BY <1>1 DEF Apart, Main
<1>3. PICK o : o = call[c] /\ Apart(o)
  OBVIOUS
<1>4. call[c].at \in SeedLabels => kind[Sub(c)] = "monitor"
  BY <1>3 DEF Apart, Sub
<1>5. MonitorsApart'
  <2>1. \A e \in events' : e.type = "checkout" => kind'[e.sub] = "monitor"
    <3>1. events' \subseteq events
      BY DEF Calling, Deliver, Handle, Route, Locate, Write, Retrieve, Seek, Insert, Resolve, Point, Upsert, Cancel, Owner,
         Set, LoadPlan, SavePlan, Provision, Create, Join, Link, Welcome, Notify, Answer, CallDies
    <3> QED
      BY <1>1, <3>1 DEF MonitorsApart
  <2>2. \A r, s \in Subs : Carries(r, s)' => kind'[s] = "monitor"
    BY <1>1, <1>4, Carriers DEF MonitorsApart
  <2>3. ASSUME NEW s \in Subs, kind[s] = "monitor" PROVE row'[s] = "none"
    <3>1. row[s] = "none"
      BY <2>3 DEF MonitorsApart
    <3>2. call[c].at \in {"upsert", "cancel"} => kind[Sub(c)] # "monitor"
      BY <1>3 DEF Apart, Sub
    <3> QED
      BY <2>3, <3>1, <3>2, RowsMove
  <2> QED
    BY <1>1, <2>1, <2>2, <2>3 DEF MonitorsApart
<1>6. PICK k : /\ call' = [call EXCEPT ![c] = k]
               /\ \/ k = IdleCall
                  \/ \E e \in events : Deliver(c, e) /\ k.event = e /\ k.at = Handler(e)
                  \/ Moved(c, k)
  BY Came
<1>7. Apart(k)
  <2>1. CASE k = IdleCall
    BY <2>1 DEF Apart, IdleCall, NoEvent, SeedLabels, ProvisionLabels, Main
  <2>2. ASSUME NEW e \in events, k.event = e, k.at = Handler(e) PROVE Apart(k)
    <3>1. e.type = "checkout" => kind[e.sub] = "monitor"
      BY DEF MonitorsApart
    <3>2. e.type \in {"changed", "deleted", "paid", "failed", "checkout"}
      BY <1>1 DEF StripeOK, EventRecords
    <3> QED
      BY <2>2, <3>1, <3>2 DEF Apart, Handler, SeedLabels, ProvisionLabels, ChangeLabels, Main
  <2>3. CASE Moved(c, k)
    <3>1. k.event = o.event /\ k.event.sub = Sub(c)
      BY <1>3, <2>3 DEF Moved, Sub
    <3>2. o.at = "route" /\ HasRow(Sub(c)) => kind[Sub(c)] = "monitor"
      BY <1>1, <1>3 DEF MonitorsApart, HasRow
    <3>3. o.at = "owner" /\ row[Sub(c)] # "none" => kind[Sub(c)] # "monitor"
      BY <1>1, <1>3 DEF MonitorsApart
    <3> QED
      BY <1>3, <2>3, <3>1, <3>2, <3>3 DEF Apart, Moved, SeedLabels, ProvisionLabels, ChangeLabels
  <2> QED
    BY <1>6, <2>1, <2>2, <2>3
<1>8. ASSUME NEW d \in Calls PROVE Apart(call[d])'
  <2>1. PICK p : p = call'[d]
    OBVIOUS
  <2>2. Apart(p)
    BY <1>1, <1>6, <1>7, <2>1
  <2> QED
    BY <1>2, <2>1, <2>2
<1> QED
  BY <1>5, <1>8

LEMMA PlanStep ==
  ASSUME AnswerIInv, Grows, PlanIInv, NEW c \in Calls, Calling(c), Undisturbed'
  PROVE  Sole' /\ (\A d \in Calls : Planned(call[d])')
         /\ (Right' \/ \E e \in events' : Owing(e)')
<1>1. /\ SubIInv /\ UNCHANGED kind /\ disturbed = {} /\ disturbed' = {} /\ ~raced /\ ~raced'
      /\ MonitorsApart /\ \A d \in Calls : Apart(call[d]) /\ Alone(d)
  <2>1. raced => raced'
    BY DEF Calling, Deliver, Handle, Route, Locate, Write, Retrieve, Seek, Insert, Resolve, Point, Upsert, Cancel, Owner,
       Set, LoadPlan, SavePlan, Provision, Create, Join, Link, Welcome, Notify, Answer, CallDies, Swallowed, Seen, Unseen,
       historyVars
  <2> QED
    BY <2>1 DEF AnswerIInv, PlanIInv, Undisturbed, Grows
<1>2. Sole /\ (\A d \in Calls : Planned(call[d])) /\ (Right \/ \E e \in events : Owing(e))
  BY <1>1 DEF PlanIInv, Undisturbed
<1>3. /\ call \in [Calls -> CallRecords]
      /\ \A d \in Calls : call[d].at # "idle" => Sub(d) \in Subs /\ Event(d) \in EventRecords
  BY <1>1, TypeParts DEF SubIInv, CallFine, EventRecords, Sub, Event
<1>4. PICK o : o = call[c] /\ Apart(o) /\ Planned(o) /\ Alone(c)
  BY <1>1, <1>2
<1>5. PICK k : /\ call' = [call EXCEPT ![c] = k]
               /\ \/ k = IdleCall
                  \/ \E e \in events : Deliver(c, e) /\ k.event = e /\ k.at = Handler(e)
                  \/ Moved(c, k)
  BY <1>1, Came
<1>6. call'[c] = k /\ \A d \in Calls \ {c} : call'[d] = call[d]
  BY <1>3, <1>5
<1>7. Moved(c, k) => k.event = o.event /\ o.at # "idle"
  BY <1>4 DEF Moved, SeedLabels, ProvisionLabels
\* Rows and plan are written for subscriptions of workspaces.
<1>8. UNCHANGED <<row, plan>> \/ Busy(c)
  <2>1. CASE UNCHANGED row
    <3>1. UNCHANGED plan \/ o.at = "save"
      BY <1>1, <1>4, RowsMove
    <3> QED
      BY <1>4, <2>1, <3>1 DEF Busy, Apart, Sub
  <2>2. CASE ~UNCHANGED row
    <3>1. o.at \in {"upsert", "cancel", "set"} /\ Sub(c) \in Subs /\ (o.at = "set" => row[Sub(c)] # "none")
      BY <1>1, <1>4, <2>2, RowsMove
    <3>2. o.at = "set" => kind[Sub(c)] # "monitor"
      BY <1>1, <3>1 DEF MonitorsApart
    <3> QED
      BY <1>4, <3>1, <3>2 DEF Busy, Apart, Sub
  <2> QED
    BY <2>1, <2>2
<1>9. Sole'
  <2>1. CASE \E e \in events : Deliver(c, e)
    <3>1. PICK e \in events : Deliver(c, e)
      BY <2>1
    <3>2. call[c].at = "idle" /\ k.event = e
      <4>1. call[c].at = "idle" /\ call'[c] = [IdleCall EXCEPT !.at = Handler(e), !.event = e]
        BY <1>3, <3>1 DEF Deliver, At, Step
      <4> QED
        BY <1>6, <4>1 DEF IdleCall
    <3>3. kind[e.sub] # "monitor" => \A d \in Calls \ {c} : ~Busy(d)
      BY <1>1, <3>1 DEF Deliver, Busy, At
    <3>4. \A d \in Calls \ {c} : Busy(d)' <=> Busy(d)
      BY <1>1, <1>6 DEF Busy, Sub
    <3>5. Busy(c)' => kind[e.sub] # "monitor"
      BY <1>1, <1>6, <3>2 DEF Busy, Sub
    <3> QED
      BY <1>2, <3>3, <3>4, <3>5 DEF Sole
  <2>2. CASE ~\E e \in events : Deliver(c, e)
    <3>1. \A d \in Calls : Busy(d)' => Busy(d)
      BY <1>1, <1>4, <1>5, <1>6, <1>7, <2>2 DEF Busy, Sub, IdleCall
    <3> QED
      BY <1>2, <3>1 DEF Sole
  <2> QED
    BY <2>1, <2>2
<1>10. ASSUME NEW d \in Calls \ {c} PROVE Planned(call[d])'
  <2>1. PICK p : p = call[d] /\ p = call'[d] /\ Planned(p) /\ Apart(p)
    BY <1>1, <1>2, <1>6
  <2>2. CASE UNCHANGED <<row, plan>>
    BY <1>1, <2>1, <2>2, SamePlan
  <2>3. CASE ~Busy(d)
    <3>1. p.at = "idle" \/ (kind[p.event.sub] = "monitor" /\ p.event.sub \in Subs)
      BY <1>3, <2>1, <2>3 DEF Busy, Sub
    <3>2. CASE p.at = "idle"
      BY <2>1, <3>2 DEF Planned, ProvisionLabels
    <3>3. CASE kind[p.event.sub] = "monitor" /\ p.event.sub \in Subs
      <4>1. row[p.event.sub] = "none" /\ row'[p.event.sub] = "none"
        BY <1>1, <3>3, ApartStep DEF MonitorsApart
      <4>2. p.at # "save" /\ p.at \notin ProvisionLabels /\ ~Owing(p.event)'
        BY <1>1, <2>1, <3>3 DEF Apart, Owing
      <4>3. Planned(p)'
        BY <2>1, <4>1, <4>2 DEF Planned
      <4> QED
        BY <2>1, <4>3
    <3> QED
      BY <3>1, <3>2, <3>3
  <2> QED
    BY <1>2, <1>8, <2>2, <2>3 DEF Sole
\* The plan that it has just saved is the one of the rows.
<1>11. o.at = "save" /\ plan' = o.plan => Right'
  <2>1. o.at = "save" => UNCHANGED row
    BY <1>1, <1>4, RowsMove
  <2>2. o.at = "save" => o.plan = LiveRowsPlan
    BY <1>4 DEF Planned
  <2> QED
    BY <1>1, <2>1, <2>2, SameBest DEF Right
<1>12. o.at \notin {"upsert", "cancel", "set", "save"} =>
         /\ UNCHANGED <<row, plan>> /\ (Right' <=> Right) /\ \A e : Owing(e)' <=> Owing(e)
  <2>1. o.at \notin {"upsert", "cancel", "set", "save"} => UNCHANGED <<row, plan>>
    BY <1>1, <1>4, RowsMove
  <2> QED
    BY <1>1, <2>1, SamePlan
<1>13. Planned(k)'
  <2>1. k.at = "set" => (k.known <=> row'[k.event.sub] # "none")
    <3> SUFFICES ASSUME k.at = "set" PROVE k.known <=> row'[k.event.sub] # "none"
      OBVIOUS
    <3>1. Moved(c, k)
      BY <1>5 DEF IdleCall, Handler
    <3>2. /\ o.at = "owner" /\ (k.known => row[Sub(c)] # "none")
          /\ k.known \/ row[Sub(c)] = "none" \/ Sub(c) \in disturbed'
      BY <1>4, <3>1 DEF Moved, SeedLabels, ProvisionLabels
    <3> QED
      BY <1>1, <1>4, <1>7, <1>12, <3>1, <3>2 DEF Sub
  <2>2. k.at = "save" => k.plan = LiveRowsPlan'
    <3> SUFFICES ASSUME k.at = "save" PROVE k.plan = LiveRowsPlan'
      OBVIOUS
    <3>1. Moved(c, k)
      BY <1>5 DEF IdleCall, Handler
    <3>2. o.at = "load" /\ k.plan = LiveRowsPlan
      BY <1>4, <3>1 DEF Moved, SeedLabels, ProvisionLabels
    <3> QED
      BY <1>1, <1>12, <3>2, SameBest
  <2>3. k.at \in ProvisionLabels => Right'
    <3> SUFFICES ASSUME k.at \in ProvisionLabels PROVE Right'
      OBVIOUS
    <3>1. Moved(c, k)
      BY <1>5 DEF IdleCall, Handler, ProvisionLabels
    <3>2. (o.at = "save" /\ plan' = o.plan) \/ o.at \in ProvisionLabels
      BY <1>4, <3>1 DEF Moved, SeedLabels, ProvisionLabels
    <3>3. o.at \in ProvisionLabels => Right /\ o.at \notin {"upsert", "cancel", "set", "save"}
      BY <1>4 DEF Planned, ProvisionLabels
    <3> QED
      BY <1>11, <1>12, <3>2, <3>3
  <2>4. k.at \in {"notify", "answer"} /\ Owing(k.event)' => Right'
    <3> SUFFICES ASSUME k.at \in {"notify", "answer"}, Owing(k.event)' PROVE Right'
      OBVIOUS
    <3>1. Moved(c, k)
      BY <1>5 DEF IdleCall, Handler
    <3>2. /\ k.event = o.event /\ kind[o.event.sub] # "monitor" /\ o.event.type # "checkout"
          /\ Main(o.event) \/ row'[o.event.sub] # "none"
      BY <1>1, <1>7, <3>1 DEF Owing, Main
    <3>3. o.at \notin {"locate", "write"} \cup SeedLabels
      BY <1>4, <3>2 DEF Apart
    <3>4. \/ o.at = "save" /\ plan' = o.plan
          \/ o.at = "set" /\ ~o.known
          \/ o.at \in {"welcome", "notify"}
      BY <1>4, <3>1, <3>3 DEF Moved, SeedLabels, ProvisionLabels
    <3>5. CASE o.at = "set" /\ ~o.known
      <4>1. row[o.event.sub] = "none"
        BY <1>4, <3>5 DEF Planned
      <4>2. UNCHANGED row
        BY <1>1, <1>4, <3>5, <4>1, RowsMove DEF Sub
      <4>3. Main(o.event)
        BY <3>2, <4>1, <4>2
      <4> QED
        BY <1>4, <3>2, <3>5, <4>3 DEF Apart, ChangeLabels
    <3>6. CASE o.at \in {"welcome", "notify"}
      BY <1>4, <1>12, <3>2, <3>6 DEF Planned, ProvisionLabels
    <3> QED
      BY <1>11, <3>4, <3>5, <3>6
  <2> QED
    BY <2>1, <2>2, <2>3, <2>4 DEF Planned
<1>14. Right' \/ \E e \in events' : Owing(e)'
  <2>1. CASE ~UNCHANGED row
    <3>1. /\ o.at \in {"upsert", "cancel", "set"} /\ row'[Sub(c)] # "none" /\ Busy(c)
          /\ ~Answer(c)
      BY <1>1, <1>4, <1>8, <2>1, RowsMove DEF Answer, At
    <3>2. Event(c) \in events /\ events' = events
      BY <1>1, <1>4, <3>1, CallFeeds DEF Alone, feedVars
    <3>3. kind'[o.event.sub] # "monitor" /\ o.event.type # "checkout" /\ row'[o.event.sub] # "none"
      BY <1>1, <1>4, <3>1 DEF Busy, Apart, Sub
    <3>4. Owing(o.event)'
      BY <3>3 DEF Owing
    <3> QED
      BY <1>4, <3>2, <3>4 DEF Event
  <2>2. CASE UNCHANGED row /\ ~UNCHANGED plan
    BY <1>1, <1>4, <1>11, <2>2, RowsMove
  <2>3. CASE UNCHANGED <<row, plan>>
    <3>1. (Right' <=> Right) /\ \A e : Owing(e)' <=> Owing(e)
      BY <1>1, <2>3, SamePlan
    <3>2. CASE Answer(c)
      <4>1. o.at = "answer" /\ events' = events \ {o.event}
        BY <1>4, <3>2 DEF Answer, At, Event
      <4>2. Owing(o.event) => Right
        BY <1>4, <4>1 DEF Planned
      <4> QED
        BY <1>2, <3>1, <4>1, <4>2
    <3>3. CASE ~Answer(c)
      BY <1>2, <3>1, <3>3, CallFeeds DEF feedVars
    <3> QED
      BY <3>2, <3>3
  <2> QED
    BY <2>1, <2>2, <2>3
<1>15. \A d \in Calls : Planned(call[d])'
  <2>1. Planned(call[c])'
    BY <1>6, <1>13
  <2> QED
    BY <1>10, <2>1
<1> QED
  BY <1>9, <1>14, <1>15

-----------------------------------------------------------------------------
LEMMA PlansMove ==
  ASSUME AnswerIInv, PlanIInv, [SubscriptionNext]_subscriptionVars
  PROVE  PlanIInv'
<1>1. /\ SubIInv /\ Grows /\ MonitorsApart /\ \A d \in Calls : Apart(call[d])
  BY AlwaysGrows DEF AnswerIInv, PlanIInv
<1>2. ASSUME NEW c \in Calls, Calling(c) PROVE PlanIInv'
  <2>1. MonitorsApart' /\ \A d \in Calls : Apart(call[d])'
    BY <1>1, <1>2, ApartStep
  <2>2. Undisturbed' => /\ Sole' /\ (\A d \in Calls : Planned(call[d])')
                        /\ Right' \/ \E e \in events' : Owing(e)'
    BY <1>1, <1>2, PlanStep
  <2> QED
    BY <2>1, <2>2 DEF PlanIInv
<1>3. ASSUME \/ \E s \in Subs : Change(s) \/ ComeDue(s)
             \/ \E x \in Sweeps : SweepStep(x)
             \/ UNCHANGED subscriptionVars
      PROVE  PlanIInv'
  <2>1. UNCHANGED <<row, plan, call, disturbed, raced>> /\ UNCHANGED kind
    BY <1>1, <1>3
    DEF Change, ComeDue, SweepStep, Select, Audit, Advance, SweepDies, workspaceVars, historyVars, subscriptionVars, Grows
  <2>2. events \subseteq events' /\ \A e \in events' \ events : e.type = "checkout" => kind[e.sub] = "monitor"
    <3>1. ASSUME NEW s \in Subs, Change(s)
          PROVE  /\ events \subseteq events'
                 /\ \A e \in events' \ events : e.type = "checkout" => kind[e.sub] = "monitor"
      BY <3>1 DEF Change, Emitted
    <3>2. CASE ~\E s \in Subs : Change(s)
      BY <1>3, <3>2 DEF ComeDue, SweepStep, Select, Audit, Advance, SweepDies, subscriptionVars
    <3> QED
      BY <3>1, <3>2
  <2>3. \A r, s \in Subs : Carries(r, s)' <=> Carries(r, s)
    BY <1>1, <1>3, OnlyDates DEF Same
  <2>4. MonitorsApart'
    BY <1>1, <2>1, <2>2, <2>3 DEF MonitorsApart
  <2>5. /\ Right' <=> Right
        /\ \A e : Owing(e)' <=> Owing(e)
        /\ \A k : Planned(k)' <=> Planned(k)
    BY <2>1, SamePlan
  <2>6. ASSUME NEW d \in Calls
        PROVE  Apart(call[d])' /\ (Planned(call[d]) => Planned(call[d])') /\ (Busy(d)' <=> Busy(d))
    <3>1. PICK o : o = call[d] /\ o = call'[d] /\ Apart(o)
      BY <1>1, <2>1
    <3>2. Apart(o)' /\ (Planned(o) => Planned(o)')
      BY <2>1, <2>5, <3>1 DEF Apart, Main
    <3> QED
      BY <2>1, <3>1, <3>2 DEF Busy, Sub
  <2>7. Undisturbed' => /\ Sole' /\ (\A d \in Calls : Planned(call[d])')
                        /\ Right' \/ \E e \in events' : Owing(e)'
    <3>1. Undisturbed' => Undisturbed
      BY <2>1 DEF Undisturbed
    <3>2. Sole => Sole'
      BY <2>6 DEF Sole
    <3> QED
      BY <2>2, <2>5, <2>6, <3>1, <3>2 DEF PlanIInv
  <2> QED
    BY <2>4, <2>6, <2>7 DEF PlanIInv
<1> QED
  BY <1>2, <1>3, NextSteps

\* With nothing pending the plan of the rows is the one that is paid for.
LEMMA PaidPlan == AnswerIInv /\ PlanIInv => PlanIsPaidFor
<1> SUFFICES ASSUME AnswerIInv, PlanIInv, Undisturbed, \A s \in Subs : Quiet(s)
             PROVE  plan = Best({s \in Subs : stripe[s] \in Live})
  BY DEF PlanIsPaidFor, Undisturbed
<1>1. events = {}
  BY TypeParts DEF AnswerIInv, SubIInv, StripeOK, EventRecords, Quiet
<1>2. plan = Best({s \in Subs : row[s] \in Live})
  BY <1>1 DEF PlanIInv, Right, LiveRowsPlan
<1>3. \A s \in Subs : kind[s] # "monitor" => (row[s] \in Live <=> stripe[s] \in Live)
  BY AnsweredThenTrue DEF AnsweredMeansTrue, Undisturbed, IsLive
<1>4. PICK rows : rows = {s \in Subs : row[s] \in Live}
  OBVIOUS
<1>5. PICK paid : paid = {s \in Subs : stripe[s] \in Live}
  OBVIOUS
<1>6. \A s : kind[s] # "monitor" => (s \in rows <=> s \in paid)
  BY <1>3, <1>4, <1>5
<1>7. Best(rows) = Best(paid)
  <2>1. (\E s \in rows : kind[s] \in Agency) <=> \E s \in paid : kind[s] \in Agency
    BY <1>6 DEF Agency
  <2>2. (\A s \in rows : kind[s] = "monitor") <=> \A s \in paid : kind[s] = "monitor"
    BY <1>6
  <2> QED
    BY <2>1, <2>2 DEF Best
<1> QED
  BY <1>2, <1>4, <1>5, <1>7

(***************************************************************************)
(* When all events are answered and none overlapped, the plan is the best  *)
(* of what is paid for, for any subscriptions, invocations, sweeps and     *)
(* limits: about syncUserPlanFromSubscriptions, which computes the plan in *)
(* one call and writes it in another, and the handlers that stop between.  *)
(***************************************************************************)
THEOREM PlanIsAlwaysPaidFor == SubscriptionSpec => []PlanIsPaidFor
<1>1. AnswerIInv /\ [SubscriptionNext]_subscriptionVars => AnswerIInv'
  BY CallsAnswer, OthersAnswer, NextSteps
<1>2. PlanIInv /\ AnswerIInv /\ [SubscriptionNext]_subscriptionVars => PlanIInv'
  BY PlansMove
<1> QED
  BY <1>1, <1>2, AnswersStart, PlanStarts, PaidPlan, PTL DEF SubscriptionSpec

=============================================================================
