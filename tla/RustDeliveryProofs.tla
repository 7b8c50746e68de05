------------------------- MODULE RustDeliveryProofs -------------------------
(***************************************************************************)
(* No delivery vanishes or is reported twice: of every activity, the       *)
(* events sent, the tasks at work on it and the ones that ended without    *)
(* their event account for its deliveries, however many tasks there are    *)
(* and however often Mercury delivers it.  And no two tasks use the KMS    *)
(* client at once.                                                         *)
(***************************************************************************)
EXTENDS RustActivityProofs

\* Whether an activity is reported does not depend on what its texts say.
LEMMA RouteReports ==
    ASSUME NEW a, NEW b
    PROVE  Route(a, b) # NoEvent <=>
             \/ IsMessage(a) /\ ~(b # NoPerson /\ a.actor.person = b)
             \/ IsDelete(a) \/ IsMembership(a) \/ IsCardAction(a) \/ IsRoom(a)
<1>0. NoEvent.type = "none"
  BY DEF NoEvent
<1>1. ASSUME NEW type PROVE Event(type, a).type = type
  BY DEF Event, NoEvent
<1>2. CASE IsMessage(a)
  <2>1. Route(a, b) = RouteMessage(a, b)
    BY <1>2 DEF Route, IsMessage, IsDelete, IsMembership, IsCardAction, IsRoom
  <2>2. MessageEvent(a).type \in {"MessageCreated", "MessageUpdated"}
    <3> DEFINE f == Event(IF a.verb = "update" THEN "MessageUpdated"
                                               ELSE "MessageCreated", a)
    <3>1. /\ f.type \in {"MessageCreated", "MessageUpdated"}
          /\ DOMAIN f = {"type", "actor", "text", "html", "inputs", "mentions", "room"}
      BY DEF Event, NoEvent
    <3> HIDE DEF f
    <3>2. [f EXCEPT !.text = a.displayName, !.html = a.content,
             !.mentions = ParseMentions(a.content), !.room = InferRoomType(a)].type
             = f.type
      BY <3>1
    <3> QED
      BY <3>1, <3>2 DEF MessageEvent, f
  <2>3. ~IsDelete(a) /\ ~IsMembership(a) /\ ~IsCardAction(a) /\ ~IsRoom(a)
    BY <1>2 DEF IsMessage, IsDelete, IsMembership, IsCardAction, IsRoom
  <2> QED
    BY <1>0, <1>2, <2>1, <2>2, <2>3 DEF RouteMessage, ExtractPersonUuid
<1>3. CASE IsDelete(a) /\ ~IsMessage(a)
  BY <1>0, <1>1, <1>3 DEF Route, IsDelete, IsMembership, IsCardAction, IsRoom
<1>4. CASE IsMembership(a) /\ ~IsMessage(a)
  <2>1. Route(a, b) = [Event("MembershipCreated", a) EXCEPT !.room = InferRoomType(a)]
    BY <1>4 DEF Route, IsDelete, IsMembership, IsCardAction, IsRoom
  <2>2. Route(a, b).type = "MembershipCreated"
    BY <2>1 DEF Event, NoEvent
  <2> QED
    BY <1>0, <1>4, <2>2
<1>5. CASE IsCardAction(a) /\ ~IsMessage(a)
  <2>1. Route(a, b) = [Event("AttachmentActionCreated", a) EXCEPT !.inputs = a.inputs]
    BY <1>5 DEF Route, IsDelete, IsMembership, IsCardAction, IsRoom
  <2>2. Route(a, b).type = "AttachmentActionCreated"
    BY <2>1 DEF Event, NoEvent
  <2> QED
    BY <1>0, <1>5, <2>2
<1>6. CASE IsRoom(a) /\ ~IsMessage(a)
  BY <1>0, <1>1, <1>6 DEF Route, IsDelete, IsMembership, IsCardAction, IsRoom
<1>7. CASE /\ ~IsMessage(a) /\ ~IsDelete(a) /\ ~IsMembership(a)
           /\ ~IsCardAction(a) /\ ~IsRoom(a)
  BY <1>7 DEF Route
<1> QED
  BY <1>2, <1>3, <1>4, <1>5, <1>6, <1>7

\* Every way to handle a reported activity, with its key, without one, or after
\* the key could not be had, ends with an event.
LEMMA ReportedAnyway ==
    ASSUME NEW a \in Activity, NEW b, Route(a, b) # NoEvent
    PROVE  /\ \A k : Route(DecryptActivity(a, k), b) # NoEvent
           /\ RouteWithoutKey(a, b) # NoEvent
<1>1. ASSUME NEW k PROVE Route(DecryptActivity(a, k), b) # NoEvent
  <2> DEFINE d == DecryptActivity(a, k)
  <2>1. d.verb = a.verb /\ d.objectType = a.objectType /\ d.actor = a.actor
    BY DEF DecryptActivity, Activity
  <2> HIDE DEF d
  <2>2. /\ IsMessage(d) <=> IsMessage(a)
        /\ IsDelete(d) <=> IsDelete(a)
        /\ IsMembership(d) <=> IsMembership(a)
        /\ IsCardAction(d) <=> IsCardAction(a)
        /\ IsRoom(d) <=> IsRoom(a)
    BY <2>1 DEF IsMessage, IsDelete, IsMembership, IsCardAction, IsRoom
  <2>3. Route(d, b) # NoEvent
    BY <2>1, <2>2, RouteReports
  <2> QED
    BY <2>3 DEF d
<1>2. ErrorEvent # NoEvent
  <2>1. ErrorEvent.type = "Error" /\ NoEvent.type = "none"
    BY DEF ErrorEvent, NoEvent
  <2> QED
    BY <2>1
<1> QED
  BY <1>1, <1>2 DEF RouteWithoutKey
-----------------------------------------------------------------------------
\* The tasks at work, and for one activity: its tasks, events, losses, deliveries.
Busy == {t \in Tasks : task[t].phase # "idle"}
BusyWith(a) == {t \in Busy : task[t].act = a}
SentOf(a) == {j \in DOMAIN sent : sent[j].act = a}
LostOf(a) == {j \in DOMAIN lost : lost[j] = a}
LogOf(a) == {i \in DOMAIN log : log[i] = a}

Reported(a) == Route(a, bot) # NoEvent

Total(a) == Cardinality(SentOf(a)) + Cardinality(LostOf(a))
              + Cardinality(BusyWith(a))

Accounted(a) ==
    /\ Total(a) <= Cardinality(LogOf(a))
    /\ Reported(a) => Total(a) = Cardinality(LogOf(a))

\* The conservation law that each step keeps.
CountInv ==
    /\ IsFiniteSet(Busy)
    /\ Len(sent) + Len(lost) + Cardinality(Busy) <= Len(log)
    /\ Len(log) <= MaxDeliveries
    /\ \A a \in Activity : Accounted(a)

DeliveryInv == ActivityInv /\ CountInv

\* One more element, one more index.
LEMMA AppendIndices ==
    ASSUME NEW S, NEW s \in Seq(S), NEW x
    PROVE  /\ Len(s) \in Nat /\ DOMAIN s = 1..Len(s)
           /\ Len(Append(s, x)) = Len(s) + 1
           /\ DOMAIN Append(s, x) = DOMAIN s \cup {Len(s) + 1}
           /\ Len(s) + 1 \notin DOMAIN s
           /\ \A i \in DOMAIN s : Append(s, x)[i] = s[i]
           /\ Append(s, x)[Len(s) + 1] = x
<1>1. s \in Seq(S \cup {x})
  OBVIOUS
<1> QED
  BY <1>1, AppendProperties, LenProperties

\* The index sets are finite, so their sizes are numbers.
LEMMA CountsFinite ==
    ASSUME ActivityInv, IsFiniteSet(Busy), NEW a
    PROVE  /\ Len(log) \in Nat /\ Len(sent) \in Nat /\ Len(lost) \in Nat
           /\ Cardinality(Busy) \in Nat
           /\ IsFiniteSet(SentOf(a)) /\ Cardinality(SentOf(a)) \in Nat
           /\ IsFiniteSet(LostOf(a)) /\ Cardinality(LostOf(a)) \in Nat
           /\ IsFiniteSet(LogOf(a)) /\ Cardinality(LogOf(a)) \in Nat
           /\ IsFiniteSet(BusyWith(a)) /\ Cardinality(BusyWith(a)) \in Nat
<1>1. /\ Len(log) \in Nat /\ Len(sent) \in Nat /\ Len(lost) \in Nat
      /\ DOMAIN log = 1..Len(log) /\ DOMAIN sent = 1..Len(sent)
      /\ DOMAIN lost = 1..Len(lost)
  BY LenProperties DEF ActivityInv, LogOK, SentOK, LostOK
<1>2. /\ IsFiniteSet(DOMAIN log) /\ IsFiniteSet(DOMAIN sent)
      /\ IsFiniteSet(DOMAIN lost)
  BY <1>1, FS_Interval
<1>3. /\ SentOf(a) \in SUBSET DOMAIN sent /\ LogOf(a) \in SUBSET DOMAIN log
      /\ LostOf(a) \in SUBSET DOMAIN lost /\ BusyWith(a) \in SUBSET Busy
  BY DEF SentOf, LogOf, LostOf, BusyWith
<1> QED
  BY <1>1, <1>2, <1>3, FS_Subset, FS_CardinalityType

LEMMA CountInvInit == Init => CountInv
<1> SUFFICES ASSUME Init PROVE CountInv
  OBVIOUS
<1>1. Busy = {} /\ log = <<>> /\ sent = <<>> /\ lost = <<>>
  BY DEF Init, NoAct, Busy
<1>2. /\ \A a : SentOf(a) = {} /\ LostOf(a) = {} /\ LogOf(a) = {} /\ BusyWith(a) = {}
      /\ Len(log) = 0 /\ Len(sent) = 0 /\ Len(lost) = 0
  BY <1>1 DEF SentOf, LostOf, LogOf, BusyWith
<1>3. IsFiniteSet({}) /\ Cardinality({}) = 0
  BY FS_EmptySet
<1>4. ASSUME NEW a PROVE Accounted(a)
  <2>1. /\ Cardinality(SentOf(a)) = 0 /\ Cardinality(LogOf(a)) = 0
        /\ Cardinality(LostOf(a)) = 0 /\ Cardinality(BusyWith(a)) = 0
    BY <1>2, <1>3
  <2> QED
    BY <2>1 DEF Accounted, Total
<1> QED
  BY <1>1, <1>2, <1>3, <1>4, ActivityAssumption DEF CountInv

\* A step that touches neither the log nor the events nor the losses and keeps
\* every task at its activity.
LEMMA CountsKept ==
    ASSUME CountInv, UNCHANGED <<bot, log, sent, lost>>,
           \A t \in Tasks : /\ task'[t].phase # "idle" <=> task[t].phase # "idle"
                            /\ task'[t].act = task[t].act
    PROVE  CountInv'
<1>1. Busy' = Busy /\ \A a : BusyWith(a)' = BusyWith(a)
  BY DEF Busy, BusyWith
<1>2. \A a : /\ SentOf(a)' = SentOf(a) /\ LogOf(a)' = LogOf(a)
             /\ LostOf(a)' = LostOf(a)
  BY DEF SentOf, LogOf, LostOf
<1>3. \A a : Reported(a)' <=> Reported(a)
  BY DEF Reported
<1> QED
  BY <1>1, <1>2, <1>3 DEF CountInv, Accounted, Total

\* A delivery is one more in the log, with one more task at work on it.
LEMMA SpawnCounts ==
    ASSUME DeliveryInv, NEW t \in Tasks, NEW a, Spawn(t, a)
    PROVE  CountInv'
<1>1. /\ t \notin Busy /\ Len(log) < MaxDeliveries
      /\ task' = [task EXCEPT ![t] = [phase |-> "waiting", act |-> a]]
      /\ log' = Append(log, a)
      /\ UNCHANGED <<bot, sent, lost>>
  BY DEF Spawn, Phase, Busy
<1>2. Busy' = Busy \cup {t}
  BY <1>1 DEF Busy, DeliveryInv, ActivityInv, TasksOK
<1>3. ASSUME NEW b
      PROVE  BusyWith(b)' = IF b = a THEN BusyWith(b) \cup {t} ELSE BusyWith(b)
  BY <1>1, <1>2 DEF BusyWith, Busy, DeliveryInv, ActivityInv, TasksOK
<1>4. PICK S : log \in Seq(S)
  BY DEF DeliveryInv, ActivityInv, LogOK
<1>5. /\ Len(log) \in Nat /\ Len(log') = Len(log) + 1
      /\ DOMAIN log' = DOMAIN log \cup {Len(log) + 1} /\ Len(log) + 1 \notin DOMAIN log
      /\ \A i \in DOMAIN log : log'[i] = log[i]
      /\ log'[Len(log) + 1] = a
  BY <1>1, <1>4, AppendIndices
<1>6. ASSUME NEW b
      PROVE  /\ LogOf(b)' = IF b = a THEN LogOf(b) \cup {Len(log) + 1} ELSE LogOf(b)
             /\ Len(log) + 1 \notin LogOf(b)
  BY <1>5 DEF LogOf
<1>7. \A b : /\ SentOf(b)' = SentOf(b) /\ LostOf(b)' = LostOf(b)
             /\ Reported(b)' <=> Reported(b)
  BY <1>1 DEF SentOf, LostOf, Reported
<1>8. /\ IsFiniteSet(Busy') /\ Cardinality(Busy') = Cardinality(Busy) + 1
  BY <1>1, <1>2, FS_AddElement DEF DeliveryInv, CountInv
<1>9. ASSUME NEW b \in Activity PROVE Accounted(b)'
  <2>1. /\ IsFiniteSet(BusyWith(b)) /\ IsFiniteSet(LogOf(b))
        /\ Cardinality(SentOf(b)) \in Nat /\ Cardinality(BusyWith(b)) \in Nat
        /\ Cardinality(LostOf(b)) \in Nat /\ Cardinality(LogOf(b)) \in Nat
    BY CountsFinite DEF DeliveryInv, CountInv
  <2>2. Accounted(b)
    BY DEF DeliveryInv, CountInv
  <2>3. CASE b = a
    <3>1. t \notin BusyWith(b)
      BY <1>1 DEF BusyWith
    <3>2. /\ Cardinality(BusyWith(b)') = Cardinality(BusyWith(b)) + 1
          /\ Cardinality(LogOf(b)') = Cardinality(LogOf(b)) + 1
      BY <1>3, <1>6, <2>1, <2>3, <3>1, FS_AddElement
    <3> QED
      BY <1>7, <2>1, <2>2, <3>2 DEF Accounted, Total
  <2>4. CASE b # a
    BY <1>3, <1>6, <1>7, <2>2, <2>4 DEF Accounted, Total
  <2> QED
    BY <2>3, <2>4
<1>10. /\ Len(sent') + Len(lost') + Cardinality(Busy') <= Len(log')
       /\ Len(log') <= MaxDeliveries
  <2>1. Len(sent) \in Nat /\ Len(lost) \in Nat /\ Cardinality(Busy) \in Nat
    BY CountsFinite DEF DeliveryInv, CountInv
  <2> QED
    BY <1>1, <1>5, <1>8, <2>1, ActivityAssumption DEF DeliveryInv, CountInv
<1> QED
  BY <1>8, <1>9, <1>10 DEF CountInv

\* The end of a task is one less at work, and one event or one loss more unless
\* there was nothing to report.
LEMMA EndCounts ==
    ASSUME DeliveryInv, NEW t \in Tasks, End(t), task[t].phase # "idle",
           UNCHANGED <<bot, log>>,
           \/ UNCHANGED <<sent, lost>> /\ ~Reported(task[t].act)
           \/ /\ \E e : sent' = Append(sent, [act |-> task[t].act, event |-> e])
              /\ lost' = lost
           \/ sent' = sent /\ lost' = Append(lost, task[t].act)
    PROVE  CountInv'
<1> DEFINE a == task[t].act
<1>1. t \in Busy /\ t \in BusyWith(a)
  BY DEF Busy, BusyWith
<1>2. /\ \A s \in Tasks : s # t => task'[s] = task[s]
      /\ task'[t].phase = "idle"
  BY EndStep DEF DeliveryInv
<1>3. Busy' = Busy \ {t}
  BY <1>2 DEF Busy
<1>4. ASSUME NEW b
      PROVE  BusyWith(b)' = IF b = a THEN BusyWith(b) \ {t} ELSE BusyWith(b)
  BY <1>2, <1>3 DEF BusyWith, Busy
<1>5. \A b : LogOf(b)' = LogOf(b) /\ (Reported(b)' <=> Reported(b))
  BY DEF LogOf, Reported
<1>6. /\ IsFiniteSet(Busy) /\ Cardinality(Busy) \in Nat
      /\ Len(sent) \in Nat /\ Len(lost) \in Nat /\ Len(log) \in Nat
  BY CountsFinite DEF DeliveryInv, CountInv
<1>7. IsFiniteSet(Busy') /\ Cardinality(Busy') = Cardinality(Busy) - 1
  BY <1>1, <1>3, <1>6, FS_RemoveElement
<1>8. ASSUME NEW b
      PROVE  /\ IsFiniteSet(SentOf(b)) /\ Cardinality(SentOf(b)) \in Nat
             /\ IsFiniteSet(LostOf(b)) /\ Cardinality(LostOf(b)) \in Nat
             /\ Cardinality(LogOf(b)) \in Nat /\ Cardinality(BusyWith(b)) \in Nat
             /\ b = a => Cardinality(BusyWith(b)') = Cardinality(BusyWith(b)) - 1
             /\ b # a => Cardinality(BusyWith(b)') = Cardinality(BusyWith(b))
  <2>1. /\ IsFiniteSet(SentOf(b)) /\ Cardinality(SentOf(b)) \in Nat
        /\ IsFiniteSet(LostOf(b)) /\ Cardinality(LostOf(b)) \in Nat
        /\ IsFiniteSet(BusyWith(b)) /\ Cardinality(BusyWith(b)) \in Nat
        /\ Cardinality(LogOf(b)) \in Nat
    BY <1>6, CountsFinite DEF DeliveryInv
  <2> QED
    BY <1>1, <1>4, <2>1, FS_RemoveElement
<1>9. \A b \in Activity : Accounted(b)
  BY DEF DeliveryInv, CountInv
<1>10. CASE UNCHANGED <<sent, lost>> /\ ~Reported(a)
  <2>1. \A b : SentOf(b)' = SentOf(b) /\ LostOf(b)' = LostOf(b)
    BY <1>10 DEF SentOf, LostOf
  <2>2. ASSUME NEW b \in Activity PROVE Accounted(b)'
    <3>1. ~Reported(a)
      BY <1>10
    <3> HIDE DEF a
    <3> QED
      BY <1>5, <1>8, <1>9, <2>1, <3>1 DEF Accounted, Total
  <2> QED
    BY <1>6, <1>7, <1>10, <2>2 DEF CountInv, DeliveryInv
<1>11. CASE /\ \E e : sent' = Append(sent, [act |-> a, event |-> e])
            /\ lost' = lost
  <2>1. PICK S : sent \in Seq(S)
    BY DEF DeliveryInv, ActivityInv, SentOK
  <2>2. PICK x : x.act = a /\ sent' = Append(sent, x)
    BY <1>11
  <2>3. /\ Len(sent') = Len(sent) + 1
        /\ DOMAIN sent' = DOMAIN sent \cup {Len(sent) + 1}
        /\ Len(sent) + 1 \notin DOMAIN sent
        /\ \A i \in DOMAIN sent : sent'[i] = sent[i]
        /\ sent'[Len(sent) + 1] = x
    BY <2>1, <2>2, AppendIndices
  <2>4. ASSUME NEW b
        PROVE  /\ SentOf(b)' = IF b = a THEN SentOf(b) \cup {Len(sent) + 1}
                                        ELSE SentOf(b)
               /\ Len(sent) + 1 \notin SentOf(b) /\ LostOf(b)' = LostOf(b)
    BY <1>11, <2>2, <2>3 DEF SentOf, LostOf
  <2>5. ASSUME NEW b \in Activity PROVE Accounted(b)'
    <3>1. CASE b = a
      <4>1. Cardinality(SentOf(b)') = Cardinality(SentOf(b)) + 1
        BY <1>8, <2>4, <3>1, FS_AddElement
      <4> QED
        BY <1>5, <1>8, <1>9, <2>4, <3>1, <4>1 DEF Accounted, Total
    <3>2. CASE b # a
      BY <1>5, <1>8, <1>9, <2>4, <3>2 DEF Accounted, Total
    <3> QED
      BY <3>1, <3>2
  <2> QED
    BY <1>6, <1>7, <1>11, <2>3, <2>5 DEF CountInv, DeliveryInv
<1>12. CASE sent' = sent /\ lost' = Append(lost, a)
  <2>1. PICK S : lost \in Seq(S)
    BY DEF DeliveryInv, ActivityInv, LostOK
  <2>2. /\ Len(lost') = Len(lost) + 1
        /\ DOMAIN lost' = DOMAIN lost \cup {Len(lost) + 1}
        /\ Len(lost) + 1 \notin DOMAIN lost
        /\ \A i \in DOMAIN lost : lost'[i] = lost[i]
        /\ lost'[Len(lost) + 1] = a
    BY <1>12, <2>1, AppendIndices
  <2>3. ASSUME NEW b
        PROVE  /\ LostOf(b)' = IF b = a THEN LostOf(b) \cup {Len(lost) + 1}
                                        ELSE LostOf(b)
               /\ Len(lost) + 1 \notin LostOf(b) /\ SentOf(b)' = SentOf(b)
    BY <1>12, <2>2 DEF SentOf, LostOf
  <2>4. ASSUME NEW b \in Activity PROVE Accounted(b)'
    <3>1. CASE b = a
      <4>1. Cardinality(LostOf(b)') = Cardinality(LostOf(b)) + 1
        BY <1>8, <2>3, <3>1, FS_AddElement
      <4> QED
        BY <1>5, <1>8, <1>9, <2>3, <3>1, <4>1 DEF Accounted, Total
    <3>2. CASE b # a
      BY <1>5, <1>8, <1>9, <2>3, <3>2 DEF Accounted, Total
    <3> QED
      BY <3>1, <3>2
  <2> QED
    BY <1>6, <1>7, <1>12, <2>2, <2>4 DEF CountInv, DeliveryInv
<1> QED
  BY <1>10, <1>11, <1>12

LEMMA LoseCounts ==
    ASSUME DeliveryInv, NEW t \in Tasks, Lose(t), task[t].phase # "idle"
    PROVE  CountInv'
<1>1. /\ End(t) /\ UNCHANGED <<bot, log>> /\ sent' = sent
      /\ lost' = Append(lost, task[t].act)
  BY DEF Lose, Act
<1> QED
  BY <1>1, EndCounts

\* A task that has its event keeps its activity until the event is sent.
LEMMA FinishCounts ==
    ASSUME DeliveryInv, NEW t \in Tasks, NEW e, Finish(t, e),
           task[t].phase # "idle",
           e = NoEvent => ~Reported(task[t].act)
    PROVE  CountInv'
<1>1. UNCHANGED <<bot, log, sent, lost>>
  BY DEF Finish, history
<1>2. CASE e = NoEvent
  <2>1. End(t)
    BY <1>2 DEF Finish
  <2> QED
    BY <1>1, <1>2, <2>1, EndCounts
<1>3. CASE e # NoEvent
  <2> DEFINE x == [phase |-> "sending", act |-> task[t].act, event |-> e]
  <2>1. task' = [task EXCEPT ![t] = x]
    BY <1>3 DEF Finish, Act
  <2>2. x.phase = "sending" /\ x.act = task[t].act
    OBVIOUS
  <2> HIDE DEF x
  <2>3. task'[t] = x /\ \A s \in Tasks : s # t => task'[s] = task[s]
    BY <2>1 DEF DeliveryInv, ActivityInv, TasksOK
  <2> QED
    BY <1>1, <2>2, <2>3, CountsKept DEF DeliveryInv
<1> QED
  BY <1>2, <1>3

\* The same for a task that has its key, or needs none.
LEMMA ProcessCounts ==
    ASSUME DeliveryInv, NEW t \in Tasks, NEW k, Process(t, k),
           task[t].phase # "idle"
    PROVE  CountInv'
<1> DEFINE e == Route(DecryptActivity(task[t].act, k), bot)
<1>1. Lose(t) \/ Finish(t, e)
  BY DEF Process, Act
<1>2. task[t].act \in Activity
  BY DEF DeliveryInv, ActivityInv, TasksOK, Finalized
<1>3. Reported(task[t].act) => e # NoEvent
  BY <1>2, ReportedAnyway DEF Reported
<1> HIDE DEF e
<1> QED
  BY <1>1, <1>3, LoseCounts, FinishCounts

LEMMA CountInvNext == DeliveryInv /\ [Next]_vars => CountInv'
<1> SUFFICES ASSUME DeliveryInv, [Next]_vars PROVE CountInv'
  OBVIOUS
<1> USE DEF Phase
<1>1. ASSUME NEW t \in Tasks, NEW body \in Bodies, Deliver(t, body)
      PROVE  CountInv'
  BY <1>1, SpawnCounts DEF Deliver
<1>2. ASSUME NEW t \in Tasks, NEW k \in DOMAIN log, Redeliver(t, k)
      PROVE  CountInv'
  BY <1>2, SpawnCounts DEF Redeliver
<1>3. ASSUME NEW t \in Tasks, Enter(t) \/ AskKey(t) PROVE CountInv'
  <2>1. PICK p \in {"routing", "asking"} :
          /\ task' = [task EXCEPT ![t].phase = p]
          /\ UNCHANGED <<bot, log, sent, lost>>
    BY <1>3 DEF Enter, AskKey, history
  <2>2. task[t].phase \in Early
    BY <1>3 DEF Enter, AskKey, Early
  <2>3. /\ \A s \in Tasks : s # t => task'[s] = task[s]
        /\ task'[t].act = task[t].act /\ task'[t].phase = p
    BY <2>1, <2>2, PhaseStep DEF DeliveryInv, TaskMoved
  <2> QED
    BY <2>1, <2>2, <2>3, CountsKept DEF DeliveryInv, Early
<1>4. ASSUME NEW t \in Tasks, RoutePlain(t) \/ KeyCached(t) \/ KeyArrives(t)
      PROVE  CountInv'
  <2>1. task[t].phase # "idle"
    BY <1>4 DEF RoutePlain, KeyCached, KeyArrives
  <2>2. \E k : Process(t, k)
    BY <1>4 DEF RoutePlain, KeyCached, KeyArrives
  <2> QED
    BY <2>1, <2>2, ProcessCounts
<1>5. ASSUME NEW t \in Tasks, NoClient(t) \/ KeyPanics(t) \/ SendFails(t)
      PROVE  CountInv'
  BY <1>5, LoseCounts DEF NoClient, KeyPanics, SendFails
<1>6. ASSUME NEW t \in Tasks, KeyRefused(t) \/ KeyFails(t) PROVE CountInv'
  <2>1. /\ task[t].phase # "idle"
        /\ Finish(t, RouteWithoutKey(task[t].act, bot))
    BY <1>6 DEF KeyRefused, KeyFails, Act
  <2>2. task[t].act \in Activity
    BY <2>1 DEF DeliveryInv, ActivityInv, TasksOK, Finalized
  <2>3. RouteWithoutKey(task[t].act, bot) = NoEvent => ~Reported(task[t].act)
    BY <2>2, ReportedAnyway DEF Reported
  <2> QED
    BY <2>1, <2>3, FinishCounts
<1>7. ASSUME NEW t \in Tasks, Send(t) PROVE CountInv'
  <2>1. /\ task[t].phase # "idle" /\ End(t) /\ UNCHANGED <<bot, log>> /\ lost' = lost
        /\ sent' = Append(sent, [act |-> task[t].act, event |-> task[t].event])
    BY <1>7 DEF Send, Act
  <2> QED
    BY <2>1, EndCounts
<1>8. CASE StoreClient \/ DropClient \/ AppReceives \/ AppLeaves \/ UNCHANGED vars
  <2>1. UNCHANGED <<bot, task, log, sent, lost>>
    BY <1>8 DEF StoreClient, DropClient, SetClient, AppReceives, AppLeaves, vars, history
  <2> QED
    BY <2>1, CountsKept DEF DeliveryInv
<1> QED
  BY <1>1, <1>2, <1>3, <1>4, <1>5, <1>6, <1>7, <1>8 DEF Next, Work

LEMMA DeliveryInvariant == Spec => []DeliveryInv
<1>1. Init => DeliveryInv
  BY ActivityInvInit, CountInvInit DEF DeliveryInv
<1>2. DeliveryInv /\ [Next]_vars => DeliveryInv'
  BY ActivityInvNext, CountInvNext DEF DeliveryInv
<1> QED
  BY <1>1, <1>2, PTL DEF Spec

\* Of every activity to be reported, the events sent, the tasks at work and the
\* tasks that had no client, no receiver or a panic account for all its deliveries,
\* for any number of tasks, any activities and any failures of their keys.
THEOREM NothingLost == Spec => []NoneLost
<1>1. DeliveryInv => NoneLost
  <2> SUFFICES ASSUME DeliveryInv, NEW k \in DOMAIN log, Reported(log[k])
               PROVE  Cardinality(SentOf(log[k])) + Cardinality(LostOf(log[k]))
                        + Cardinality(BusyWith(log[k]))
                      = Cardinality(LogOf(log[k]))
    <3>1. \A a : {t \in Tasks : ~Phase(t, "idle") /\ Act(t) = a} = BusyWith(a)
      BY DEF BusyWith, Busy, Phase, Act
    <3> QED
      BY <3>1 DEF NoneLost, Reported, SentOf, LostOf, LogOf
  <2>1. log[k] \in Activity
    BY DEF DeliveryInv, ActivityInv, LogOK, Finalized
  <2> QED
    BY <2>1 DEF DeliveryInv, CountInv, Accounted, Total
<1> QED
  BY <1>1, DeliveryInvariant, PTL
-----------------------------------------------------------------------------
\* The key's URL of an activity that needs one.
LEMMA NeedsItsUrl ==
    ASSUME NEW a \in Activity, NeedsKey(a)
    PROVE  EncryptionKeyUrl(a) \in Uris
  BY DEF NeedsKey, EncryptionKeyUrl, Activity

\* What TypeOK adds.
Typed ==
    /\ bot \in {Bot, NoPerson}
    /\ client \in {"some", "none"}
    /\ lock \in Tasks \cup {NoTask}
    /\ asked \in [Tasks -> Uris \cup {NoUri}]
    /\ app \in {"receiving", "gone"} /\ outbox \in 0..Capacity

LEMMA TypedNext == ActivityInv /\ Typed /\ [Next]_vars => Typed'
<1> SUFFICES ASSUME ActivityInv, Typed, [Next]_vars PROVE Typed'
  OBVIOUS
<1> USE DEF Typed
<1>1. ASSUME NEW t \in Tasks, NEW a, Spawn(t, a) PROVE Typed'
  BY <1>1 DEF Spawn, service, channel
<1>2. ASSUME NEW t \in Tasks, Work(t) PROVE Typed'
  <2>1. CASE Enter(t)
    BY <2>1 DEF Enter, service, channel
  <2>2. CASE AskKey(t)
    <3>1. task[t].act \in Activity /\ NeedsKey(task[t].act)
      BY <2>2 DEF AskKey, Act, Phase, ActivityInv, TasksOK, Finalized
    <3> QED
      BY <2>2, <3>1, NeedsItsUrl DEF AskKey, Act, Url, KS!Ask, channel
  <2>3. CASE \/ NoClient(t) \/ RoutePlain(t) \/ KeyCached(t) \/ KeyRefused(t)
             \/ KeyArrives(t) \/ KeyFails(t) \/ KeyPanics(t) \/ SendFails(t)
    <3>1. asked' \in [Tasks -> Uris \cup {NoUri}]
      BY <2>3 DEF NoClient, RoutePlain, KeyCached, KeyRefused, KeyArrives, KeyFails,
         KeyPanics, SendFails, service, KS!Answer, KS!Fail
    <3>2. /\ lock' \in {lock, NoTask}
          /\ UNCHANGED <<bot, client, app, outbox>>
      BY <2>3 DEF NoClient, RoutePlain, KeyCached, KeyRefused, KeyArrives, KeyFails,
         KeyPanics, SendFails, Process, Finish, Lose, End, channel
    <3> QED
      BY <3>1, <3>2
  <2>4. CASE Send(t)
    <3>1. /\ outbox < Capacity /\ outbox' = outbox + 1 /\ lock' = NoTask
          /\ UNCHANGED <<bot, client, asked, app>>
      BY <2>4 DEF Send, End, service
    <3>2. outbox + 1 \in 0..Capacity
      BY <3>1, ActivityAssumption
    <3> QED
      BY <3>1, <3>2
  <2> QED
    BY <1>2, <2>1, <2>2, <2>3, <2>4 DEF Work
<1>3. CASE StoreClient \/ DropClient
  BY <1>3 DEF StoreClient, DropClient, SetClient, channel
<1>4. CASE AppReceives \/ AppLeaves
  <2>1. /\ outbox' = 0 \/ (outbox > 0 /\ outbox' = outbox - 1)
        /\ app' \in {app, "gone"}
        /\ UNCHANGED <<bot, client, lock, asked>>
    BY <1>4 DEF AppReceives, AppLeaves, service
  <2>2. outbox' \in 0..Capacity
    BY <2>1, ActivityAssumption
  <2> QED
    BY <2>1, <2>2
<1>5. CASE UNCHANGED vars
  BY <1>5 DEF vars
<1> QED
  BY <1>1, <1>2, <1>3, <1>4, <1>5 DEF Next, Deliver, Redeliver

\* The variables keep their types, the channel its capacity, and never more events
\* are sent than activities were delivered.
THEOREM ActivityTypeCorrect == Spec => []TypeOK
<1>1. Init => Typed
  BY ActivityAssumption DEF Init, Typed, KS!Init
<1>2. DeliveryInv /\ Typed => TypeOK
  <2> SUFFICES ASSUME DeliveryInv, Typed PROVE TypeOK
    OBVIOUS
  <2>1. \A t \in Tasks :
          /\ task[t].phase \in {"idle", "waiting", "routing", "asking", "sending"}
          /\ task[t].phase # "idle" => task[t].act \in Activity
    BY DEF DeliveryInv, ActivityInv, TasksOK, Finalized, Early
  <2>2. keys \in [Uris -> Uris \cup {NoUri}]
    BY DEF DeliveryInv, ActivityInv, ServiceOK
  <2>3. \A k \in DOMAIN log : log[k] \in Activity
    BY DEF DeliveryInv, ActivityInv, LogOK, Finalized
  <2>4. Len(log) <= MaxDeliveries /\ Len(sent) + Len(lost) <= Len(log)
    <3>1. /\ Len(log) \in Nat /\ Len(sent) \in Nat /\ Len(lost) \in Nat
          /\ Cardinality(Busy) \in Nat
      BY CountsFinite DEF DeliveryInv, CountInv
    <3> QED
      BY <3>1 DEF DeliveryInv, CountInv
  <2> QED
    BY <2>1, <2>2, <2>3, <2>4 DEF TypeOK, Typed
<1>3. Spec => []Typed
  BY <1>1, TypedNext, ActivityInvariant, PTL DEF Spec
<1> QED
  BY <1>2, <1>3, DeliveryInvariant, PTL
-----------------------------------------------------------------------------
\* A task at work holds the mutex and nobody else does, a client is there, a
\* question is that of a waiting task, and the key it waits for can still be kept.
MutexOK ==
    /\ \A t \in Tasks : /\ Working(t) => lock = t
                        /\ task[t].phase = "asking" <=> asked[t] # NoUri
    /\ lock # NoTask => lock \in Tasks /\ Working(lock) /\ client = "some"
HeldOK ==
    /\ IsFiniteSet(KS!Held)
    /\ (\E t \in Tasks : asked[t] # NoUri) => Cardinality(KS!Held) <= Limit

\* The size of a set is the same in the abstract module's instance.
LEMMA ServiceCardinality == \A S : KS!Cardinality(S) = Cardinality(S)
  BY DEF KS!Cardinality, Cardinality

LEMMA MutexNext ==
    ASSUME ActivityInv, MutexOK, [Next]_vars
    PROVE  MutexOK'
<1> USE DEF Phase
<1>1. ASSUME NEW t \in Tasks, NEW a, Spawn(t, a) PROVE MutexOK'
  <2>1. /\ task[t].phase = "idle" /\ UNCHANGED <<lock, client, asked>>
        /\ task' = [task EXCEPT ![t] = [phase |-> "waiting", act |-> a]]
    BY <1>1 DEF Spawn, service
  <2>2. /\ task'[t].phase = "waiting"
        /\ \A s \in Tasks : s # t => task'[s] = task[s]
    BY <2>1 DEF ActivityInv, TasksOK
  <2> QED
    BY <2>1, <2>2 DEF MutexOK, Working
<1>2. ASSUME NEW t \in Tasks, Enter(t) \/ AskKey(t) PROVE MutexOK'
  <2>1. PICK p \in {"routing", "asking"} :
          /\ task' = [task EXCEPT ![t].phase = p]
          /\ UNCHANGED <<bot, log, sent, lost>>
          /\ Enter(t) => p = "routing"
          /\ AskKey(t) => p = "asking"
    <3>1. ~(Enter(t) /\ AskKey(t))
      BY DEF Enter, AskKey
    <3> QED
      BY <1>2, <3>1 DEF Enter, AskKey, history
  <2>2. task[t].phase \in Early
    BY <1>2 DEF Enter, AskKey, Early
  <2>3. /\ task'[t].phase = p
        /\ \A s \in Tasks : s # t => task'[s] = task[s]
    BY <2>1, <2>2, PhaseStep DEF TaskMoved
  <2>4. CASE Enter(t)
    <3>1. /\ task[t].phase = "waiting" /\ lock = NoTask /\ lock' = t
          /\ client = "some" /\ client' = client /\ asked' = asked
      BY <2>4 DEF Enter, service
    <3>2. task'[t].phase = "routing"
      BY <2>1, <2>3, <2>4
    <3> QED
      BY <2>3, <3>1, <3>2, ActivityAssumption DEF MutexOK, Working
  <2>5. CASE AskKey(t)
    <3>1. /\ task[t].phase = "routing" /\ UNCHANGED <<lock, client>>
          /\ asked' = [asked EXCEPT ![t] = EncryptionKeyUrl(task[t].act)]
      BY <2>5 DEF AskKey, KS!Ask, Url, Act
    <3>2. task'[t].phase = "asking"
      BY <2>1, <2>3, <2>5
    <3>3. EncryptionKeyUrl(task[t].act) # NoUri
      BY <2>5 DEF AskKey, NeedsKey, Act
    <3> QED
      BY <2>3, <3>1, <3>2, <3>3 DEF MutexOK, Working, ActivityInv, ServiceOK
  <2> QED
    BY <1>2, <2>4, <2>5
<1>3. ASSUME NEW t \in Tasks,
             \/ RoutePlain(t) \/ KeyCached(t) \/ KeyRefused(t)
             \/ KeyArrives(t) \/ KeyFails(t) \/ KeyPanics(t)
             \/ Send(t) \/ SendFails(t)
      PROVE  MutexOK'
  <2>1. Working(t) /\ lock = t /\ client' = client
    BY <1>3 DEF MutexOK, Working, RoutePlain, KeyCached, KeyRefused, KeyArrives,
       KeyFails, KeyPanics, Send, SendFails, Process, Finish, Lose
  <2>2. /\ \A s \in Tasks : s # t => task'[s] = task[s]
        /\ \/ task'[t].phase = "idle" /\ lock' = NoTask
           \/ task'[t].phase = "sending" /\ lock' = lock
    <3>1. \/ task' = [task EXCEPT ![t] = NoAct] /\ lock' = NoTask
          \/ /\ \E e : task' = [task EXCEPT ![t] =
                          [phase |-> "sending", act |-> task[t].act, event |-> e]]
             /\ lock' = lock
      BY <1>3 DEF RoutePlain, KeyCached, KeyRefused, KeyArrives, KeyFails, KeyPanics,
         Send, SendFails, Process, Finish, Lose, End, Act
    <3> QED
      BY <3>1 DEF NoAct, ActivityInv, TasksOK
  <2>3. /\ task[t].phase = "asking" => asked' = [asked EXCEPT ![t] = NoUri]
        /\ task[t].phase # "asking" => asked' = asked
    BY <1>3 DEF RoutePlain, KeyCached, KeyRefused, KeyArrives, KeyFails, KeyPanics,
       Send, SendFails, service, KS!Answer, KS!Fail
  <2>4. /\ asked'[t] = NoUri
        /\ \A s \in Tasks : s # t => asked'[s] = asked[s]
    BY <2>3 DEF MutexOK, ActivityInv, ServiceOK
  <2>5. \A s \in Tasks : s # t => ~Working(s)
    BY <2>1 DEF MutexOK
  <2> QED
    BY <2>1, <2>2, <2>4, <2>5 DEF MutexOK, Working
<1>4. ASSUME NEW t \in Tasks, NoClient(t) PROVE MutexOK'
  <2>1. /\ task[t].phase = "waiting" /\ lock = NoTask /\ lock' = NoTask
        /\ End(t) /\ UNCHANGED <<bot, client, asked>>
    BY <1>4 DEF NoClient, Lose, End, service
  <2>2. /\ task'[t].phase = "idle"
        /\ \A s \in Tasks : s # t => task'[s] = task[s]
    BY <2>1, EndStep
  <2> QED
    BY <2>1, <2>2 DEF MutexOK, Working
<1>5. CASE StoreClient \/ DropClient
  <2>1. lock = NoTask /\ UNCHANGED <<lock, task, asked>>
    BY <1>5 DEF StoreClient, DropClient, SetClient
  <2> QED
    BY <2>1 DEF MutexOK, Working
<1>6. CASE AppReceives \/ AppLeaves \/ UNCHANGED vars
  <2>1. UNCHANGED <<lock, client, task, asked>>
    BY <1>6 DEF AppReceives, AppLeaves, vars, service
  <2> QED
    BY <2>1 DEF MutexOK, Working
<1> QED
  BY <1>1, <1>2, <1>3, <1>4, <1>5, <1>6 DEF Next, Work, Deliver, Redeliver

LEMMA MutexInit == Init => MutexOK
<1> SUFFICES ASSUME Init PROVE MutexOK
  OBVIOUS
<1>1. /\ \A t \in Tasks : task[t].phase = "idle" /\ asked[t] = NoUri
      /\ lock = NoTask
  BY DEF Init, NoAct, KS!Init
<1> QED
  BY <1>1 DEF MutexOK, Working

\* Only the holder of the mutex is at work on the client, which stays while it is,
\* and every task that ended has given the mutex back, for any number of tasks.
THEOREM WorkersKeepClient == Spec => []WorkersHoldClient
<1>1. MutexOK => WorkersHoldClient
  <2> SUFFICES ASSUME MutexOK PROVE WorkersHoldClient
    OBVIOUS
  <2>1. ASSUME NEW t \in Tasks, Working(t) PROVE lock = t /\ client = "some"
    BY <2>1, ActivityAssumption DEF MutexOK
  <2> QED
    BY <2>1 DEF MutexOK, WorkersHoldClient
<1> QED
  BY <1>1, MutexInit, MutexNext, ActivityInvariant, PTL DEF Spec

LEMMA HeldNext ==
    ASSUME ActivityInv, MutexOK, HeldOK, [Next]_vars
    PROVE  HeldOK'
<1> USE DEF Phase
<1>1. Cardinality(KS!Held) \in Nat /\ Limit \in Nat
  BY FS_CardinalityType, ActivityAssumption DEF HeldOK
<1>2. CASE UNCHANGED <<asked, keys>>
  BY <1>2 DEF HeldOK, KS!Held
<1>3. ASSUME NEW t \in Tasks, AskKey(t) PROVE HeldOK'
  <2>1. keys' = IF Cardinality(KS!Held) > Limit THEN [u \in Uris |-> NoUri] ELSE keys
    BY <1>3, ServiceCardinality DEF AskKey, KS!Ask, KS!NoKeys
  <2>2. CASE Cardinality(KS!Held) > Limit
    <3>1. KS!Held' = {}
      BY <2>1, <2>2 DEF KS!Held
    <3>2. IsFiniteSet(KS!Held') /\ Cardinality(KS!Held') = 0
      BY <3>1, FS_EmptySet
    <3> QED
      BY <1>1, <3>2 DEF HeldOK
  <2>3. CASE ~(Cardinality(KS!Held) > Limit)
    <3>1. KS!Held' = KS!Held
      BY <2>1, <2>3 DEF KS!Held
    <3> QED
      BY <1>1, <2>3, <3>1 DEF HeldOK
  <2> QED
    BY <2>2, <2>3
<1>4. CASE asked' = asked /\ keys' = [u \in Uris |-> NoUri]
  <2>1. KS!Held' = {}
    BY <1>4 DEF KS!Held
  <2>2. IsFiniteSet(KS!Held') /\ Cardinality(KS!Held') = 0
    BY <2>1, FS_EmptySet
  <2> QED
    BY <1>1, <2>2 DEF HeldOK
<1>5. ASSUME NEW t \in Tasks, KeyRefused(t) PROVE HeldOK'
  <2>1. asked' = asked /\ (keys' = keys \/ keys' = [u \in Uris |-> NoUri])
    BY <1>5 DEF KeyRefused, KS!TurnAway, KS!NoKeys
  <2> QED
    BY <1>2, <1>4, <2>1
<1>6. ASSUME NEW t \in Tasks, KeyArrives(t) \/ KeyFails(t) \/ KeyPanics(t)
      PROVE  HeldOK'
  <2>1. /\ task[t].phase = "asking" /\ asked' = [asked EXCEPT ![t] = NoUri]
        /\ keys' = keys \/ keys' = [keys EXCEPT ![asked[t]] = asked[t]]
    BY <1>6 DEF KeyArrives, KeyFails, KeyPanics, KS!Answer, KS!Fail
  <2>2. \A s \in Tasks : asked'[s] = NoUri
    <3>1. lock = t
      BY <2>1 DEF MutexOK, Working
    <3>2. \A s \in Tasks : s # t => asked[s] = NoUri
      BY <3>1 DEF MutexOK, Working
    <3> QED
      BY <2>1, <3>2 DEF ActivityInv, ServiceOK
  <2>3. KS!Held' \subseteq KS!Held \cup {asked[t]}
    BY <2>1 DEF KS!Held, ActivityInv, ServiceOK
  <2>4. IsFiniteSet(KS!Held \cup {asked[t]})
    BY FS_AddElement DEF HeldOK
  <2>5. IsFiniteSet(KS!Held')
    BY <2>3, <2>4, FS_Subset
  <2> QED
    BY <2>2, <2>5 DEF HeldOK
<1>7. ASSUME NEW t \in Tasks, NEW a, Spawn(t, a) PROVE HeldOK'
  BY <1>2, <1>7 DEF Spawn, service
<1>8. ASSUME NEW t \in Tasks,
             \/ Enter(t) \/ NoClient(t) \/ RoutePlain(t) \/ KeyCached(t)
             \/ Send(t) \/ SendFails(t)
      PROVE  HeldOK'
  BY <1>2, <1>8 DEF Enter, NoClient, RoutePlain, KeyCached, Send, SendFails, service
<1>9. CASE StoreClient \/ DropClient
  BY <1>4, <1>9 DEF StoreClient, DropClient, SetClient, KS!NoKeys
<1>10. CASE AppReceives \/ AppLeaves \/ UNCHANGED vars
  BY <1>2, <1>10 DEF AppReceives, AppLeaves, vars, service
<1> QED
  BY <1>3, <1>5, <1>6, <1>7, <1>8, <1>9, <1>10 DEF Next, Work, Deliver, Redeliver

\* A task that comes to ask for a key finds nobody else asking, and the key a task
\* waits for can still be kept, for any number of tasks and any limit: the tasks
\* of the handler meet what KeyService asks of its callers, so that the client's
\* refinement of it (ClientServesKeys) serves them.
THEOREM TasksKeepServiceReady == Spec => []ServiceReady
<1>1. Init => HeldOK
  <2> SUFFICES ASSUME Init PROVE HeldOK
    OBVIOUS
  <2>1. /\ \A t \in Tasks : asked[t] = NoUri
        /\ KS!Held = {}
    BY DEF Init, KS!Init, KS!NoKeys, KS!Held
  <2> QED
    BY <2>1, FS_EmptySet DEF HeldOK
<1>2. ActivityInv /\ MutexOK /\ HeldOK /\ [Next]_vars => MutexOK' /\ HeldOK'
  BY MutexNext, HeldNext
<1>3. MutexOK /\ HeldOK => ServiceReady
  BY DEF MutexOK, Working, HeldOK, ServiceReady, Phase
<1> QED
  BY <1>1, <1>2, <1>3, MutexInit, ActivityInvariant, PTL DEF Spec
=============================================================================
