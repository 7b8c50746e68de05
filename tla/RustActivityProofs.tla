------------------------- MODULE RustActivityProofs -------------------------
(***************************************************************************)
(* What the application is shown, for any activities that Mercury may      *)
(* deliver and any number of tasks, persons and keys.                      *)
(***************************************************************************)
EXTENDS RustMentionsProofs

\* Appending to a sequence of anything.
LEMMA AppendFacts ==
    ASSUME NEW S, NEW s \in Seq(S), NEW x
    PROVE  /\ Append(s, x) \in Seq(S \cup {x})
           /\ \A k \in DOMAIN Append(s, x) :
                 (k \in DOMAIN s /\ Append(s, x)[k] = s[k]) \/ Append(s, x)[k] = x
<1>1. s \in Seq(S \cup {x})
  OBVIOUS
<1> QED
  BY <1>1, AppendProperties
-----------------------------------------------------------------------------
\* Lemmas about the routing.

\* An activity as finalize_inputs leaves it.
Finalized(a) ==
    /\ a \in Activity
    /\ a.inputs.kind # "jwe"
    /\ a.inputs.kind = "plain" => a.inputs_encrypted.kind # "jwe"

LEMMA AbsentKind == Absent \in Field /\ Absent.kind = "none"
<1>1. <<>> \in Seq(Tag)
  OBVIOUS
<1> QED
  BY <1>1 DEF Absent, Field, Algs, Shapes

LEMMA FinalizeInputsFinalizes ==
    ASSUME NEW a \in Activity, a.inputs_encrypted = Absent
    PROVE  Finalized(FinalizeInputs(a))
<1>1. Absent \in Field /\ Absent.kind = "none"
  BY AbsentKind
<1>2. CASE a.inputs.kind = "jwe"
  <2> DEFINE b == [a EXCEPT !.inputs_encrypted = a.inputs, !.inputs = Absent]
  <2>1. b \in Activity /\ b.inputs = Absent
    BY <1>1 DEF Activity
  <2>2. FinalizeInputs(a) = b
    BY <1>2 DEF FinalizeInputs
  <2> HIDE DEF b
  <2> QED
    BY <1>1, <2>1, <2>2 DEF Finalized
<1>3. CASE a.inputs.kind # "jwe"
  BY <1>1, <1>3 DEF FinalizeInputs, Finalized
<1> QED
  BY <1>2, <1>3

\* What a JWE opens to was sealed with the key that opened it.
LEMMA OpensWithItsKey ==
    ASSUME NEW f, NEW k, DecryptMessageJwe(f, k) = "ok"
    PROVE  f.kind = "jwe" /\ f.key = k
  BY DEF DecryptMessageJwe

\* Nothing is mentioned in a body that is not there.
LEMMA AbsentMentions == ParseMentions(Absent) = NoMentions
<1>1. Len(<<>>) = 0
  OBVIOUS
<1>2. PICK g : Loop(<<>>, 0, g) /\ Mentions(<<>>) = g[0]
  BY <1>1, MentionsLoop
<1>3. Mentions(<<>>) = Start
  BY <1>2 DEF Loop
<1> QED
  BY <1>3 DEF ParseMentions, Absent, NoMentions, Start

\* The fields of a message event.
LEMMA MessageFields ==
    ASSUME NEW type, NEW a, NEW x, NEW h, NEW m, NEW r
    PROVE  LET e == [Event(type, a) EXCEPT !.text = x, !.html = h,
                                           !.mentions = m, !.room = r]
           IN  /\ e.actor = a.actor /\ e.inputs = Absent /\ e.text = x
               /\ e.html = h /\ e.mentions = m
<1> DEFINE f == Event(type, a)
<1>1. /\ f.actor = a.actor /\ f.inputs = Absent
      /\ DOMAIN f = {"type", "actor", "text", "html", "inputs", "mentions", "room"}
  BY DEF Event, NoEvent
<1> HIDE DEF f
<1>2. LET e == [f EXCEPT !.text = x, !.html = h, !.mentions = m, !.room = r]
      IN  /\ e.actor = a.actor /\ e.inputs = Absent /\ e.text = x
          /\ e.html = h /\ e.mentions = m
  BY <1>1
<1> QED
  BY <1>2 DEF f

\* The event that Route makes of an activity.
LEMMA RouteEvent ==
    ASSUME NEW a, NEW b
    PROVE  LET e == Route(a, b)
           IN  /\ IsMessageEvent(e) =>
                    /\ e.actor = a.actor
                    /\ ~(b # NoPerson /\ a.actor.person = b)
               /\ e.inputs \in {a.inputs, Absent}
               /\ e.text \in {a.displayName, Absent}
               /\ e.html \in {a.content, Absent}
               /\ e.mentions = ParseMentions(e.html)
<1> DEFINE e == Route(a, b)
<1>0. /\ NoEvent.type = "none" /\ NoEvent.inputs = Absent
      /\ NoEvent.text = Absent /\ NoEvent.html = Absent
      /\ NoEvent.mentions = ParseMentions(Absent)
  BY AbsentMentions DEF NoEvent
<1>1. ASSUME NEW type
      PROVE  /\ Event(type, a).type = type /\ Event(type, a).actor = a.actor
             /\ Event(type, a).inputs = Absent /\ Event(type, a).text = Absent
             /\ Event(type, a).html = Absent
             /\ Event(type, a).mentions = ParseMentions(Absent)
  BY AbsentMentions DEF Event, NoEvent
<1>2. CASE IsMessage(a)
  <2>1. e = RouteMessage(a, b)
    BY <1>2 DEF Route, IsMessage, IsDelete, IsMembership, IsCardAction, IsRoom
  <2>2. /\ MessageEvent(a).actor = a.actor /\ MessageEvent(a).inputs = Absent
        /\ MessageEvent(a).text = a.displayName
        /\ MessageEvent(a).html = a.content
        /\ MessageEvent(a).mentions = ParseMentions(a.content)
    BY MessageFields DEF MessageEvent
  <2> QED
    BY <1>0, <2>1, <2>2 DEF RouteMessage, ExtractPersonUuid, IsMessageEvent
<1>3. CASE ~IsMessage(a)
  <2>1. /\ e.type \notin {"MessageCreated", "MessageUpdated"}
        /\ e.inputs \in {a.inputs, Absent} /\ e.text = Absent
        /\ e.html = Absent /\ e.mentions = ParseMentions(Absent)
    <3>1. CASE IsDelete(a)
      BY <1>1, <1>3, <3>1 DEF Route, IsDelete, IsMessage
    <3>2. CASE IsMembership(a)
      <4>1. e = [Event("MembershipCreated", a) EXCEPT !.room = InferRoomType(a)]
        BY <1>3, <3>2 DEF Route, IsDelete, IsMembership, IsCardAction, IsRoom
      <4> QED
        BY <4>1, AbsentMentions DEF Event, NoEvent
    <3>3. CASE IsCardAction(a)
      <4>1. e = [Event("AttachmentActionCreated", a) EXCEPT !.inputs = a.inputs]
        BY <1>3, <3>3 DEF Route, IsDelete, IsMembership, IsCardAction, IsRoom
      <4> QED
        BY <4>1, AbsentMentions DEF Event, NoEvent
    <3>4. CASE IsRoom(a) /\ ~IsDelete(a) /\ ~IsMembership(a) /\ ~IsCardAction(a)
      <4>1. e = Event(IF a.verb = "create" THEN "RoomCreated"
                                           ELSE "RoomUpdated", a)
        BY <1>3, <3>4 DEF Route
      <4> QED
        BY <1>1, <4>1
    <3>5. CASE /\ ~IsRoom(a) /\ ~IsDelete(a)
               /\ ~IsMembership(a) /\ ~IsCardAction(a)
      <4>1. e = NoEvent
        BY <1>3, <3>5 DEF Route
      <4> QED
        BY <1>0, <4>1
    <3> QED
      BY <3>1, <3>2, <3>3, <3>4, <3>5
  <2> QED
    BY <2>1 DEF IsMessageEvent
<1> QED
  BY <1>2, <1>3

\* What may be sent for the activity a while the bot is b: no message of the bot,
\* no ciphertext as inputs, nothing opened with another key than a's own, and the
\* mentions that parse_mentions finds in its body.
Fit(a, e, b) ==
    /\ (b # NoPerson /\ IsMessageEvent(e)) => e.actor.person # b
    /\ e.inputs.kind # "jwe"
    /\ (e.text.kind = "plain" /\ a.displayName.kind = "jwe")
         => a.displayName.key = EncryptionKeyUrl(a)
    /\ (e.html.kind = "plain" /\ a.content.kind = "jwe")
         => a.content.key = EncryptionKeyUrl(a)
    /\ (e.inputs.kind = "plain" /\ a.inputs_encrypted.kind = "jwe")
         => a.inputs_encrypted.key = EncryptionKeyUrl(a)
    /\ e.html \in Field /\ e.mentions = ParseMentions(e.html)

\* Without decryption.
LEMMA RouteFits ==
    ASSUME NEW a, Finalized(a), NEW b
    PROVE  Fit(a, Route(a, b), b)
  BY RouteEvent, AbsentKind DEF Fit, Finalized, Activity

\* Without the key.
LEMMA RouteWithoutKeyFits ==
    ASSUME NEW a, Finalized(a), NEW b
    PROVE  Fit(a, RouteWithoutKey(a, b), b)
<1>1. Fit(a, ErrorEvent, b)
  <2>1. /\ ErrorEvent.type = "Error" /\ ErrorEvent.inputs = Absent
        /\ ErrorEvent.text = Absent /\ ErrorEvent.html = Absent
        /\ ErrorEvent.mentions = ParseMentions(Absent)
    BY AbsentMentions DEF ErrorEvent, NoEvent
  <2> QED
    BY <2>1, AbsentKind DEF Fit, IsMessageEvent
<1> QED
  BY <1>1, RouteFits DEF RouteWithoutKey

\* After the decryption with the key of the activity's own URL.
LEMMA RouteDecryptedFits ==
    ASSUME NEW a, Finalized(a), NEW b, NEW k \in {EncryptionKeyUrl(a), NoUri}
    PROVE  Fit(a, Route(DecryptActivity(a, k), b), b)
<1>1. CASE k = NoUri
  BY <1>1, RouteFits DEF DecryptActivity
<1>2. CASE k # NoUri
  <2> DEFINE d == DecryptActivity(a, k)
             e == Route(d, b)
  <2>1. /\ d.actor = a.actor
        /\ d.displayName = Opened(a.displayName, k)
        /\ d.inputs = OpenedInputs(a, k)
        /\ d.content = Opened(a.content, k)
    BY <1>2 DEF DecryptActivity, Finalized, Activity
  <2> HIDE DEF d
  <2>2. /\ IsMessageEvent(e) =>
             /\ e.actor = d.actor
             /\ ~(b # NoPerson /\ d.actor.person = b)
        /\ e.inputs \in {d.inputs, Absent}
        /\ e.text \in {d.displayName, Absent}
        /\ e.html \in {d.content, Absent}
        /\ e.mentions = ParseMentions(e.html)
    BY RouteEvent
  <2> HIDE DEF e
  <2>3. d.inputs.kind # "jwe"
    BY <2>1 DEF OpenedInputs, Finalized, Activity, Field
  <2>4. (d.displayName.kind = "plain" /\ a.displayName.kind = "jwe")
          => a.displayName.key = k
    BY <2>1, OpensWithItsKey DEF Opened
  <2>5. (d.inputs.kind = "plain" /\ a.inputs_encrypted.kind = "jwe")
          => a.inputs_encrypted.key = k
    BY <2>1, OpensWithItsKey DEF OpenedInputs, Finalized
  <2>6. d.content \in Field
    BY <2>1 DEF Opened, Finalized, Activity, Field
  <2>7. (d.content.kind = "plain" /\ a.content.kind = "jwe")
          => a.content.key = k
    BY <2>1, OpensWithItsKey DEF Opened
  <2>8. Fit(a, e, b)
    BY <1>2, <2>1, <2>2, <2>3, <2>4, <2>5, <2>6, <2>7, AbsentKind DEF Fit
  <2> QED
    BY <2>8 DEF e, d
<1> QED
  BY <1>1, <1>2
-----------------------------------------------------------------------------
\* Tasks carry finalized activities, the service keeps every key under its own
\* URI and is asked for the URL of the asking task's activity, and what was sent
\* or is about to be sent fits.
Early == {"waiting", "routing", "asking"}
TasksOK ==
    /\ task = [t \in Tasks |-> task[t]]
    /\ \A t \in Tasks :
         /\ task[t].phase \in Early \cup {"idle", "sending"}
         /\ task[t].phase # "idle" => Finalized(task[t].act)
         /\ task[t].phase \in Early => task[t] \in [phase : Early, act : Activity]
         /\ task[t].phase = "sending" => Fit(task[t].act, task[t].event, bot)
LogOK == /\ \E S : log \in Seq(S)
         /\ \A k \in DOMAIN log : Finalized(log[k])
ServiceOK ==
    /\ keys = [u \in Uris |-> keys[u]]
    /\ \A u \in Uris : keys[u] \in {u, NoUri}
    /\ asked = [t \in Tasks |-> asked[t]]
    /\ \A t \in Tasks :
         task[t].phase = "asking" => asked[t] = EncryptionKeyUrl(task[t].act)
SentOK == /\ \E S : sent \in Seq(S)
          /\ \A k \in DOMAIN sent : Fit(sent[k].act, sent[k].event, bot)
LostOK == \E S : lost \in Seq(S)
ActivityInv == TasksOK /\ LogOK /\ ServiceOK /\ SentOK /\ LostOK

\* What a step of task t keeps, the service apart.
TaskMoved(t) ==
    /\ TasksOK' /\ LogOK' /\ SentOK' /\ LostOK'
    /\ \A s \in Tasks : s # t => task'[s] = task[s]

LEMMA ActivityInvInit == Init => ActivityInv
<1> SUFFICES ASSUME Init PROVE ActivityInv
  OBVIOUS
<1>1. TasksOK /\ ServiceOK
  BY DEF Init, TasksOK, ServiceOK, NoAct, Early, KS!Init, KS!NoKeys
<1>2. LogOK /\ SentOK /\ LostOK
  BY EmptySeq DEF Init, LogOK, SentOK, LostOK
<1> QED
  BY <1>1, <1>2 DEF ActivityInv

\* A task ends.
LEMMA EndStep ==
    ASSUME ActivityInv, NEW t \in Tasks, End(t), bot' = bot
    PROVE  /\ TasksOK' /\ task'[t].phase = "idle"
           /\ \A s \in Tasks : s # t => task'[s] = task[s]
  BY DEF End, ActivityInv, TasksOK, NoAct, Early

\* A task that ends without its event.
LEMMA LoseStep ==
    ASSUME ActivityInv, NEW t \in Tasks, Lose(t)
    PROVE  TaskMoved(t) /\ task'[t].phase = "idle"
<1>1. /\ End(t) /\ lost' = Append(lost, task[t].act)
      /\ UNCHANGED <<bot, log, sent>>
  BY DEF Lose, Act
<1>2. PICK S : lost \in Seq(S)
  BY DEF ActivityInv, LostOK
<1>3. lost' \in Seq(S \cup {task[t].act})
  BY <1>1, <1>2, AppendFacts
<1> QED
  BY <1>1, <1>3, EndStep DEF TaskMoved, ActivityInv, LogOK, SentOK, LostOK

\* A task that has its event, one that fits, or has none to send.
LEMMA FinishStep ==
    ASSUME ActivityInv, NEW t \in Tasks, NEW e, Finish(t, e),
           task[t].phase # "idle", Fit(task[t].act, e, bot)
    PROVE  TaskMoved(t) /\ task'[t].phase \in {"idle", "sending"}
<1>1. UNCHANGED <<bot, log, sent, lost>>
  BY DEF Finish, history
<1>2. LogOK' /\ SentOK' /\ LostOK'
  BY <1>1 DEF ActivityInv, LogOK, SentOK, LostOK
<1>3. CASE e = NoEvent
  <2>1. End(t)
    BY <1>3 DEF Finish
  <2> QED
    BY <1>1, <1>2, <2>1, EndStep DEF TaskMoved
<1>4. CASE e # NoEvent
  <2> DEFINE x == [phase |-> "sending", act |-> task[t].act, event |-> e]
  <2>1. task' = [task EXCEPT ![t] = x]
    BY <1>4 DEF Finish, Act
  <2>2. /\ x.phase = "sending" /\ Finalized(x.act)
        /\ Fit(x.act, x.event, bot)
    BY DEF ActivityInv, TasksOK
  <2> HIDE DEF x
  <2>3. TasksOK'
    BY <1>1, <2>1, <2>2 DEF ActivityInv, TasksOK, Early
  <2> QED
    BY <1>2, <2>1, <2>2, <2>3 DEF TaskMoved, ActivityInv, TasksOK
<1> QED
  BY <1>3, <1>4

\* A task that decrypts with the key of its own URL, or without one.
LEMMA ProcessStep ==
    ASSUME ActivityInv, NEW t \in Tasks, NEW k, Process(t, k),
           task[t].phase # "idle", k \in {EncryptionKeyUrl(task[t].act), NoUri}
    PROVE  TaskMoved(t) /\ task'[t].phase \in {"idle", "sending"}
<1>1. Finalized(task[t].act)
  BY DEF ActivityInv, TasksOK
<1> DEFINE e == Route(DecryptActivity(task[t].act, k), bot)
<1>2. Fit(task[t].act, e, bot)
  BY <1>1, RouteDecryptedFits
<1>3. Lose(t) \/ Finish(t, e)
  BY DEF Process, Act
<1> HIDE DEF e
<1> QED
  BY <1>2, <1>3, LoseStep, FinishStep

\* A task that goes on with the same activity.
LEMMA PhaseStep ==
    ASSUME ActivityInv, NEW t \in Tasks, NEW p \in {"routing", "asking"},
           task[t].phase \in Early, task' = [task EXCEPT ![t].phase = p],
           UNCHANGED <<bot, log, sent, lost>>
    PROVE  /\ TaskMoved(t)
           /\ task'[t].phase = p /\ task'[t].act = task[t].act
<1>1. task[t] \in [phase : Early, act : Activity]
  BY DEF ActivityInv, TasksOK
<1>2. task'[t] = [task[t] EXCEPT !.phase = p]
  BY DEF ActivityInv, TasksOK
<1>3. /\ task'[t].phase = p /\ task'[t].act = task[t].act
      /\ task'[t] \in [phase : Early, act : Activity]
  BY <1>1, <1>2 DEF Early
<1>4. \A s \in Tasks : s # t => task'[s] = task[s]
  BY DEF ActivityInv, TasksOK
<1>5. TasksOK'
  <2>1. task' = [s \in Tasks |-> task'[s]]
    BY DEF ActivityInv, TasksOK
  <2> QED
    BY <1>3, <1>4, <2>1 DEF ActivityInv, TasksOK, Early
<1> QED
  BY <1>3, <1>4, <1>5 DEF TaskMoved, ActivityInv, LogOK, SentOK, LostOK

LEMMA ActivityInvNext == ActivityInv /\ [Next]_vars => ActivityInv'
<1> SUFFICES ASSUME ActivityInv, [Next]_vars PROVE ActivityInv'
  OBVIOUS
<1> USE DEF Phase
<1>1. ASSUME NEW t \in Tasks, NEW a, Finalized(a), Spawn(t, a)
      PROVE  ActivityInv'
  <2> DEFINE x == [phase |-> "waiting", act |-> a]
  <2>1. /\ task' = [task EXCEPT ![t] = x]
        /\ log' = Append(log, a)
        /\ UNCHANGED <<bot, asked, keys, sent, lost>>
    BY <1>1 DEF Spawn, service
  <2>2. /\ x.phase = "waiting" /\ Finalized(x.act)
        /\ x \in [phase : Early, act : Activity]
    BY <1>1 DEF Finalized, Early
  <2> HIDE DEF x
  <2>3. TasksOK'
    BY <2>1, <2>2 DEF ActivityInv, TasksOK, Early
  <2>4. ServiceOK'
    BY <2>1, <2>2 DEF ActivityInv, TasksOK, ServiceOK
  <2>5. LogOK'
    <3>1. PICK S : log \in Seq(S)
      BY DEF ActivityInv, LogOK
    <3>2. /\ log' \in Seq(S \cup {a})
          /\ \A k \in DOMAIN log' :
                (k \in DOMAIN log /\ log'[k] = log[k]) \/ log'[k] = a
      BY <2>1, <3>1, AppendFacts
    <3> QED
      BY <1>1, <3>2 DEF ActivityInv, LogOK
  <2>6. SentOK' /\ LostOK'
    BY <2>1 DEF ActivityInv, SentOK, LostOK
  <2> QED
    BY <2>3, <2>4, <2>5, <2>6 DEF ActivityInv
<1>2. ASSUME NEW t \in Tasks, NEW body \in Bodies, Deliver(t, body)
      PROVE  ActivityInv'
  <2> DEFINE b == [body EXCEPT !.id = Len(log) + 1]
  <2>1. Len(log) < MaxDeliveries /\ Spawn(t, FinalizeInputs(b))
    BY <1>2 DEF Deliver, Spawn
  <2>2. Len(log) + 1 \in Ids
    BY <2>1, ActivityAssumption, LenProperties DEF ActivityInv, LogOK
  <2>3. b \in Activity /\ b.inputs_encrypted = Absent
    BY <2>2, ActivityAssumption DEF Activity
  <2> HIDE DEF b
  <2> QED
    BY <1>1, <2>1, <2>3, FinalizeInputsFinalizes
<1>3. ASSUME NEW t \in Tasks, NEW k \in DOMAIN log, Redeliver(t, k)
      PROVE  ActivityInv'
  BY <1>1, <1>3 DEF Redeliver, ActivityInv, LogOK
<1>4. ASSUME NEW t \in Tasks, Enter(t) PROVE ActivityInv'
  <2>1. /\ task[t].phase = "waiting"
        /\ task' = [task EXCEPT ![t].phase = "routing"]
        /\ UNCHANGED <<bot, asked, keys, log, sent, lost>>
    BY <1>4 DEF Enter, service, history
  <2>2. TaskMoved(t) /\ task'[t].phase = "routing"
    BY <2>1, PhaseStep DEF Early
  <2>3. ServiceOK'
    BY <2>1, <2>2 DEF TaskMoved, ActivityInv, ServiceOK
  <2> QED
    BY <2>2, <2>3 DEF TaskMoved, ActivityInv
<1>5. ASSUME NEW t \in Tasks, RoutePlain(t) \/ KeyCached(t) PROVE ActivityInv'
  <2>1. PICK k \in {EncryptionKeyUrl(task[t].act), NoUri} : Process(t, k)
    <3>1. CASE RoutePlain(t)
      BY <3>1 DEF RoutePlain
    <3>2. CASE KeyCached(t)
      BY <3>2, ActivityAssumption DEF KeyCached, NeedsKey, Url, Act, ActivityInv,
         TasksOK, ServiceOK, Finalized, Activity, EncryptionKeyUrl
    <3> QED
      BY <1>5, <3>1, <3>2
  <2>2. task[t].phase = "routing" /\ UNCHANGED <<asked, keys>>
    BY <1>5 DEF RoutePlain, KeyCached, service
  <2>3. TaskMoved(t) /\ task'[t].phase \in {"idle", "sending"}
    BY <2>1, <2>2, ProcessStep
  <2>4. ServiceOK'
    BY <2>2, <2>3 DEF TaskMoved, ActivityInv, ServiceOK
  <2> QED
    BY <2>3, <2>4 DEF TaskMoved, ActivityInv
<1>6. ASSUME NEW t \in Tasks, KeyRefused(t) PROVE ActivityInv'
  <2>1. /\ task[t].phase = "routing" /\ asked' = asked
        /\ keys' = keys \/ keys' = [u \in Uris |-> NoUri]
        /\ Finish(t, RouteWithoutKey(task[t].act, bot))
    BY <1>6 DEF KeyRefused, KS!TurnAway, KS!NoKeys, Act
  <2>2. Fit(task[t].act, RouteWithoutKey(task[t].act, bot), bot)
    BY <2>1, RouteWithoutKeyFits DEF ActivityInv, TasksOK
  <2>3. TaskMoved(t) /\ task'[t].phase \in {"idle", "sending"}
    BY <2>1, <2>2, FinishStep
  <2>4. ServiceOK'
    BY <2>1, <2>3 DEF TaskMoved, ActivityInv, ServiceOK
  <2> QED
    BY <2>3, <2>4 DEF TaskMoved, ActivityInv
<1>7. ASSUME NEW t \in Tasks, AskKey(t) PROVE ActivityInv'
  <2>1. /\ task[t].phase = "routing"
        /\ task' = [task EXCEPT ![t].phase = "asking"]
        /\ asked' = [asked EXCEPT ![t] = EncryptionKeyUrl(task[t].act)]
        /\ keys' = keys \/ keys' = [u \in Uris |-> NoUri]
        /\ UNCHANGED <<bot, log, sent, lost>>
    BY <1>7 DEF AskKey, KS!Ask, KS!NoKeys, Url, Act, history
  <2>2. /\ TaskMoved(t)
        /\ task'[t].phase = "asking" /\ task'[t].act = task[t].act
    BY <2>1, PhaseStep DEF Early
  <2>3. ServiceOK'
    BY <2>1, <2>2 DEF TaskMoved, ActivityInv, ServiceOK
  <2> QED
    BY <2>2, <2>3 DEF TaskMoved, ActivityInv
<1>8. ASSUME NEW t \in Tasks, KeyArrives(t) \/ KeyFails(t) \/ KeyPanics(t)
      PROVE  ActivityInv'
  <2>1. /\ task[t].phase = "asking"
        /\ asked' = [asked EXCEPT ![t] = NoUri]
        /\ keys' = keys \/ keys' = [keys EXCEPT ![asked[t]] = asked[t]]
    BY <1>8 DEF KeyArrives, KeyFails, KeyPanics, KS!Answer, KS!Fail
  <2>2. asked[t] = EncryptionKeyUrl(task[t].act)
    BY <2>1 DEF ActivityInv, ServiceOK
  <2>3. TaskMoved(t) /\ task'[t].phase \in {"idle", "sending"}
    <3>1. CASE KeyArrives(t)
      BY <2>1, <2>2, <3>1, ProcessStep DEF KeyArrives
    <3>2. CASE KeyFails(t)
      <4>1. Finish(t, RouteWithoutKey(task[t].act, bot))
        BY <3>2 DEF KeyFails, Act
      <4>2. Fit(task[t].act, RouteWithoutKey(task[t].act, bot), bot)
        BY <2>1, RouteWithoutKeyFits DEF ActivityInv, TasksOK
      <4> QED
        BY <2>1, <4>1, <4>2, FinishStep
    <3>3. CASE KeyPanics(t)
      BY <3>3, LoseStep DEF KeyPanics
    <3> QED
      BY <1>8, <3>1, <3>2, <3>3
  <2>4. ServiceOK'
    BY <2>1, <2>3 DEF TaskMoved, ActivityInv, ServiceOK
  <2> QED
    BY <2>3, <2>4 DEF TaskMoved, ActivityInv
<1>9. ASSUME NEW t \in Tasks, NoClient(t) \/ SendFails(t) PROVE ActivityInv'
  <2>1. TaskMoved(t) /\ task'[t].phase = "idle" /\ UNCHANGED <<asked, keys>>
    BY <1>9, LoseStep DEF NoClient, SendFails, service
  <2>2. ServiceOK'
    BY <2>1 DEF TaskMoved, ActivityInv, ServiceOK
  <2> QED
    BY <2>1, <2>2 DEF TaskMoved, ActivityInv
<1>10. ASSUME NEW t \in Tasks, Send(t) PROVE ActivityInv'
  <2> DEFINE x == [act |-> task[t].act, event |-> task[t].event]
  <2>1. /\ task[t].phase = "sending" /\ End(t) /\ sent' = Append(sent, x)
        /\ UNCHANGED <<bot, asked, keys, log, lost>>
    BY <1>10 DEF Send, Act, service
  <2>2. Fit(x.act, x.event, bot)
    BY <2>1 DEF ActivityInv, TasksOK
  <2> HIDE DEF x
  <2>3. PICK S : sent \in Seq(S)
    BY DEF ActivityInv, SentOK
  <2>4. /\ sent' \in Seq(S \cup {x})
        /\ \A k \in DOMAIN sent' :
              (k \in DOMAIN sent /\ sent'[k] = sent[k]) \/ sent'[k] = x
    BY <2>1, <2>3, AppendFacts
  <2>5. SentOK'
    BY <2>1, <2>2, <2>4 DEF ActivityInv, SentOK
  <2>6. /\ TasksOK' /\ task'[t].phase = "idle"
        /\ \A s \in Tasks : s # t => task'[s] = task[s]
    BY <2>1, EndStep
  <2>7. LogOK' /\ LostOK' /\ ServiceOK'
    BY <2>1, <2>6 DEF ActivityInv, LogOK, LostOK, ServiceOK
  <2> QED
    BY <2>5, <2>6, <2>7 DEF ActivityInv
<1>11. CASE StoreClient \/ DropClient
  <2>1. keys' = [u \in Uris |-> NoUri] /\ UNCHANGED <<bot, task, asked, log, sent, lost>>
    BY <1>11 DEF StoreClient, DropClient, SetClient, KS!NoKeys, history
  <2> QED
    BY <2>1 DEF ActivityInv, TasksOK, LogOK, ServiceOK, SentOK, LostOK
<1>12. CASE AppReceives \/ AppLeaves \/ UNCHANGED vars
  <2>1. UNCHANGED <<bot, task, asked, keys, log, sent, lost>>
    BY <1>12 DEF AppReceives, AppLeaves, vars, service, history
  <2> QED
    BY <2>1 DEF ActivityInv, TasksOK, LogOK, ServiceOK, SentOK, LostOK
<1> QED
  BY <1>2, <1>3, <1>4, <1>5, <1>6, <1>7, <1>8, <1>9, <1>10, <1>11, <1>12
     DEF Next, Work

LEMMA ActivityInvariant == Spec => []ActivityInv
<1> QED
  BY ActivityInvInit, ActivityInvNext, PTL DEF Spec

\* With ignore_self_messages no message of the bot reaches the application, for
\* any activities, persons and tasks.
THEOREM NoSelfMessageSent == Spec => []NoSelfMessages
<1>1. ActivityInv => NoSelfMessages
  BY DEF ActivityInv, SentOK, Fit, NoSelfMessages
<1> QED
  BY <1>1, ActivityInvariant, PTL

\* Card inputs never reach the application as ciphertext, for any activities and
\* any outcome of the key request and of the decryption.
THEOREM NoCiphertextSent == Spec => []InputsNeverCiphertext
<1>1. ActivityInv => InputsNeverCiphertext
  BY DEF ActivityInv, SentOK, Fit, InputsNeverCiphertext
<1> QED
  BY <1>1, ActivityInvariant, PTL

\* What is opened, text, HTML or inputs, was sealed with the key of the URL the
\* activity names first, for any number of tasks that share the cache, provided
\* that get_key is the KeyService it implements (ClientServesKeys).
THEOREM OnlyOwnKeyOpens == Spec => []OpenedByOwnKey
<1>1. ActivityInv => OpenedByOwnKey
  BY DEF ActivityInv, SentOK, Fit, OpenedByOwnKey
<1> QED
  BY <1>1, ActivityInvariant, PTL

\* The mentions of every message are those of its HTML, each key once, in the
\* order of their first occurrence, for any HTML with any number of tags.
THEOREM MentionsSentInOrder == Spec => []MentionsInOrder
<1>1. ActivityInv => MentionsInOrder
  <2> SUFFICES ASSUME ActivityInv, NEW k \in DOMAIN sent
               PROVE  LET e == sent[k].event
                          tags == IF e.html.kind = "plain" THEN e.html.tags ELSE <<>>
                          firsts(type) == {i \in DOMAIN tags :
                                 /\ Mentioned(tags[i]) /\ tags[i].type = type
                                 /\ FirstOf(tags, i)}
                          same(list, type) ==
                            /\ Len(list) = Cardinality(firsts(type))
                            /\ \A i \in firsts(type) :
                                 list[Cardinality({j \in firsts(type) : j <= i})]
                                   = tags[i].id
                      IN  /\ same(e.mentions.people, "person")
                          /\ same(e.mentions.groups, "groupMention")
    BY DEF MentionsInOrder
  <2> DEFINE e == sent[k].event
             tags == IF e.html.kind = "plain" THEN e.html.tags ELSE <<>>
  <2>1. e.html \in Field /\ e.mentions = ParseMentions(e.html)
    BY DEF ActivityInv, SentOK, Fit
  <2>2. tags \in Seq(Tag) /\ DOMAIN tags = 1..Len(tags)
    BY <2>1, EmptySeq, LenProperties DEF Field
  <2>3. /\ e.mentions.people = Mentions(tags).people
        /\ e.mentions.groups = Mentions(tags).groups
    BY <2>1 DEF ParseMentions
  <2> HIDE DEF e, tags
  <2>4. ASSUME NEW type, NEW list, InOrder(tags, type, Len(tags), list)
        PROVE  LET firsts == {i \in DOMAIN tags :
                                /\ Mentioned(tags[i]) /\ tags[i].type = type
                                /\ FirstOf(tags, i)}
               IN  /\ Len(list) = Cardinality(firsts)
                   /\ \A i \in firsts :
                        list[Cardinality({j \in firsts : j <= i})] = tags[i].id
    <3> DEFINE firsts == {i \in DOMAIN tags :
                            /\ Mentioned(tags[i]) /\ tags[i].type = type
                            /\ FirstOf(tags, i)}
    <3>1. firsts = Firsts(tags, type, Len(tags))
      BY <2>2 DEF Firsts
    <3> HIDE DEF firsts
    <3>2. /\ Len(list) = Cardinality(firsts)
          /\ \A i \in firsts :
               list[Cardinality({j \in firsts : j <= i})] = tags[i].id
      BY <2>4, <3>1 DEF InOrder, Rank
    <3> QED
      BY <3>2 DEF firsts
  <2>5. /\ InOrder(tags, "person", Len(tags), Mentions(tags).people)
        /\ InOrder(tags, "groupMention", Len(tags), Mentions(tags).groups)
    BY <2>2, MentionsListed DEF Listed
  <2> DEFINE firsts(type) == {i \in DOMAIN tags :
                                /\ Mentioned(tags[i]) /\ tags[i].type = type
                                /\ FirstOf(tags, i)}
             same(list, type) ==
               /\ Len(list) = Cardinality(firsts(type))
               /\ \A i \in firsts(type) :
                    list[Cardinality({j \in firsts(type) : j <= i})] = tags[i].id
  <2>6. same(Mentions(tags).people, "person")
    BY <2>4, <2>5
  <2>7. same(Mentions(tags).groups, "groupMention")
    BY <2>4, <2>5
  <2>8. same(e.mentions.people, "person") /\ same(e.mentions.groups, "groupMention")
    BY <2>3, <2>6, <2>7
  <2> QED
    BY <2>8 DEF tags, e
<1> QED
  BY <1>1, ActivityInvariant, PTL
=============================================================================
