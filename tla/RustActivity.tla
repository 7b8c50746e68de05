---------------------------- MODULE RustActivity ----------------------------
(***************************************************************************)
(* The activity tasks of the Rust handler (rust/src/handler.rs): Mercury   *)
(* delivers activities, each gets a task that holds the kms_client mutex   *)
(* while it asks KeyService for a key, decrypts, routes and waits for room *)
(* in the application's event channel.  connect() and disconnect() put a   *)
(* new KMS client in its place or take it away.  Mercury may deliver an    *)
(* activity again, as it does when its acknowledgement was lost.           *)
(*                                                                         *)
(* recent_activity_ids is left out: it is swept but nothing ever inserts   *)
(* into it.  The handler's own events in the channel are in RustHandler.   *)
(***************************************************************************)
EXTENDS RustRouting, FiniteSets

CONSTANTS
    Tasks, NoTask,
    Bot,            \* the person whose token the handler uses
    Bodies,         \* what Mercury may deliver: activities, under any id
    Limit,          \* MAX_KEY_CACHE_SIZE
    Capacity,       \* of the event channel
    MaxDeliveries   \* bound on the deliveries

ASSUME ActivityAssumption ==
    /\ NoTask \notin Tasks /\ NoUri \notin Uris /\ NoPerson \notin People
    /\ Bot \in People
    /\ Ids = 1..MaxDeliveries
    /\ Bodies \subseteq Activity
    /\ \A b \in Bodies : b.inputs_encrypted = Absent   \* not on the wire
    /\ Limit \in Nat /\ Capacity \in Nat \ {0} /\ MaxDeliveries \in Nat

VARIABLES
    bot,        \* bot_person_id; NoPerson without ignore_self_messages
    client,     \* kms_client: "some" or "none"
    lock,       \* holder of the kms_client mutex
    task,       \* task[t]: what t does, for which activity, with which event
    asked, keys,\* the KMS client, as KeyService sees it
    app,        \* the application has its receiver, "receiving", or dropped it
    outbox,     \* how many events of the tasks are in the channel
    log,        \* what Mercury has delivered, in order
    sent,       \* history: the events sent, each with its activity
    lost        \* history: the activities whose task ended without its event

vars == <<bot, client, lock, task, asked, keys, app, outbox, log, sent, lost>>
service == <<asked, keys>>
channel == <<app, outbox>>
history == <<log, sent, lost>>

KS == INSTANCE KeyService

TypeOK ==
    /\ bot \in {Bot, NoPerson}
    /\ client \in {"some", "none"}
    /\ lock \in Tasks \cup {NoTask}
    /\ \A t \in Tasks :
         /\ task[t].phase \in {"idle", "waiting", "routing", "asking", "sending"}
         /\ task[t].phase # "idle" => task[t].act \in Activity
    /\ asked \in [Tasks -> Uris \cup {NoUri}]
    /\ keys \in [Uris -> Uris \cup {NoUri}]
    /\ app \in {"receiving", "gone"} /\ outbox \in 0..Capacity
    /\ \A k \in DOMAIN log : log[k] \in Activity
    /\ Len(log) <= MaxDeliveries /\ Len(sent) + Len(lost) <= Len(log)

NoAct == [phase |-> "idle"]

\* connect() stores the client before Mercury can deliver anything.  The bot is
\* the same while there is a client, and without one no task looks at it.
Init ==
    /\ bot \in {Bot, NoPerson}
    /\ client = "some"
    /\ lock = NoTask
    /\ task = [t \in Tasks |-> NoAct]
    /\ KS!Init
    /\ app = "receiving" /\ outbox = 0
    /\ log = <<>> /\ sent = <<>> /\ lost = <<>>
-----------------------------------------------------------------------------
Phase(t, phase) == task[t].phase = phase
Act(t) == task[t].act

\* connect() stores a new client, disconnect() drops it, when no task has the
\* mutex.
SetClient(c) ==
    /\ lock = NoTask
    /\ client' = c /\ keys' = KS!NoKeys
    /\ UNCHANGED <<bot, lock, task, asked, channel, history>>

StoreClient == SetClient("some")
DropClient == SetClient("none")

\* Mercury delivers the activity a; the event loop spawns a task for it.
Spawn(t, a) ==
    /\ Phase(t, "idle") /\ Len(log) < MaxDeliveries
    /\ task' = [task EXCEPT ![t] = [phase |-> "waiting", act |-> a]]
    /\ log' = Append(log, a)
    /\ UNCHANGED <<bot, client, lock, service, channel, sent, lost>>

Deliver(t, body) == Spawn(t, FinalizeInputs([body EXCEPT !.id = Len(log) + 1]))

Redeliver(t, k) == k \in DOMAIN log /\ Spawn(t, log[k])

\* Mutant: get_key is called without the mutex.
MutantEnter(t) ==
    /\ Phase(t, "waiting") /\ client = "some"
    /\ lock' = t
    /\ task' = [task EXCEPT ![t].phase = "routing"]
    /\ UNCHANGED <<bot, client, service, channel, history>>

\* kms_client.lock().await, and there is a client.
Enter(t) ==
    /\ Phase(t, "waiting") /\ lock = NoTask /\ client = "some"
    /\ lock' = t
    /\ task' = [task EXCEPT ![t].phase = "routing"]
    /\ UNCHANGED <<bot, client, service, channel, history>>

\* The task is over; the guard of the mutex is dropped.
End(t) == task' = [task EXCEPT ![t] = NoAct] /\ lock' = NoTask

\* Mutant: the mutex is not released.
MutantLose(t) ==
    /\ lost' = Append(lost, Act(t))
    /\ task' = [task EXCEPT ![t] = NoAct]
    /\ UNCHANGED <<bot, client, lock, channel, log, sent>>

\* The task ends without its event.
Lose(t) ==
    /\ lost' = Append(lost, Act(t))
    /\ End(t)
    /\ UNCHANGED <<bot, client, channel, log, sent>>

\* There is no client: the activity, acknowledged long ago, is dropped.
NoClient(t) ==
    /\ Phase(t, "waiting") /\ lock = NoTask /\ client = "none"
    /\ Lose(t)
    /\ UNCHANGED service

\* The task goes on to send its event, or ends when there is none.
Finish(t, event) ==
    /\ IF event = NoEvent THEN End(t)
       ELSE /\ task' = [task EXCEPT ![t] =
                          [phase |-> "sending", act |-> Act(t), event |-> event]]
            /\ UNCHANGED lock
    /\ UNCHANGED <<bot, client, channel, history>>

\* With the key k: the task panics, or decrypts and routes.
Process(t, k) ==
    IF Panics(Act(t), k) THEN Lose(t)
    ELSE Finish(t, Route(DecryptActivity(Act(t), k), bot))

\* Nothing to decrypt.
RoutePlain(t) ==
    /\ Phase(t, "routing") /\ ~NeedsKey(Act(t))
    /\ Process(t, NoUri)
    /\ UNCHANGED service

Url(t) == EncryptionKeyUrl(Act(t))

\* Mutant: any cached key will do.
MutantKeyCached(t) ==
    /\ Phase(t, "routing") /\ NeedsKey(Act(t))
    /\ \E u \in Uris : keys[u] # NoUri /\ Process(t, keys[u])
    /\ UNCHANGED service

\* get_key finds the key in its cache,
KeyCached(t) ==
    /\ Phase(t, "routing") /\ NeedsKey(Act(t))
    /\ keys[Url(t)] # NoUri
    /\ Process(t, keys[Url(t)])
    /\ UNCHANGED service

\* fails at once (the circuit breaker is open),
KeyRefused(t) ==
    /\ Phase(t, "routing") /\ NeedsKey(Act(t))
    /\ keys[Url(t)] = NoUri
    /\ UNCHANGED asked
    /\ KS!TurnAway \/ UNCHANGED keys
    /\ Finish(t, RouteWithoutKey(Act(t), bot))

\* or asks the KMS,
AskKey(t) ==
    /\ Phase(t, "routing") /\ NeedsKey(Act(t))
    /\ keys[Url(t)] = NoUri
    /\ KS!Ask(t, Url(t))
    /\ task' = [task EXCEPT ![t].phase = "asking"]
    /\ UNCHANGED <<bot, client, lock, channel, history>>

\* which answers,
KeyArrives(t) ==
    /\ Phase(t, "asking")
    /\ KS!Answer(t)
    /\ Process(t, asked[t])

\* fails,
KeyFails(t) ==
    /\ Phase(t, "asking")
    /\ KS!Fail(t)
    /\ Finish(t, RouteWithoutKey(Act(t), bot))

\* or answers with a JWE that panics in the unwrapping.
KeyPanics(t) ==
    /\ Phase(t, "asking")
    /\ KS!Fail(t)
    /\ Lose(t)

\* Mutant: a channel without a bound.
MutantSend(t) ==
    /\ Phase(t, "sending") /\ app = "receiving"
    /\ outbox' = outbox + 1
    /\ sent' = Append(sent, [act |-> Act(t), event |-> task[t].event])
    /\ End(t)
    /\ UNCHANGED <<bot, client, service, app, log, lost>>

\* event_tx.send().await returns once there is room, with the mutex held,
Send(t) ==
    /\ Phase(t, "sending") /\ app = "receiving" /\ outbox < Capacity
    /\ outbox' = outbox + 1
    /\ sent' = Append(sent, [act |-> Act(t), event |-> task[t].event])
    /\ End(t)
    /\ UNCHANGED <<bot, client, service, app, log, lost>>

\* or fails because the receiver was dropped.
SendFails(t) ==
    /\ Phase(t, "sending") /\ app = "gone"
    /\ Lose(t)
    /\ UNCHANGED service

\* The application takes an event, or drops its receiver.
AppReceives ==
    /\ app = "receiving" /\ outbox > 0
    /\ outbox' = outbox - 1
    /\ UNCHANGED <<bot, client, lock, task, service, app, history>>
AppLeaves ==
    /\ app = "receiving"
    /\ app' = "gone" /\ outbox' = 0
    /\ UNCHANGED <<bot, client, lock, task, service, history>>

Work(t) ==
    \/ Enter(t) \/ NoClient(t) \/ RoutePlain(t)
    \/ KeyCached(t) \/ KeyRefused(t) \/ AskKey(t)
    \/ KeyArrives(t) \/ KeyFails(t) \/ KeyPanics(t)
    \/ Send(t) \/ SendFails(t)

Next ==
    \/ \E t \in Tasks :
        \/ \E body \in Bodies : Deliver(t, body)
        \/ \E k \in DOMAIN log : Redeliver(t, k)
        \/ Work(t)
    \/ StoreClient \/ DropClient \/ AppReceives \/ AppLeaves

Spec == Init /\ [][Next]_vars
-----------------------------------------------------------------------------
\* Properties.

IsMessageEvent(e) == e.type \in {"MessageCreated", "MessageUpdated"}

\* With ignore_self_messages no message of the bot reaches the application,
\* whichever form its author's id has (handle_activity_static).
NoSelfMessages ==
    \A k \in DOMAIN sent :
        bot # NoPerson /\ IsMessageEvent(sent[k].event) =>
            sent[k].event.actor.person # bot

\* Card inputs reach the application in the clear or not at all, never as
\* ciphertext, whatever fails on the way (finalize_inputs, decrypt_activity).
InputsNeverCiphertext ==
    \A k \in DOMAIN sent : sent[k].event.inputs.kind # "jwe"

\* What was opened, text, HTML or inputs, was sealed with the key of the URL that
\* the activity names first: the cache and the KMS hand out no other key
\* (decrypt_activity, get_key).
OpenedByOwnKey ==
    \A k \in DOMAIN sent :
        LET a == sent[k].act
            e == sent[k].event
        IN  /\ (e.text.kind = "plain" /\ a.displayName.kind = "jwe")
                 => a.displayName.key = EncryptionKeyUrl(a)
            /\ (e.html.kind = "plain" /\ a.content.kind = "jwe")
                 => a.content.key = EncryptionKeyUrl(a)
            /\ (e.inputs.kind = "plain" /\ a.inputs_encrypted.kind = "jwe")
                 => a.inputs_encrypted.key = EncryptionKeyUrl(a)

\* No tag before tag i has its key.
FirstOf(tags, i) ==
    \A j \in 1..(i - 1) : Mentioned(tags[j]) => Key(tags[j]) # Key(tags[i])

\* The mentions of a message are those of its HTML, each once, in the order of
\* their first occurrence; persons and groups count as the same mention when
\* they have the same key (parse_mentions).
MentionsInOrder ==
    \A k \in DOMAIN sent :
        LET e == sent[k].event
            tags == IF e.html.kind = "plain" THEN e.html.tags ELSE <<>>
            firsts(type) == {i \in DOMAIN tags :
                               /\ Mentioned(tags[i]) /\ tags[i].type = type
                               /\ FirstOf(tags, i)}
            same(list, type) ==
                /\ Len(list) = Cardinality(firsts(type))
                /\ \A i \in firsts(type) :
                     list[Cardinality({j \in firsts(type) : j <= i})] = tags[i].id
        IN  /\ same(e.mentions.people, "person")
            /\ same(e.mentions.groups, "groupMention")

\* No activity vanishes unnoticed, and none is reported twice for one delivery:
\* of every activity that is to be reported, the events sent, the tasks at work
\* and the tasks that had no client, no receiver or a panic account for all its
\* deliveries.  In particular a failed key costs a message no event, but makes
\* it an Error (handle_activity_static).
NoneLost ==
    \A k \in DOMAIN log :
        Route(log[k], bot) # NoEvent =>
            Cardinality({j \in DOMAIN sent : sent[j].act = log[k]})
              + Cardinality({j \in DOMAIN lost : lost[j] = log[k]})
              + Cardinality({t \in Tasks : ~Phase(t, "idle") /\ Act(t) = log[k]})
            = Cardinality({i \in DOMAIN log : log[i] = log[k]})

Working(t) == task[t].phase \in {"routing", "asking", "sending"}

\* The tasks that use the client or wait for room in the channel are the holder of
\* the mutex alone, and the client is not taken from under it by disconnect(); a
\* task that found no client, sent its event or died of a panic has given the
\* mutex back.
WorkersHoldClient ==
    /\ \A t \in Tasks : Working(t) => lock = t /\ client = "some"
    /\ lock # NoTask => Working(lock)

\* The tasks keep to what KeyService asks of its callers: one that comes to ask
\* finds nobody else waiting for a key, and the key that one waits for can still
\* be kept, because the mutex is held from the routing to the answer.
ServiceReady ==
    \A t \in Tasks :
        /\ Phase(t, "routing") => \A s \in Tasks : asked[s] = NoUri
        /\ Phase(t, "asking") => asked[t] # NoUri /\ Cardinality(KS!Held) <= Limit

\* "Duplicate activities silently dropped" (THREAT_MODEL.md): an activity that
\* Mercury delivers again is not reported as a message again.
ReportedOnce ==
    \A j, k \in DOMAIN sent :
        /\ IsMessageEvent(sent[j].event) /\ IsMessageEvent(sent[k].event)
        /\ sent[j].act.id = sent[k].act.id
        => j = k
=============================================================================
