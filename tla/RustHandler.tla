----------------------------- MODULE RustHandler -----------------------------
(***************************************************************************)
(* The Rust WebexMessageHandler (rust/src/handler.rs) over MercurySocket:  *)
(* connect(), disconnect() and reconnect() as the application's tasks run  *)
(* them, the event loop that reads the socket's channel, the activity      *)
(* tasks it spawns, the mutex around the KMS client and the bounded        *)
(* channel to the application.                                             *)
(*                                                                         *)
(* Device registration and the KMS handshake are one step each, with every *)
(* outcome they have; RustKmsClient models the KMS client in detail.       *)
(* The arm for MercuryEvent::Connected is dead code: MercurySocket never   *)
(* sends that event.                                                       *)
(***************************************************************************)
EXTENDS RustMercurySocket

CONSTANTS
    Ops,       \* what the application calls: "connect", "disconnect", ...
    Acts,      \* activity tasks
    Capacity,  \* event_channel_capacity
    IgnoreSelf,\* ignore_self_messages
    Receiver,  \* the caller that also receives the events, or NoOne: a task
               \* of its own receives them
    NoOne      \* nobody: a free mutex, a client that is None

ASSUME HandlerAssumption ==
    /\ Ops \subseteq {"connect", "disconnect", "reconnect"}
    /\ Capacity \in Nat \ {0}
    /\ IgnoreSelf \in BOOLEAN
    /\ NoOne \notin Callers \cup Acts /\ Callers \cap Acts = {}
    /\ Receiver \in Callers \cup {NoOne}

VARIABLES
    connected, connecting,
    registration,     \* "none" or "some"
    device,           \* is a device of ours registered with WDM?
    kms,              \* kms_client, by the call that created it
    responder,        \* kms_response_handler, likewise
    bot,              \* bot_person_id: "none" or "some"
    kms_lock,         \* holder of the kms_client mutex
    api,              \* api[p]: [op, pc] of p's call
    answered,         \* answered[p]: the handshake p waits for has its answer
    loop,             \* the event loop: "off", "idle" or the event it sends
    act,              \* act[a]: an activity task
    outbox            \* how many events the HandlerEvent channel holds

session == <<registration, device, kms, responder, bot>>
handlerVars == <<connected, connecting, session, kms_lock, api, answered, loop,
                 act, outbox>>
vars == <<handlerVars, socketVars>>

ApiPcs == {"idle", "begin", "register", "bot", "responder", "client", "mercury",
           "mercury_wait", "start", "init", "handshake", "store", "done", "up",
           "fail", "leave", "leave_wait", "unregister", "forget", "kms_none",
           "responder_none", "bot_none"}

TypeOK ==
    /\ SocketTypeOK
    /\ connected \in BOOLEAN /\ connecting \in BOOLEAN
    /\ registration \in {"none", "some"} /\ device \in {"none", "some"}
    /\ kms \in Callers \cup {NoOne} /\ responder \in Callers \cup {NoOne}
    /\ bot \in {"none", "some"}
    /\ kms_lock \in Callers \cup Acts \cup {NoOne}
    /\ api \in [Callers -> [op : {"connect", "disconnect", "reconnect"},
                            pc : ApiPcs]]
    /\ answered \in [Callers -> BOOLEAN]
    /\ loop \in MercuryEvents \cup {"off", "idle"}
    /\ act \in [Acts -> {"none", "waiting", "routing", "sending"}]
    /\ outbox \in 0..Capacity

Idle == [op |-> "connect", pc |-> "idle"]

\* WebexMessageHandler::new
Init ==
    /\ SocketInit
    /\ connected = FALSE /\ connecting = FALSE
    /\ registration = "none" /\ device = "none"
    /\ kms = NoOne /\ responder = NoOne
    /\ bot = "none"
    /\ kms_lock = NoOne
    /\ api = [p \in Callers |-> Idle]
    /\ answered = [p \in Callers |-> FALSE]
    /\ loop = "off"
    /\ act = [a \in Acts |-> "none"]
    /\ outbox = 0
-----------------------------------------------------------------------------
At(p, pc) == api[p].pc = pc
To(p, pc) == api' = [api EXCEPT ![p].pc = pc]
Leave(p) == api' = [api EXCEPT ![p] = Idle]

\* The application calls the handler.
Connect(p) ==
    /\ At(p, "idle") /\ "connect" \in Ops
    /\ ~connecting /\ ~connected
    /\ api' = [api EXCEPT ![p] = [op |-> "connect", pc |-> "begin"]]
    /\ UNCHANGED <<connected, connecting, session, kms_lock, answered, loop,
                   act, outbox, socketVars>>

\* Mutant: disconnect() leaves the connected flag to the event loop.
MutantDisconnect(p, op) ==
    /\ At(p, "idle") /\ op \in Ops
    /\ Len(events) < MaxEvents
    /\ api' = [api EXCEPT ![p] = [op |-> op, pc |-> "leave"]]
    /\ UNCHANGED <<connected, connecting, session, kms_lock, answered, loop,
                   act, outbox, socketVars>>

\* disconnect(), and reconnect() before it connects again.
Disconnect(p, op) ==
    /\ At(p, "idle") /\ op \in Ops
    /\ Len(events) < MaxEvents
    /\ api' = [api EXCEPT ![p] = [op |-> op, pc |-> "leave"]]
    /\ connected' = FALSE
    /\ UNCHANGED <<connecting, session, kms_lock, answered, loop, act, outbox,
                   socketVars>>
-----------------------------------------------------------------------------
\* connect()

\* The check of Connect and this assignment lock the flags separately.
Begin(p) ==
    /\ At(p, "begin")
    /\ connecting' = TRUE
    /\ To(p, "register")
    /\ UNCHANGED <<connected, session, kms_lock, answered, loop, act, outbox,
                   socketVars>>

\* DeviceManager::register.
Register(p) ==
    /\ At(p, "register")
    /\ \/ device' = device /\ To(p, "fail")
       \/ device' = "some" /\ To(p, "fail")
       \/ device' = "some" /\ To(p, "bot")
    /\ UNCHANGED <<connected, connecting, registration, kms, responder, bot,
                   kms_lock, answered, loop, act, outbox, socketVars>>

\* fetch_bot_person_id, if self-messages are to be ignored.
FetchBot(p) ==
    /\ At(p, "bot")
    /\ \/ /\ bot' = IF IgnoreSelf THEN "some" ELSE bot
          /\ To(p, "responder")
       \/ IgnoreSelf /\ To(p, "fail") /\ UNCHANGED bot
    /\ UNCHANGED <<connected, connecting, registration, device, kms, responder,
                   kms_lock, answered, loop, act, outbox, socketVars>>

\* A new KmsClient: its response handler is published before the client.
StoreResponder(p) ==
    /\ At(p, "responder")
    /\ responder' = p
    /\ To(p, "client")
    /\ UNCHANGED <<connected, connecting, registration, device, kms, bot, kms_lock,
                   answered, loop, act, outbox, socketVars>>

StoreClient(p) ==
    /\ At(p, "client") /\ kms_lock = NoOne
    /\ kms' = p
    /\ To(p, "mercury")
    /\ UNCHANGED <<connected, connecting, registration, device, responder, bot,
                   kms_lock, answered, loop, act, outbox, socketVars>>

CallMercury(p) ==
    /\ At(p, "mercury")
    /\ SocketConnect(p)
    /\ To(p, "mercury_wait")
    /\ UNCHANGED <<connected, connecting, session, kms_lock, answered, loop,
                   act, outbox>>

MercuryReturns(p) ==
    /\ At(p, "mercury_wait") /\ sock[p] \in {"ok", "failed"}
    /\ Goto(p, "idle")
    /\ To(p, IF sock[p] = "ok" THEN "start" ELSE "fail")
    /\ UNCHANGED <<connected, connecting, session, kms_lock, answered, loop,
                   act, outbox, flags, attempts, stability, reader,
                   events>>

\* start_mercury_event_loop: only the first call finds the receiver.
StartLoop(p) ==
    /\ At(p, "start")
    /\ loop' = IF loop = "off" THEN "idle" ELSE loop
    /\ To(p, "init")
    /\ UNCHANGED <<connected, connecting, session, kms_lock, answered, act,
                   outbox, socketVars>>

\* initialize() runs under the mutex; without a client it is skipped.
InitKms(p) ==
    /\ At(p, "init") /\ kms_lock = NoOne
    /\ IF kms # NoOne
       THEN kms_lock' = p /\ To(p, "handshake")
       ELSE UNCHANGED kms_lock /\ To(p, "store")
    /\ UNCHANGED <<connected, connecting, session, answered, loop, act, outbox,
                   socketVars>>

\* Mutant: the handshake has no timeout.
MutantHandshakeEnds(p) ==
    /\ At(p, "handshake")
    /\ answered[p] /\ To(p, "store")
    /\ kms_lock' = NoOne
    /\ answered' = [answered EXCEPT ![p] = FALSE]
    /\ UNCHANGED <<connected, connecting, session, loop, act, outbox,
                   socketVars>>

\* The handshake completes, or fails by an error or a timeout.
HandshakeEnds(p) ==
    /\ At(p, "handshake")
    /\ \/ answered[p] /\ To(p, "store")
       \/ To(p, "fail")
    /\ kms_lock' = NoOne
    /\ answered' = [answered EXCEPT ![p] = FALSE]
    /\ UNCHANGED <<connected, connecting, session, loop, act, outbox,
                   socketVars>>

StoreRegistration(p) ==
    /\ At(p, "store")
    /\ registration' = "some"
    /\ To(p, "done")
    /\ UNCHANGED <<connected, connecting, device, kms, responder, bot, kms_lock,
                   answered, loop, act, outbox, socketVars>>

\* connect_internal returned.
ConnectEnds(p) ==
    /\ At(p, "done") \/ At(p, "fail")
    /\ connecting' = FALSE
    /\ IF At(p, "done") THEN To(p, "up") ELSE Leave(p)
    /\ UNCHANGED <<connected, session, kms_lock, answered, loop, act, outbox,
                   socketVars>>

\* Mutant: the Connected event is queued although the channel is full.
MutantConnectSucceeds(p) ==
    /\ At(p, "up")
    /\ connected' = TRUE
    /\ outbox' = outbox + 1
    /\ Leave(p)
    /\ UNCHANGED <<connecting, session, kms_lock, answered, loop, act,
                   socketVars>>

\* The Connected event is dropped when the channel is full (try_send).
ConnectSucceeds(p) ==
    /\ At(p, "up")
    /\ connected' = TRUE
    /\ outbox' = IF outbox < Capacity THEN outbox + 1 ELSE outbox
    /\ Leave(p)
    /\ UNCHANGED <<connecting, session, kms_lock, answered, loop, act,
                   socketVars>>
-----------------------------------------------------------------------------
\* disconnect()

LeaveMercury(p) ==
    /\ At(p, "leave")
    /\ SocketDisconnect(p)
    /\ To(p, "leave_wait")
    /\ UNCHANGED <<connected, connecting, session, kms_lock, answered, loop,
                   act, outbox>>

MercuryLeft(p) ==
    /\ At(p, "leave_wait") /\ sock[p] = "ok"
    /\ Goto(p, "idle")
    /\ To(p, "unregister")
    /\ UNCHANGED <<connected, connecting, session, kms_lock, answered, loop,
                   act, outbox, flags, attempts, stability, reader,
                   events>>

\* The device is only unregistered if a registration is stored; a failure is
\* only logged.
Unregister(p) ==
    /\ At(p, "unregister")
    /\ device' \in IF registration = "some" THEN {"none", device} ELSE {device}
    /\ To(p, "forget")
    /\ UNCHANGED <<connected, connecting, registration, kms, responder, bot,
                   kms_lock, answered, loop, act, outbox, socketVars>>

\* Mutant: the bot's id is dropped first.
MutantForgetRegistration(p) ==
    /\ At(p, "forget")
    /\ registration' = "none" /\ bot' = "none"
    /\ To(p, "kms_none")
    /\ UNCHANGED <<connected, connecting, device, kms, responder, kms_lock,
                   answered, loop, act, outbox, socketVars>>

ForgetRegistration(p) ==
    /\ At(p, "forget")
    /\ registration' = "none"
    /\ To(p, "kms_none")
    /\ UNCHANGED <<connected, connecting, device, kms, responder, bot, kms_lock,
                   answered, loop, act, outbox, socketVars>>

\* Mutant: the client is dropped without the mutex.
MutantDropClient(p) ==
    /\ At(p, "kms_none")
    /\ kms' = NoOne
    /\ To(p, "responder_none")
    /\ UNCHANGED <<connected, connecting, registration, device, responder, bot,
                   kms_lock, answered, loop, act, outbox, socketVars>>

DropClient(p) ==
    /\ At(p, "kms_none") /\ kms_lock = NoOne
    /\ kms' = NoOne
    /\ To(p, "responder_none")
    /\ UNCHANGED <<connected, connecting, registration, device, responder, bot,
                   kms_lock, answered, loop, act, outbox, socketVars>>

DropResponder(p) ==
    /\ At(p, "responder_none")
    /\ responder' = NoOne
    /\ To(p, "bot_none")
    /\ UNCHANGED <<connected, connecting, registration, device, kms, bot, kms_lock,
                   answered, loop, act, outbox, socketVars>>

\* The end of disconnect(); reconnect() goes on with the check of connect(),
\* which refuses when another call is connecting or connected.
DropBot(p) ==
    /\ At(p, "bot_none")
    /\ bot' = "none"
    /\ IF api[p].op = "reconnect" /\ ~connecting /\ ~connected
       THEN To(p, "begin") ELSE Leave(p)
    /\ UNCHANGED <<connected, connecting, registration, device, kms, responder,
                   kms_lock, answered, loop, act, outbox, socketVars>>
-----------------------------------------------------------------------------
\* The event loop, the activity tasks and the consumer of the events.

\* Mutant: the event loop ignores a Disconnected event.
MutantLoopTakes ==
    /\ loop = "idle" /\ events # <<>>
    /\ events' = Tail(events)
    /\ loop' = "idle"
    /\ UNCHANGED <<connected, answered, act, connecting, session, kms_lock, api,
                   outbox, flags, attempts, stability, reader, sock>>

\* The loop takes an event: a KMS answer resolves the waiting handshake, an
\* activity gets a task, everything else is sent on.
LoopTakes ==
    /\ loop = "idle" /\ events # <<>>
    /\ events' = Tail(events)
    /\ LET e == Head(events) IN
         \/ /\ e = "kms"
            /\ answered' = [p \in Callers |->
                  answered[p] \/ (At(p, "handshake") /\ responder = kms)]
            /\ UNCHANGED <<connected, loop, act>>
         \/ /\ e = "activity"
            /\ \E a \in Acts : act[a] = "none" /\ act' = [act EXCEPT ![a] = "waiting"]
            /\ UNCHANGED <<connected, loop, answered>>
         \/ /\ e \notin {"kms", "activity"}
            /\ connected' = (connected /\ e \notin DisconnectReasons)
            /\ loop' = e
            /\ UNCHANGED <<answered, act>>
    /\ UNCHANGED <<connecting, session, kms_lock, api, outbox, flags, attempts,
                   stability, reader, sock>>

\* event_tx.send(..).await: waits while the channel is full.
LoopSends ==
    /\ loop \notin {"off", "idle"} /\ outbox < Capacity
    /\ outbox' = outbox + 1
    /\ loop' = "idle"
    /\ UNCHANGED <<connected, connecting, session, kms_lock, api, answered, act,
                   socketVars>>

\* An activity task takes the mutex for the whole of handle_activity_static.
ActLocks(a) ==
    /\ act[a] = "waiting" /\ kms_lock = NoOne
    /\ IF kms # NoOne
       THEN kms_lock' = a /\ act' = [act EXCEPT ![a] = "routing"]
       ELSE UNCHANGED kms_lock /\ act' = [act EXCEPT ![a] = "none"]
    /\ UNCHANGED <<connected, connecting, session, api, answered, loop, outbox,
                   socketVars>>

\* The activity is dropped (a self-message, an unknown verb), or its message or
\* decryption error is to be sent.
ActRoutes(a) ==
    /\ act[a] = "routing"
    /\ \/ act' = [act EXCEPT ![a] = "none"] /\ kms_lock' = NoOne
       \/ act' = [act EXCEPT ![a] = "sending"] /\ UNCHANGED kms_lock
    /\ UNCHANGED <<connected, connecting, session, api, answered, loop, outbox,
                   socketVars>>

\* event_tx.send(..).await, still under the mutex.
ActSends(a) ==
    /\ act[a] = "sending" /\ outbox < Capacity
    /\ outbox' = outbox + 1
    /\ act' = [act EXCEPT ![a] = "none"]
    /\ kms_lock' = NoOne
    /\ UNCHANGED <<connected, connecting, session, api, answered, loop,
                   socketVars>>

\* The application receives an event (external); the Receiver cannot while it
\* awaits a call of its own.
AppReceives ==
    /\ outbox > 0
    /\ Receiver \in Callers => At(Receiver, "idle")
    /\ outbox' = outbox - 1
    /\ UNCHANGED <<connected, connecting, session, kms_lock, api, answered,
                   loop, act, socketVars>>

IsActivity(e) == e = "activity"

\* Mercury delivers an activity (as long as a task is free for it: Acts bounds
\* them), or the answer to a handshake under way.
Deliver(c) ==
    /\ \/ /\ Cardinality({a \in Acts : act[a] # "none"})
             + Len(SelectSeq(events, IsActivity)) < Cardinality(Acts)
          /\ Receive(c, "activity")
       \/ (\E p \in Callers : At(p, "handshake")) /\ Receive(c, "kms")
    /\ UNCHANGED handlerVars
-----------------------------------------------------------------------------
Api(p) ==
    \/ Begin(p) \/ Register(p) \/ FetchBot(p) \/ StoreResponder(p) \/ StoreClient(p)
    \/ CallMercury(p) \/ MercuryReturns(p) \/ StartLoop(p) \/ InitKms(p)
    \/ HandshakeEnds(p) \/ StoreRegistration(p) \/ ConnectEnds(p)
    \/ ConnectSucceeds(p) \/ LeaveMercury(p) \/ MercuryLeft(p) \/ Unregister(p)
    \/ ForgetRegistration(p) \/ DropClient(p) \/ DropResponder(p)
    \/ DropBot(p)

EventLoop == LoopTakes \/ LoopSends

Next ==
    \/ \E p \in Callers : \/ Connect(p)
                          \/ \E op \in {"disconnect", "reconnect"} : Disconnect(p, op)
                          \/ Api(p)
    \/ EventLoop
    \/ \E a \in Acts : ActLocks(a) \/ ActRoutes(a) \/ ActSends(a)
    \/ AppReceives
    \/ \E c \in Conns : Deliver(c)
    \/ SocketStep /\ UNCHANGED handlerVars

Spec == Init /\ [][Next]_vars

\* tokio runs every task that can run, its mutexes serve their waiters in FIFO
\* order, HTTP calls, dials and sleeps end, and the application keeps receiving.
FairSpec ==
    /\ Spec
    /\ \A p \in Callers : /\ SF_vars(Api(p))
                          /\ WF_vars(CallStep(p) /\ UNCHANGED handlerVars)
    /\ \A c \in Conns : WF_vars(CloseStep(c) /\ UNCHANGED handlerVars)
    /\ \A a \in Acts : SF_vars(ActLocks(a)) /\ WF_vars(ActRoutes(a) \/ ActSends(a))
    /\ WF_vars(EventLoop)
    /\ WF_vars(AppReceives)
-----------------------------------------------------------------------------
\* Properties.

\* While connected() may answer true there is a KMS client to decrypt with, a
\* stored registration and a running event loop.
ReadyWhenConnected ==
    connected => kms # NoOne /\ registration = "some" /\ loop # "off"

\* Whenever an activity task can find a KMS client to decrypt with, the filter for
\* the bot's own messages is armed: connect_internal stores the id before the
\* client, disconnect() drops it after the client.
FilterArmed == IgnoreSelf /\ kms # NoOne => bot = "some"

\* The KMS client is stored, replaced and dropped only while no handshake and no
\* activity task uses it: connect() and disconnect() wait for the mutex that these
\* hold across their awaits, the send into a full event channel included.
ClientKeptInUse ==
    [][kms' # kms => /\ \A a \in Acts : act[a] \notin {"routing", "sending"}
                     /\ \A p \in Callers : ~At(p, "handshake")]_vars

\* Every Close frame is reported: the event loop gets to send a Disconnected
\* event (handle_close_static, start_mercury_event_loop).
CloseReported ==
    \A c \in Conns : (reader[c].phase = "closing") ~> (loop \in DisconnectReasons)

\* connect(), disconnect() and reconnect() return, although they wait for the
\* mutex that activity tasks hold while the event channel is full.
CallsReturn == \A p \in Callers : ~At(p, "idle") ~> At(p, "idle")

InConnect(p) ==
    api[p].pc \in {"begin", "register", "bot", "responder", "client", "mercury",
                   "mercury_wait", "start", "init", "handshake", "store",
                   "done", "fail"}

\* At most one connect() is past its check ("connect() already in progress").
OneConnectAtATime ==
    \A p, q \in Callers : InConnect(p) /\ InConnect(q) => p = q

\* A lost connection is reported: connected does not stay set when no connection
\* answers any more, because it ended or because it fell silent (rust/API.md:
\* Disconnected is "Fired when disconnected"; PORTING.md: "If pong doesn't arrive
\* within ~14 seconds, consider the connection dead and reconnect").
Answering == \E c \in Conns : reader[c].phase = "open"
LossReported == (connected /\ ~Answering) ~> (~connected \/ Answering)

\* "reconnect-needed" is only reported while the socket is down, so that the
\* connect() it asks for replaces no live connection (rust/API.md).
ReconnectNeededWhenDown ==
    [][(loop' = "reconnect-needed" /\ loop = "idle") => ~ws_connected]_vars
=============================================================================
