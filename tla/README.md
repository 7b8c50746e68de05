# TLA+ verification of webex-message-handler

webex-message-handler receives and decrypts Webex messages. It exists four times
(Rust, Go, Node, Python), with the same parts and different concurrency. This
project models the Rust library, checks the models with TLC and proves their safety
properties, and that the KMS client implements its abstract specification, with TLAPS.

## 1. Inventory

| Part | State | Operations | Talks to |
|---|---|---|---|
| DeviceManager | `device_url`, `wdm_devices_url` | register (list, refresh, create, reap), refresh, unregister, discover | WDM and U2C over HTTP |
| MercurySocket | connected / should-reconnect flags, attempt counter, stability timer, one reader per connection | connect, disconnect, close handling with backoff, ping | Mercury over WebSocket; events to the handler |
| KmsClient | ECDH context and its expiry, key cache, circuit breaker, FIFO of pending requests | initialize, get_key, send_kms_request, handle_kms_message | KMS: request over HTTP, answer over Mercury |
| Handler | connected / connecting flags, registration, KMS client, bot id, recent activity ids | connect, disconnect, reconnect, status, event loop, activity routing | all of the above; events to the application |
| MessageDecryptor, mention parser, validation, ids | none | pure functions | KmsClient.get_key |

How they interact (Rust): the application's tasks call `connect`, `disconnect` and
`reconnect`. `connect` registers a device, publishes a KMS response handler and a
KMS client, opens Mercury, starts the event loop (once) and initializes the KMS,
whose answer comes back through the socket's channel and the event loop. Every
activity gets a task of its own that holds the `kms_client` mutex until its event
is in the bounded channel to the application.

What is hard here: a request goes out over HTTP and its answer comes back over
another connection, unlabelled, possibly after a timeout; flags of the socket are
shared by the read loops of several connections; read loops sleep and go on with
what they knew; tasks wait for each other through a mutex and a bounded channel;
`connect` may fail half-way; WDM may do what it was asked although the client sees
an error; several processes share one account. `PROJECT.json` lists these hazards
line by line.

What makes the parts correct:

* DeviceManager: never touches foreign devices, does not leak devices, the
  registration it returns exists.
* MercurySocket: its flag tells the truth, a flap storm reaches the cap, every loss
  is reported.
* KmsClient: a key is cached under its own URI; the breaker opens only after real
  failures and then lets nothing through; no answer that Mercury loses blocks a call.
* Handler: connected means usable; calls return; disconnect undoes connect; the
  application sees every message once, none of its own, and no ciphertext as card
  inputs.
* Decryption and routing: what is opened is opened with the activity's own key; what
  cannot be opened is reported or left out; every delivery is accounted for.

## 2. Modules

How they fit together:

    RustKmsClient --implements--> KeyService <--relies on-- RustActivity
                                                                | extends
    RustHandler --extends--> RustMercurySocket              RustRouting
    RustDeviceManager

RustHandler treats the KMS handshake, the registration and the work of an activity
task as single steps with all their outcomes; the other modules have their detail.

### KeyService

What a KMS client promises to its callers: one caller at a time asks for the key of
a URI and gets that key or an error, and the keys that are kept are right ones, at
most one more than the limit. No context, no retry, no breaker, no KMS.

### RustKmsClient (`rust/src/kms_client.rs`)

A call into the client is a frame `call[t]` of the task `t`; a step is the code between
two awaits. `lock` is the handler's `kms_client` mutex, `pending` the `pending_requests`
queue, `atKms` what the KMS has not answered (external), `eph` and `validity` the ECDH
context and its expiry, `cb_state`, `cb_failures`, `cooldown` the breaker, and the
history `row` the number of `get_key` calls in a row that failed on the way to a key, by
whatever exit. Abstractions: a key is the URI it belongs to; a context is the id of the
request that created it; the cryptography is the predicate `Unwraps` (the JWE that
answers a *create* opens only with the key of that very request, the JWE that answers a
*retrieve* with the context's key whatever URI it was for, and a JWS without any key). A
malformed JWE that panics leaves the client as an error does; what the caller's task
loses is in RustActivity. `HttpStep` are the steps that wait for an HTTP reply,
`TaskStep` those a task takes by itself or by a timer. Timeouts, cooldown and expiry
happen at any moment. A cache hit changes nothing and has no action. `LateAnswers` says
whether the KMS may still answer a request that was given up.

Refinement (`ImplementsKeyService`): `keys` is `key_cache`, and `asked[t]` the URI of a
`get_key` call of `t` under way. The first step of `get_key` is `Ask` (or `TurnAway`, or
nothing, when the open breaker refuses at once), `KeyRetrieved` is `Answer`, every other
way to return is `Fail`, and all the rest is invisible.

### RustRouting (`handler.rs`, `message_decryptor.rs`, `jwe.rs`, `mention_parser.rs`, `types.rs`)

What becomes of one activity, as operators: the class of an activity by verb and
object type, the self-message filter, room type, the key URL (activity, object,
target, in this order), which field opens with which key and what happens when one
does not (`displayName` and `content` stay as they are, card inputs are left unset),
`finalize_inputs`, and the mentions of an HTML body. A JWE is what its opening depends
on: its algorithm, the key it was sealed with and its shape (good, not parseable, a
key part of fewer than 8 bytes, an IV of another length than 12, not UTF-8 inside).
The two shapes `short` and `badiv` make the code panic, and the activity's task with
it. An HTML body is the sequence of its mention tags; the loop over them has the one
`seen` set of the code, in which a person is its id and a group the string `GroupKey` of
its type, which may also be a person's id. A person is a UUID that may come as a REST id.

### RustActivity (`handler.rs`)

The event loop gives every delivery a task; a task takes the `kms_client` mutex, asks
KeyService if a key is needed, decrypts, routes, waits for room in the channel to the
application, sends its event and ends; the mutex is held to the end. Three things make
it end without its event (`Lose`): `disconnect()` took the client (`NoClient`), a field
or an answer of the KMS makes it panic (`Process`, `KeyPanics`), the application dropped
its receiver (`SendFails`). `StoreClient` and `DropClient` are the stores of `connect()`
and `disconnect()`, `Redeliver` is Mercury sending an activity again, `AppReceives` and
`AppLeaves` are the application. `log`, `sent` and `lost` are histories: what was
delivered, what was sent and what ended without an event. `recent_activity_ids` is left
out, because the code sweeps it and never inserts into it (the run
`rust_activity_replay` is about that).

### RustMercurySocket (`rust/src/mercury_socket.rs`)

`reader[c]` is the read loop of connection `c`, `sock[p]` the progress of `p`'s call of
connect or disconnect, `stability` the timer task, `events` the unbounded channel.
Each flag has its own mutex in the code, so each lock acquisition is a step:
`HandleClose`, `CloseCancels`, `CloseRetries`, `CountAttempt`, `BackoffEnds` are the
successive critical sections of `handle_close_static`. Close codes are three
classes (4401; 4400 and 4403; other). Connection ids are reused when a read loop has
ended. `FallSilent` is a half-open connection: it stays up and nothing comes any more.
The ping loops only send and no pong is awaited, so they have no action and nothing
notices the silence until the network reports an error. A stream that ends without
Close or error cannot be seen by the read loop (tungstenite ends its stream only after
a Close frame) and is left out.

### RustHandler (`rust/src/handler.rs`) extends RustMercurySocket

`api[p].pc` walks through `connect` / `connect_internal`, `disconnect` and
`reconnect`. `kms` and `responder` name the call that created the client and the
response handler, so that mixed-up pairs of concurrent connects are visible; `bot` is
`bot_person_id`. `loop` is the event loop (`off`, `idle`, or the event it waits to
send), `act[a]` an activity task, `outbox` the fill of the bounded channel. `Receiver`
names the calling task that also receives the events, if the application is built
that way. The arm for `MercuryEvent::Connected` is dead code, since the socket never
sends it. `connected()`, `status()` and the other accessors only read.

### RustDeviceManager (`rust/src/device_manager.rs`)

One step per HTTP exchange; WDM's effect and what the client learns are chosen
separately (lost answers, answers that fail the URL validation). The history
variable `answers` remembers whether every list and refresh got its answer so far.
Several `Clients` share an account; `Foreign` devices belong to other programs. A 403
sends a client to the reaping whatever its reason, and a reply without a `url` is taken
for a registration (`EmptyUrl`), as the code does. The U2C discovery is left out: it only
picks the base URL of the requests.

### MC modules

Symmetry sets, and for RustActivity the activities that Mercury delivers: every class
of activity by the bot and by a person, every kind of JWE under every place of the key
URL, and HTML bodies with three tags, a person whose id is the key of a group among them.

## 3. Runs

| Run | Result | What it shows |
|---|---|---|
| `rust_kms` | holds | one request in flight; keys under their own URIs; the breaker opens only after its threshold of failed calls; no retrieval while open; a miss stays a miss until its call ends; a good answer opens whenever the context expires; every call returns whose HTTP requests end; the client implements KeyService |
| `rust_kms_late` | violated | an answer after a timeout is given to the next request: wrong key under a URI |
| `rust_activity` | holds | no self-message, no ciphertext as inputs, no mixed-up keys, mentions once and in order; sent, lost and working tasks account for every delivery; who works holds the mutex and its client, and no end of a task keeps the mutex; no two tasks use the key service at once |
| `rust_activity_replay` | violated | an activity that is delivered again is reported again |
| `rust_handler` | holds | the socket's flag implies a running read loop; channel and counter within their bounds; connected implies client, registration, loop; the self-message filter is armed whenever there is a client |
| `rust_handler_live` | holds | connect and disconnect (reconnect is one after the other) return although activity tasks block on the full channel under the mutex; every Close frame ends in a Disconnected event; the KMS client is stored, replaced and dropped only while nobody uses it |
| `rust_handler_receiver` | violated | connect or disconnect called from the task that receives the events never returns |
| `rust_handler_two_connects` | violated | two connects pass the check |
| `rust_handler_loss` | violated | a socket error or a silent connection is never reported as a disconnect |
| `rust_handler_stale_event` | violated | `reconnect-needed` of an old connection hits a new one |
| `rust_device` | holds | foreign devices kept; a registration exists, whatever answers are lost; one device at most as long as list and refresh are answered |
| `rust_device_reap` | violated | reaping deletes the device of another client |

The violated properties state what a document or comment of the repository says;
`findings` in `PROJECT.json` quotes it.

Seen in the code while modelling, and visible in the models, but without a run of
their own:

* A failed renewal (kms_client.rs:340) and a bad answer (389-411) leave `get_key` by `?`
  and are not counted: any number of consecutive failed fetches may leave the breaker
  closed, against CHANGELOG.md:209 "After 3 consecutive KMS key fetch failures, the
  circuit breaker opens" and rust/README.md:258. `OpensOnlyAfterFailures` is the direction
  the code keeps. The renewal also comes before the look at an open breaker (338), so such
  a call does not fail fast.
* The cache is cleared by `>` before an insert (kms_client.rs:332) and so holds up to 101
  keys; THREAT_MODEL.md:283 says "bounded at 100 entries", DESIGN_REVIEW.md:108 "max 100".
  KeyService has the comparison of the code.
* The HTTP requests have no timeout (handler.rs:90-130): a POST that never ends holds the
  `kms_client` mutex for ever. `EveryCallReturns` is about calls whose requests end.
* The stability timer survives a connection that ended by an error or before the timer
  was scheduled (mercury_socket.rs:113) and then clears the attempt counter, which
  rust/API.md:118-121 promises only for a connection that holds.
* `MercurySocket::disconnect` leaves the WebSocket and its read loop open
  (mercury_socket.rs:460), and a `connect` that failed after registering leaves a device
  that `disconnect` does not remove (handler.rs:718), against rust/API.md:47.
* A failed list or refresh creates a second device (device_manager.rs:142), against the
  comment at 133-134, which is why `OneOwnDevice` speaks of the time until an answer is
  lost.
* An acknowledged activity leaves no event if `disconnect()` took the client before its
  task got the mutex (handler.rs:446), or if its decryption or the unwrapping of the KMS's
  answer panics (jwe.rs:209, 297, 400). `NoneLost` counts these among the lost.
* A person whose id is `group:all` hides the mention of the group `all`
  (mention_parser.rs:55); `MentionsInOrder` is about the keys of the shared set.

Bounds. `rust_kms`: two tasks contend for the mutex; three URIs exceed a cache limit of
one and a late answer needs two; four request ids cover context, current request and two
abandoned ones; two attempts give one retry; the threshold of 3 is the code's.
`MaxFailures` stops the cooldown, so the count stays finite, after the breaker has been
opened and probed. No symmetry, because the run checks liveness. `rust_activity`: two
tasks, so that one waits for the mutex of the other; two deliveries, the second of which
may be the first one again; a channel of one, so that the second event waits for room; a
cache limit of 0, so that the second question finds a cache that is cleared; two URIs,
so that a field can be sealed with another key than the activity names. The tasks are
symmetric. Deadlock is not checked: after the last delivery and with the application
gone the system may stop. `rust_handler`: one caller (concurrent calls are the subject
of `rust_handler_two_connects`), two connections so that an old read loop meets a new
connection, a cap of one attempt so that it is reached, a channel of one so that it is
full. `MaxEvents` keeps Mercury and the application from adding to a backlog; it never
stops a step of the library. `rust_handler` has no activity tasks (they touch the mutex
and the channel only); `rust_handler_live` has one, with one connection. `rust_device`:
three devices of ours and a foreign one under a cap of three reach the 403 path.

Fairness. `RustKmsClient`: weak fairness of `TaskStep`, what a task does by itself:
tokio runs ready tasks and timers fire. Nothing is assumed of the KMS, nor of the HTTP
requests, for which the code sets no timeout; `EveryCallReturns` has their ending as its
premise, `[]<>~InHttp(t)`. `RustActivity` states no liveness: whether a task ends is up
to the HTTP requests of its key and to the application, which has to make room in the
channel (the run `rust_handler_receiver` shows it otherwise). `RustHandler`: weak
fairness of the calls, the read loops after a Close, the event loop and the activity
tasks; strong fairness where a task waits for a `tokio::sync::Mutex`; and weak fairness
of the application's receiving, without which a bounded channel blocks by design. In
`RustHandler` registration, handshake and dial are single steps that are assumed to end.
Mercury owes nothing.

## 4. What TLC alone shows

Liveness (`EveryCallReturns`, `CallsReturn`, `CloseReported`), which is
out of the prover's reach, and all violations. Every safety property of the passing
runs, the action property `ClientKeptInUse` and the refinement are also proved.

## 5. Proofs

`RustKmsClientProofs`, for any number of tasks, URIs, ids and any limits:

* `ClientInv` is inductive: the types; `FrameOK` (what a frame in each phase holds);
  `HolderRuns` (a call is under way exactly while its task holds the mutex);
  `AnswerTaken` (an answer that is there has used up the pending entry); `CountOK` (the
  breaker is closed exactly below the threshold of its own counter); and the properties
  `SingleInFlight` and `NoRetrieveWhileOpen`.
  `SingleInFlight` alone is not inductive: that a new request finds an empty queue
  needs `HolderRuns` and `AnswerTaken` (lemma `NothingPending`).
* Theorems `TypeCorrect`, `OneRequestInFlight` and `BreakerStopsRetrieval` follow.
* `BreakerHasCause` (`OpensOnlyAfterFailures`) relates the breaker to the calls:
  `RowInv`, the counter is at most the failures in a row (or these have reached the
  threshold), holds because every counted failure is a failed call and a success clears
  both; with `CountOK` a breaker that is not closed has its threshold of failed calls
  behind it.
* `KeysMatch`: with `~LateAnswers`, a key is cached only under its own URI. The
  strengthening `OwnAnswer` says that what the KMS has is the request of the mutex's
  holder and that an answer taken belongs to the request of its call. The run
  `rust_kms_late` shows that the assumption is needed.

`RustKmsServiceProofs`, on top of it:

* `CacheInv`: the cache is within its limit while somebody's question is open, which the
  clearing at the start of `get_key` establishes and the mutex preserves.
* `ClientServesKeys`: with `~LateAnswers` the client implements KeyService. Lemma
  `OtherSteps` shows that all steps but the first and the last of `get_key` leave the cache
  alone and keep or drop a question; `ServiceStep` maps every step, with `OwnAnswer` for
  the right key and `CacheInv` for the room.
* `MissesStayMisses`, also with late answers: the key that `get_key` missed at its start is
  still missing at its end. `MissInv` says so of every open question; a first step asks
  for what is not there, and when a last step fills the cache no other question is open.
* `GoodAnswersOpen`: with `~LateAnswers` every answer that holds a key opens for its caller.
  It follows from `OwnAnswer`, whose `RequestOf` names the context of the moment: no context
  is replaced while an answer under it is on its way, and no handshake gets the answer of
  a retrieval.

`RustMentionsProofs`, for every sequence of tags:

* `MentionsListed`: the loop of `parse_mentions` lists, per type, the mentions whose key
  no earlier mention of either type has, in order. The proof is an induction over the
  tags read so far. The library's induction theorems take an operator and cannot be
  instantiated here, so `NatSetInduction` states induction for a *set* of numbers, from
  the well-foundedness of `<`. `MentionsLoop` gives the recursive function its
  equations. `Listed` relates the two lists and the `seen` set to the tags read so far,
  and `ListedStep` is the step: a tag with a new key is appended to its list at the rank
  of its position (`First`), one whose key was seen changes neither the lists nor the
  sets of first occurrences (`NotFirst`).

`RustActivityProofs`, for any set of activities, any number of tasks, persons and keys:

* `NoSelfMessageSent`, `NoCiphertextSent`, `OnlyOwnKeyOpens`, and `MentionsSentInOrder` with
  `MentionsListed`. Lemmas about the routing
  (`RouteEvent`, `OpensWithItsKey`, `RouteDecryptedFits`) show that what is routed for a
  finalized activity fits; `ActivityInv` carries that through the tasks: they hold
  finalized activities, the service keeps every key under its own URI and is asked for
  the URL of the asking task's activity, and the event that a task waits to send fits.
  They are about `KeyService`; `ClientServesKeys`
  says when the KMS client is one.

`RustDeliveryProofs`, on top of it, for any number of tasks and deliveries:

* `NothingLost`. It is not inductive; it follows from a conservation law, `CountInv`: of
  every activity, the events sent, the tasks lost and the tasks at work on it are at most
  its deliveries, and exactly as many if it is one to report. A delivery adds one to both
  sides (`SpawnCounts`); the end of a task moves one from the tasks at work to the events or
  to the lost (`EndCounts`, `LoseCounts`), or drops it if there is nothing to report
  (`FinishCounts`). `ReportedAnyway` shows that whether an activity is reported depends
  neither on its key nor on what opened.
* `WorkersKeepClient`: from `MutexOK` (a task at work holds the mutex and has its client, and
  asks exactly while it waits for the answer): every way out of a task, a panic included,
  gives the mutex back, and `connect()` and `disconnect()` change the client only when they
  have it.
* `TasksKeepServiceReady`: who comes to ask finds nobody asking, and the key it waits for
  can still be kept, from `MutexOK` and `HeldOK` (there is room while somebody waits). These
  are the guards of `Ask` and `Answer` in KeyService, which the code does not test: with
  this theorem they exclude no behaviour of the handler.
* `ActivityTypeCorrect`.

`RustHandlerProofs`, for any number of connections and activity tasks:

* `HandlerTypeCorrect` and `FlagMeansOpen`, for any number of callers too, from `SocketInv`.
* `ClientStaysInUse`, for any number of overlapping calls: the client is stored, replaced or
  dropped only while no handshake and no activity task uses it. `MutexInv`: who uses the
  client holds the mutex; `ClientChanges`: the client only changes while it is free.
* `ConnectedIsReady` and `FilterStaysArmed`, if one task makes all calls. `OneCallerInv` says
  what each point of `connect` and `disconnect` has behind it, and that the handler is
  connected between two calls only.

`RustDeviceManagerProofs`, for any number of devices and any cap:

* `DeviceInv` (types, foreign devices kept, and `DeletesOwn`: what a client may delete
  passed the comparison of name and type) gives `DeviceTypeCorrect` and
  `ForeignDevicesKept`, for any number of clients.
* `ReuseKeepsOneDevice`: one client never has a second device until a list or refresh
  goes unanswered. `ReuseInv`: a client about to create has none, one about to
  refresh names one that exists.
* `RegistrationExists`: one client's registration names a device that WDM has, whatever
  answers are lost.

Assumptions: the named `ASSUME`s of the modules, which TLC evaluates in every run.

## 6. Not modelled, and the plan

Out of the models: the cryptography of JWE and JWK (only what opens with what, and
what panics), HTTP and TLS, logging, and the stateless helpers: `url_validation.rs` (its
refusal of a URL is one of the failures of a registration), `errors.rs`, the REST id
encoders of `id_utils.rs`, accessors and `status()`.

The Go, Node and Python ports are implementations of their own, each with another
concurrency, and no part of the Rust crate uses them. Their hazards that differ from the
Rust ones are listed in `PROJECT.json` without a property.

Plan, in order:

1. Go: `GoMercurySocket` (it reconnects by itself, awaits pongs, guards reconnect),
   `GoKmsClient` (its own request lock, a map of pending requests) against KeyService.
2. Node and Python: the same parts between awaits: request lock, breaker with a
   cooldown that rejected calls push out, listeners removed by disconnect, lost
   reconnects.
3. Proofs: what is left of the handler's guarantees when calls of several tasks overlap
   (`ReadyWhenConnected` and `FilterArmed` are proved for calls that do not), and of the
   device manager's when several clients share an account.
