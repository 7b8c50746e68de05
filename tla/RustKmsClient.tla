--------------------------- MODULE RustKmsClient ---------------------------
(***************************************************************************)
(* The Rust KmsClient (rust/src/kms_client.rs): key retrieval through the  *)
(* KMS with a key cache, a bounded retry, a circuit breaker and an ECDH    *)
(* context that expires.  A request is POSTed over HTTP and its answer     *)
(* comes back over Mercury; KmsResponseHandler gives every answer to the   *)
(* first pending request, without looking at what the answer is for.       *)
(*                                                                         *)
(* Every caller (an activity task, or connect() itself) holds the          *)
(* handler's kms_client mutex for the whole call, across its awaits.  The  *)
(* steps below are the stretches of code between two awaits.               *)
(*                                                                         *)
(* Data: a key is represented by the URI it belongs to, an ECDH context by *)
(* the id of the request that created it.  Time: a timeout, the cooldown   *)
(* and the expiry of the context are steps that may happen at any moment.  *)
(* A cache hit returns without a state change and needs no action.         *)
(***************************************************************************)
EXTENDS Naturals, Sequences, FiniteSets

CONSTANTS
    Tasks,                \* tasks that call into the client
    Uris,                 \* key URIs
    ReqIds,               \* request ids (UUIDs in the code)
    NoTask, NoUri, NoReq, NoResp,
    KMS_ATTEMPTS,         \* MAX_KMS_ATTEMPTS
    MAX_PENDING_REQUESTS,
    MAX_KEY_CACHE_SIZE,
    CB_FAILURE_THRESHOLD,
    MaxFailures,          \* bound: no cooldown is explored past this count
    LateAnswers           \* may KMS answer a request its caller gave up on?

ASSUME ConstantsAssumption ==
    /\ NoTask \notin Tasks /\ NoUri \notin Uris /\ NoReq \notin ReqIds
    /\ KMS_ATTEMPTS \in Nat \ {0}
    /\ MAX_PENDING_REQUESTS \in Nat \ {0}
    /\ MAX_KEY_CACHE_SIZE \in Nat
    /\ CB_FAILURE_THRESHOLD \in Nat \ {0}
    /\ MaxFailures \in Nat
    /\ LateAnswers \in BOOLEAN

\* What the KMS is asked: "create" a context or "retrieve" the key of a URI
\* under the context ctx.
Request == [id : ReqIds, method : {"create", "retrieve"},
            uri : Uris \cup {NoUri}, ctx : ReqIds \cup {NoReq}]

\* An answer names its request inside the wrapped body only: a JWE ("key"), a JWS
\* that anybody can read ("signed"), or something without a usable key ("error").
Bodies == {"key", "signed", "error"}
Response == [req : Request, body : Bodies]

ASSUME NoRespAssumption == NoResp \notin Response

VARIABLES
    lock,          \* holder of the handler's kms_client mutex
    call,          \* call[t]: the frame of t's call into the client
    pending,       \* pending_requests, a FIFO of (id, task that waits)
    atKms,         \* requests the KMS has and has not answered, in order
    key_cache,     \* key_cache[u]: the URI whose key is cached under u
    eph,           \* ephemeral_key (NoReq: None, not initialized)
    validity,      \* of the context; "expired" when is_context_expired()
    cb_state, cb_failures,
    cooldown,      \* "elapsed" once CB_COOLDOWN has passed since
                   \* cb_last_failure
    row            \* history: get_key calls in a row that failed on the way to
                   \* a key, counted up to CB_FAILURE_THRESHOLD

vars == <<lock, call, pending, atKms, key_cache, eph, validity, cb_state,
          cb_failures, cooldown, row>>
breaker == <<cb_state, cb_failures, cooldown>>
context == <<eph, validity>>

\* op: why the request is sent - connect() initializes the context, get_key
\* renews an expired one, or get_key retrieves a key.
\* "posting": the POST is on its way, "posted": the KMS has it; "refused" and
\* "failed" are the errors that is_retryable_kms_error tells apart.
Call == [phase : {"idle", "details", "posting", "posted", "waiting", "refused",
                  "failed"},
         op : {"connect", "renew", "retrieve"}, uri : Uris \cup {NoUri},
         attempt : Nat, req : ReqIds \cup {NoReq},
         resp : Response \cup {NoResp}]

IdleCall == [phase |-> "idle", op |-> "connect", uri |-> NoUri, attempt |-> 0,
             req |-> NoReq, resp |-> NoResp]

Pending == [id : ReqIds, to : Tasks]

CbStates == {"Closed", "Open", "HalfOpen"}

ClientTypeOK ==
    /\ lock \in Tasks \cup {NoTask}
    /\ call \in [Tasks -> Call]
    /\ pending \in Seq(Pending)
    /\ atKms \in Seq(Request)
    /\ key_cache \in [Uris -> Uris \cup {NoUri}]
    /\ eph \in ReqIds \cup {NoReq}
    /\ validity \in {"valid", "expired"}
    /\ cb_state \in CbStates
    /\ cb_failures \in Nat
    /\ cooldown \in {"running", "elapsed"}

TypeOK == ClientTypeOK /\ row \in 0..CB_FAILURE_THRESHOLD

\* KmsClient::new
Init ==
    /\ lock = NoTask
    /\ call = [t \in Tasks |-> IdleCall]
    /\ pending = <<>>
    /\ atKms = <<>>
    /\ key_cache = [u \in Uris |-> NoUri]
    /\ eph = NoReq
    /\ validity = "expired"
    /\ cb_state = "Closed"
    /\ cb_failures = 0
    /\ cooldown = "running"
    /\ row = 0
-----------------------------------------------------------------------------
\* Helpers.

Cached == {u \in Uris : key_cache[u] # NoUri}

\* Vec::retain(|(id, _)| id != request_id); ids are unique in a queue.
Without(s, id) ==
    IF \E k \in DOMAIN s : s[k].id = id
    THEN LET k == CHOOSE k \in DOMAIN s : s[k].id = id
         IN  SubSeq(s, 1, k - 1) \o SubSeq(s, k + 1, Len(s))
    ELSE s

\* A UUID differs from every id that is still around.
FreshIds ==
    ReqIds \ ({eph} \cup {call[t].req : t \in Tasks}
                    \cup {atKms[k].id : k \in DOMAIN atKms}
                    \cup {atKms[k].ctx : k \in DOMAIN atKms})

\* The request that the frame c has built.
RequestOf(c) ==
    [id |-> c.req,
     method |-> IF c.op = "retrieve" THEN "retrieve" ELSE "create",
     uri |-> IF c.op = "retrieve" THEN c.uri ELSE NoUri,
     ctx |-> IF c.op = "retrieve" THEN eph ELSE NoReq]

\* unwrap_kms_response and the extraction of the key succeed.  A JWE that answers
\* a "create" opens with the private key of that very request, one that answers a
\* "retrieve" with the context's key - whatever URI it was asked for; a JWS opens
\* without a key.  What is inside must be of the kind that was asked for.
Unwraps(c) ==
    /\ c.resp.body # "error"
    /\ c.resp.req.method = RequestOf(c).method
    /\ c.resp.body = "key" => IF c.op = "retrieve" THEN c.resp.req.ctx = eph
                                                  ELSE c.resp.req.id = c.req

\* Mutant: the mutex is not taken.
MutantMayEnter(t) == call[t] = IdleCall

\* kms_client.lock().await returns: the mutex is free.
MayEnter(t) == lock = NoTask /\ call[t] = IdleCall

Return(t) ==
    /\ call' = [call EXCEPT ![t] = IdleCall]
    /\ lock' = NoTask

\* The call of t returns an error: one more failure in a row if it was get_key.
ReturnError(t) ==
    /\ Return(t)
    /\ row' = IF call[t].op = "connect" \/ row = CB_FAILURE_THRESHOLD THEN row
              ELSE row + 1

\* send_kms_request up to the POST: refused when the queue is full, otherwise
\* a pending entry is registered before the request leaves.
SendKmsRequest(t, op, uri, attempt) ==
    LET full == Len(pending) >= MAX_PENDING_REQUESTS
    IN  \E id \in FreshIds :
          /\ pending' = IF full THEN pending
                        ELSE Append(pending, [id |-> id, to |-> t])
          /\ call' = [call EXCEPT ![t] =
                       [phase |-> IF full THEN "refused" ELSE "posting",
                        op |-> op, uri |-> uri, attempt |-> attempt,
                        req |-> id, resp |-> NoResp]]

\* Mutant: an open breaker lets the call through without turning half-open.
MutantPassBreaker(t, u) ==
    /\ SendKmsRequest(t, "retrieve", u, 1)
    /\ lock' = t
    /\ UNCHANGED breaker

\* The circuit breaker check of get_key, then the first attempt.  A call that the
\* breaker turns away is no failure of the KMS.
PassBreaker(t, u) ==
    \/ /\ cb_state = "Open" /\ cooldown = "running"
       /\ Return(t)
       /\ UNCHANGED <<pending, breaker>>
    \/ /\ cb_state = "Open" => cooldown = "elapsed"
       /\ cb_state' = IF cb_state = "Open" THEN "HalfOpen" ELSE cb_state
       /\ SendKmsRequest(t, "retrieve", u, 1)
       /\ lock' = t
       /\ UNCHANGED <<cb_failures, cooldown>>
-----------------------------------------------------------------------------
\* Steps of the callers.

\* initialize() starts with the GET of the KMS details.
Details(op, u) == [phase |-> "details", op |-> op, uri |-> u, attempt |-> 0,
                   req |-> NoReq, resp |-> NoResp]

\* connect() calls initialize(), and so does the handler's event loop on
\* MercuryEvent::Connected.
Initialize(t) ==
    /\ MayEnter(t)
    /\ lock' = t
    /\ call' = [call EXCEPT ![t] = Details("connect", NoUri)]
    /\ UNCHANGED <<pending, atKms, key_cache, context, breaker, row>>

\* Mutant: an oversized cache is not cleared.
MutantGetKey(t, u) ==
    /\ MayEnter(t)
    /\ u \notin Cached
    /\ IF validity = "expired"
       THEN /\ lock' = t
            /\ call' = [call EXCEPT ![t] = Details("renew", u)]
            /\ UNCHANGED <<pending, breaker>>
       ELSE PassBreaker(t, u)
    /\ UNCHANGED <<atKms, key_cache, context, row>>

\* get_key(u) on a cache miss: an oversized cache is cleared; an expired
\* context is renewed before the circuit breaker is looked at.
GetKey(t, u) ==
    /\ MayEnter(t)
    /\ u \notin Cached
    /\ key_cache' = IF Cardinality(Cached) > MAX_KEY_CACHE_SIZE
                    THEN [v \in Uris |-> NoUri] ELSE key_cache
    /\ IF validity = "expired"
       THEN /\ lock' = t
            /\ call' = [call EXCEPT ![t] = Details("renew", u)]
            /\ UNCHANGED <<pending, breaker>>
       ELSE PassBreaker(t, u)
    /\ UNCHANGED <<atKms, context, row>>

\* The GET of the KMS details inside initialize() ends.
FetchDetails(t) ==
    /\ call[t].phase = "details"
    /\ \/ ReturnError(t) /\ UNCHANGED pending
       \/ SendKmsRequest(t, call[t].op, call[t].uri, 0) /\ UNCHANGED <<lock, row>>
    /\ UNCHANGED <<atKms, key_cache, context, breaker>>

\* The POST reaches the KMS (external).
PostReceived(t) ==
    /\ call[t].phase = "posting"
    /\ call' = [call EXCEPT ![t].phase = "posted"]
    /\ atKms' = Append(atKms, RequestOf(call[t]))
    /\ UNCHANGED <<lock, pending, key_cache, context, breaker, row>>

PostReturns(t) ==
    /\ call[t].phase = "posted"
    /\ call' = [call EXCEPT ![t].phase = "waiting"]
    /\ UNCHANGED <<lock, pending, atKms, key_cache, context, breaker, row>>

\* Mutant: the pending entry of an abandoned request stays in the queue.
MutantGiveUp(t) ==
    /\ atKms' = IF LateAnswers THEN atKms ELSE Without(atKms, call[t].req)
    /\ call' = [call EXCEPT ![t].phase = "failed", ![t].resp = NoResp]
    /\ UNCHANGED <<lock, pending, key_cache, context, breaker, row>>

\* The caller gives its request up: the pending entry is removed.
GiveUp(t) ==
    /\ pending' = Without(pending, call[t].req)
    /\ atKms' = IF LateAnswers THEN atKms ELSE Without(atKms, call[t].req)
    /\ call' = [call EXCEPT ![t].phase = "failed", ![t].resp = NoResp]
    /\ UNCHANGED <<lock, key_cache, context, breaker, row>>

\* The POST fails, or its reply is lost after the KMS took the request.
PostFails(t) == call[t].phase \in {"posting", "posted"} /\ GiveUp(t)

\* Mutant: the wait for the answer has no timeout.
MutantResponseTimeout(t) ==
    /\ call[t].phase = "waiting" /\ call[t].resp = NoResp
    /\ UNCHANGED vars

\* KMS_RESPONSE_TIMEOUT elapses; an answer that is already there wins.
ResponseTimeout(t) ==
    call[t].phase = "waiting" /\ call[t].resp = NoResp /\ GiveUp(t)

\* get_key: a retryable error of an attempt that is not the last one.
Retry(t) ==
    /\ call[t].phase = "failed" /\ call[t].op = "retrieve"
    /\ call[t].attempt < KMS_ATTEMPTS
    /\ SendKmsRequest(t, "retrieve", call[t].uri, call[t].attempt + 1)
    /\ UNCHANGED <<lock, atKms, key_cache, context, breaker, row>>

\* get_key: the last attempt failed; the failure is counted.
RecordFailure(t) ==
    /\ call[t].phase \in {"failed", "refused"} /\ call[t].op = "retrieve"
    /\ call[t].phase = "failed" => call[t].attempt >= KMS_ATTEMPTS
    /\ cb_failures' = cb_failures + 1
    /\ cooldown' = "running"
    /\ cb_state' = IF cb_failures + 1 >= CB_FAILURE_THRESHOLD
                   THEN "Open" ELSE cb_state
    /\ ReturnError(t)
    /\ UNCHANGED <<pending, atKms, key_cache, context>>

\* initialize(): send_kms_request failed, the error leaves through `?`.
InitializeFails(t) ==
    /\ call[t].phase \in {"failed", "refused"} /\ call[t].op # "retrieve"
    /\ ReturnError(t)
    /\ UNCHANGED <<pending, atKms, key_cache, context, breaker>>

Answered(t) == call[t].phase = "waiting" /\ call[t].resp # NoResp

\* Mutant: a success takes one failure off the count instead of clearing it.
MutantDecay(t) ==
    /\ Answered(t) /\ call[t].op = "retrieve" /\ Unwraps(call[t])
    /\ key_cache' = [key_cache EXCEPT ![call[t].uri] = call[t].resp.req.uri]
    /\ cb_failures' = cb_failures - 1
    /\ row' = 0
    /\ cb_state' = IF cb_state = "HalfOpen" THEN "Closed" ELSE cb_state
    /\ Return(t)
    /\ UNCHANGED <<pending, atKms, context, cooldown>>

\* Mutant: a successful probe clears the count but leaves the breaker as it is.
MutantProbe(t) ==
    /\ Answered(t) /\ call[t].op = "retrieve" /\ Unwraps(call[t])
    /\ key_cache' = [key_cache EXCEPT ![call[t].uri] = call[t].resp.req.uri]
    /\ cb_failures' = 0
    /\ row' = 0
    /\ Return(t)
    /\ UNCHANGED <<pending, atKms, context, cooldown, cb_state>>

\* get_key: the answer unwraps to a key, which is cached under the URI asked.
KeyRetrieved(t) ==
    /\ Answered(t) /\ call[t].op = "retrieve" /\ Unwraps(call[t])
    /\ key_cache' = [key_cache EXCEPT ![call[t].uri] = call[t].resp.req.uri]
    /\ cb_failures' = 0
    /\ row' = 0
    /\ cb_state' = IF cb_state = "HalfOpen" THEN "Closed" ELSE cb_state
    /\ Return(t)
    /\ UNCHANGED <<pending, atKms, context, cooldown>>

\* initialize(): the handshake completes; get_key goes on after a renewal.
Initialized(t) ==
    /\ Answered(t) /\ call[t].op # "retrieve" /\ Unwraps(call[t])
    /\ eph' = call[t].req
    /\ validity' = "valid"
    /\ IF call[t].op = "connect" THEN Return(t) /\ UNCHANGED <<pending, breaker>>
                                 ELSE PassBreaker(t, call[t].uri)
    /\ UNCHANGED <<atKms, key_cache, row>>

\* The answer does not unwrap or holds no key: the error leaves through `?`,
\* neither retried nor counted by the breaker.  An answer whose encrypted key is
\* too short or whose IV has a wrong length makes the unwrapping panic: the task
\* dies and drops the mutex guard, which leaves the client as an error does
\* (KeyPanics of RustActivity has what the task loses).
BadAnswer(t) ==
    /\ Answered(t) /\ ~Unwraps(call[t])
    /\ ReturnError(t)
    /\ UNCHANGED <<pending, atKms, key_cache, context, breaker>>
-----------------------------------------------------------------------------
\* Steps of the KMS (external) and of time.

\* The KMS answers its requests in order and Mercury delivers the answer:
\* handle_kms_message resolves the first pending request with it.
AnswerArrives(body) ==
    /\ atKms # <<>>
    /\ atKms' = Tail(atKms)
    /\ IF pending = <<>>
       THEN UNCHANGED <<pending, call>>
       ELSE /\ pending' = Tail(pending)
            /\ call' = [call EXCEPT ![Head(pending).to].resp =
                          [req |-> Head(atKms), body |-> body]]
    /\ UNCHANGED <<lock, key_cache, context, breaker, row>>

AnswerLost ==
    /\ atKms # <<>>
    /\ atKms' = Tail(atKms)
    /\ UNCHANGED <<lock, call, pending, key_cache, context, breaker, row>>

ContextExpires ==
    /\ validity = "valid"
    /\ validity' = "expired"
    /\ UNCHANGED <<lock, call, pending, atKms, key_cache, eph, breaker, row>>

CooldownElapses ==
    /\ cb_failures \in 1..MaxFailures /\ cooldown = "running"
    /\ cooldown' = "elapsed"
    /\ UNCHANGED <<lock, call, pending, atKms, key_cache, context, cb_state,
                   cb_failures, row>>
-----------------------------------------------------------------------------
\* The reply to an HTTP request of t arrives, or its failure is noticed.
HttpStep(t) ==
    FetchDetails(t) \/ PostReceived(t) \/ PostReturns(t) \/ PostFails(t)

\* What t does by itself, timers included.
TaskStep(t) ==
    \/ ResponseTimeout(t) \/ Retry(t) \/ RecordFailure(t) \/ InitializeFails(t)
    \/ KeyRetrieved(t) \/ Initialized(t) \/ BadAnswer(t)

Step(t) == HttpStep(t) \/ TaskStep(t)

Next ==
    \/ \E t \in Tasks : \/ Initialize(t)
                        \/ \E u \in Uris : GetKey(t, u)
                        \/ Step(t)
    \/ \E body \in Bodies : AnswerArrives(body)
    \/ AnswerLost
    \/ ContextExpires
    \/ CooldownElapses

Spec == Init /\ [][Next]_vars

\* tokio runs a task that can run and its timers fire.  Nothing is assumed of an
\* HTTP request: the client sets no timeout for it.
FairSpec == Spec /\ \A t \in Tasks : WF_vars(TaskStep(t))
-----------------------------------------------------------------------------
\* Properties.

\* At most one request is pending, and it is the one the holder of the mutex
\* waits for: what the FIFO matching of handle_kms_message relies on.
SingleInFlight ==
    /\ Len(pending) <= 1
    /\ \A k \in DOMAIN pending :
         /\ lock = pending[k].to
         /\ call[lock].req = pending[k].id
         /\ call[lock].phase \in {"posting", "posted", "waiting"}

\* A key is only ever cached under the URI it belongs to, although
\* handle_kms_message matches answers to requests by position alone.
KeyMatchesUri == \A u \in Uris : key_cache[u] \in {u, NoUri}

\* The breaker is never open or on probation without cause: the last
\* CB_FAILURE_THRESHOLD get_key calls that went to the KMS failed, whatever
\* renewals, probes and other tasks' calls came in between.  The converse is not
\* true: a failed renewal and a bad answer leave get_key through `?`, uncounted.
OpensOnlyAfterFailures == cb_state # "Closed" => row = CB_FAILURE_THRESHOLD

\* No get_key call retrieves a key from the KMS while the breaker is open.
NoRetrieveWhileOpen ==
    \A t \in Tasks :
        (call[t].phase # "idle" /\ call[t].op = "retrieve") => cb_state # "Open"

\* get_key looks into the cache once, before its awaits; the key it then asks for
\* is still missing whenever it goes on, so that no key is fetched twice and none
\* that another call stored meanwhile is overwritten.
MissStaysMiss ==
    \A t \in Tasks :
        (call[t].phase # "idle" /\ call[t].op # "connect") => call[t].uri \notin Cached

\* An answer that holds a key is never wasted: it opens for the caller it was
\* given to, although answers are matched by position, handshakes and retrievals
\* need different keys and the context may expire while the answer is on its way
\* (send_kms_request, unwrap_kms_response).
GoodAnswerOpens ==
    \A t \in Tasks : (Answered(t) /\ call[t].resp.body # "error") => Unwraps(call[t])

\* The client keeps the promise of KeyService: get_key is one exchange of
\* question and answer per caller, the renewal of the context, the retries and
\* the matching of answers by position stay invisible.
asked == [t \in Tasks |-> IF call[t].phase # "idle" /\ call[t].op # "connect"
                          THEN call[t].uri ELSE NoUri]
KS == INSTANCE KeyService WITH keys <- key_cache, Limit <- MAX_KEY_CACHE_SIZE
ImplementsKeyService == KS!Spec

\* An HTTP request of t is on its way.
InHttp(t) == call[t].phase \in {"details", "posting", "posted"}

\* Every call into the client returns, whatever the KMS loses or delays, unless an
\* HTTP request of the call never ends: the waits for an answer over Mercury end by
\* an answer or a timeout and the attempts are limited (get_key, send_kms_request).
EveryCallReturns ==
    \A t \in Tasks :
        []<>~InHttp(t) => ((call[t].phase # "idle") ~> (call[t].phase = "idle"))
=============================================================================
