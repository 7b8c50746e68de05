------------------------ MODULE RustKmsServiceProofs ------------------------
(***************************************************************************)
(* RustKmsClient implements KeyService, its key cache stays bounded, a key *)
(* it missed stays missing while it is asked for and a good answer opens,  *)
(* for every number of tasks, URIs and requests and every limit.           *)
(***************************************************************************)
EXTENDS RustKmsClientProofs

\* The URI a caller with the frame c waits for.
Asks(c) == IF c.phase # "idle" /\ c.op # "connect" THEN c.uri ELSE NoUri

\* A step of one caller changes the question of that caller only.
LEMMA AskedByOne ==
    ASSUME ClientInv, NEW t \in Tasks, NEW c, call' = [call EXCEPT ![t] = c]
    PROVE  /\ asked' = [asked EXCEPT ![t] = Asks(c)]
           /\ asked[t] = Asks(call[t])
<1>1. asked = [s \in Tasks |-> Asks(call[s])]
  BY DEF asked, Asks
<1>2. asked' = [s \in Tasks |-> Asks(call'[s])]
  BY DEF asked, Asks
<1>3. \A s \in Tasks : call'[s] = IF s = t THEN c ELSE call[s]
  BY DEF ClientInv, ClientTypeOK
<1> HIDE DEF asked
<1> QED
  BY <1>1, <1>2, <1>3

\* A caller that does not ask for another URI keeps its question or drops it.
LEMMA AskedKeptOrDropped ==
    ASSUME ClientInv, NEW t \in Tasks, NEW c, call' = [call EXCEPT ![t] = c],
           Asks(c) \in {Asks(call[t]), NoUri}
    PROVE  \/ asked' = asked
           \/ asked[t] # NoUri /\ asked' = [asked EXCEPT ![t] = NoUri]
<1>1. /\ asked' = [asked EXCEPT ![t] = Asks(c)]
      /\ asked[t] = Asks(call[t])
  BY AskedByOne
<1>2. asked = [s \in Tasks |-> asked[s]]
  BY DEF asked
<1> HIDE DEF asked
<1> QED
  BY <1>1, <1>2

\* The frames that the pieces of get_key and initialize leave behind.
LEMMA ReturnFrame ==
    ASSUME NEW t \in Tasks, Return(t)
    PROVE  \E c : call' = [call EXCEPT ![t] = c] /\ Asks(c) = NoUri
<1>1. Asks(IdleCall) = NoUri
  BY DEF Asks, IdleCall
<1> QED
  BY <1>1 DEF Return

LEMMA SendFrame ==
    ASSUME NEW t \in Tasks, NEW op, NEW u, NEW n, SendKmsRequest(t, op, u, n)
    PROVE  \E c : /\ call' = [call EXCEPT ![t] = c]
                  /\ Asks(c) = IF op # "connect" THEN u ELSE NoUri
<1> DEFINE ph == IF Len(pending) >= MAX_PENDING_REQUESTS
                 THEN "refused" ELSE "posting"
           c(id) == [phase |-> ph, op |-> op, uri |-> u, attempt |-> n,
                     req |-> id, resp |-> NoResp]
<1>1. PICK id \in FreshIds : call' = [call EXCEPT ![t] = c(id)]
  BY DEF SendKmsRequest
<1>2. ph # "idle"
  OBVIOUS
<1> HIDE DEF ph
<1>3. Asks(c(id)) = IF op # "connect" THEN u ELSE NoUri
  BY <1>2 DEF Asks
<1> HIDE DEF c
<1> QED
  BY <1>1, <1>3

\* Past the breaker check the caller asks for the key, or was turned away.
LEMMA PassBreakerFrame ==
    ASSUME NEW t \in Tasks, NEW u, PassBreaker(t, u)
    PROVE  \E c : call' = [call EXCEPT ![t] = c] /\ Asks(c) \in {u, NoUri}
<1>1. Return(t) \/ SendKmsRequest(t, "retrieve", u, 1)
  BY DEF PassBreaker
<1> QED
  BY <1>1, ReturnFrame, SendFrame
-----------------------------------------------------------------------------
\* Every step but get_key's first one and its last one leaves the cache alone,
\* and no caller asks for another URI.
OtherStep ==
    /\ key_cache' = key_cache
    /\ \/ asked' = asked
       \/ \E t \in Tasks : /\ asked[t] # NoUri
                           /\ asked' = [asked EXCEPT ![t] = NoUri]

LEMMA OtherSteps ==
    ASSUME ClientInv, [Next]_vars
    PROVE  \/ OtherStep
           \/ \E t \in Tasks : \/ \E u \in Uris : GetKey(t, u)
                               \/ KeyRetrieved(t)
<1>1. ASSUME NEW t \in Tasks, Initialize(t) PROVE OtherStep
  <2>1. /\ key_cache' = key_cache
        /\ call' = [call EXCEPT ![t] = Details("connect", NoUri)]
    BY <1>1 DEF Initialize
  <2>2. Asks(Details("connect", NoUri)) = NoUri
    BY DEF Asks, Details
  <2> QED
    BY <2>1, <2>2, AskedKeptOrDropped DEF OtherStep
<1>2. ASSUME NEW t \in Tasks,
             \/ FetchDetails(t) \/ Retry(t) \/ RecordFailure(t)
             \/ InitializeFails(t) \/ BadAnswer(t) \/ Initialized(t)
      PROVE  OtherStep
  <2>1. key_cache' = key_cache /\ call[t].phase # "idle"
    BY <1>2 DEF FetchDetails, Retry, RecordFailure, InitializeFails, BadAnswer,
       Initialized, Answered
  <2>2. \/ Return(t)
        \/ SendKmsRequest(t, call[t].op, call[t].uri, 0)
        \/ call[t].op # "connect" /\ PassBreaker(t, call[t].uri)
        \/ /\ call[t].op = "retrieve"
           /\ SendKmsRequest(t, "retrieve", call[t].uri, call[t].attempt + 1)
    BY <1>2 DEF FetchDetails, Retry, RecordFailure, InitializeFails, BadAnswer,
       Initialized, ReturnError
  <2>3. Asks(call[t]) = IF call[t].op # "connect" THEN call[t].uri ELSE NoUri
    BY <2>1 DEF Asks
  <2>4. \E c : /\ call' = [call EXCEPT ![t] = c]
               /\ Asks(c) \in {Asks(call[t]), NoUri}
    <3>1. CASE Return(t)
      BY <3>1, ReturnFrame
    <3>2. CASE SendKmsRequest(t, call[t].op, call[t].uri, 0)
      BY <2>3, <3>2, SendFrame
    <3>3. CASE call[t].op # "connect" /\ PassBreaker(t, call[t].uri)
      BY <2>3, <3>3, PassBreakerFrame
    <3>4. CASE /\ call[t].op = "retrieve"
               /\ SendKmsRequest(t, "retrieve", call[t].uri, call[t].attempt + 1)
      <4>1. \E c : call' = [call EXCEPT ![t] = c] /\ Asks(c) = call[t].uri
        BY <3>4, SendFrame
      <4> QED
        BY <2>3, <3>4, <4>1
    <3> QED
      BY <2>2, <3>1, <3>2, <3>3, <3>4
  <2> QED
    BY <2>1, <2>4, AskedKeptOrDropped DEF OtherStep
<1>3. ASSUME NEW t \in Tasks,
             \/ PostReceived(t) \/ PostReturns(t) \/ PostFails(t)
             \/ ResponseTimeout(t)
      PROVE  OtherStep
  <2>1. PICK ph \in {"posted", "waiting", "failed"},
             r \in {call[t].resp, NoResp} :
          call' = [call EXCEPT ![t] = [call[t] EXCEPT !.phase = ph, !.resp = r]]
    <3>1. call[t] = [call[t] EXCEPT !.resp = call[t].resp]
      BY DEF ClientInv, ClientTypeOK, Call
    <3>2. CASE PostFails(t) \/ ResponseTimeout(t)
      BY <3>2 DEF PostFails, ResponseTimeout, GiveUp
    <3>3. CASE PostReceived(t) \/ PostReturns(t)
      <4>1. PICK ph \in {"posted", "waiting"} :
              call' = [call EXCEPT ![t] = [call[t] EXCEPT !.phase = ph]]
        BY <3>3 DEF PostReceived, PostReturns
      <4>2. [call[t] EXCEPT !.phase = ph]
              = [call[t] EXCEPT !.phase = ph, !.resp = call[t].resp]
        BY DEF ClientInv, ClientTypeOK, Call
      <4> QED
        BY <4>1, <4>2
    <3> QED
      BY <1>3, <3>2, <3>3
  <2>2. key_cache' = key_cache /\ call[t].phase # "idle"
    BY <1>3 DEF PostReceived, PostReturns, PostFails, ResponseTimeout, GiveUp
  <2> DEFINE c == [call[t] EXCEPT !.phase = ph, !.resp = r]
  <2>3. Asks(c) = Asks(call[t])
    BY <2>2 DEF Asks, ClientInv, ClientTypeOK, Call
  <2>4. call' = [call EXCEPT ![t] = c]
    BY <2>1
  <2> HIDE DEF c
  <2> QED
    BY <2>2, <2>3, <2>4, AskedKeptOrDropped DEF OtherStep
<1>4. ASSUME AnswerLost \/ \E body \in Bodies : AnswerArrives(body)
      PROVE  OtherStep
  <2>1. key_cache' = key_cache
    BY <1>4 DEF AnswerArrives, AnswerLost
  <2>2. CASE call' = call
    BY <2>1, <2>2 DEF OtherStep, asked
  <2>3. CASE call' # call
    <3>1. PICK body \in Bodies :
            /\ pending # <<>>
            /\ call' = [call EXCEPT ![Head(pending).to].resp =
                          [req |-> Head(atKms), body |-> body]]
      BY <1>4, <2>3 DEF AnswerArrives, AnswerLost
    <3> DEFINE t == Head(pending).to
               r == [req |-> Head(atKms), body |-> body]
               c == [call[t] EXCEPT !.resp = r]
    <3>2. t \in Tasks
      <4>1. Head(pending) \in Pending
        BY <3>1, HeadTailProperties DEF ClientInv, ClientTypeOK
      <4> QED
        BY <4>1 DEF Pending
    <3>3. call' = [call EXCEPT ![t] = c]
      BY <3>1
    <3> HIDE DEF t, r
    <3>4. Asks(c) = Asks(call[t])
      BY <3>2 DEF Asks, ClientInv, ClientTypeOK, Call
    <3> HIDE DEF c
    <3> QED
      BY <2>1, <3>2, <3>3, <3>4, AskedKeptOrDropped DEF OtherStep
  <2> QED
    BY <2>2, <2>3
<1>5. ASSUME ContextExpires \/ CooldownElapses \/ UNCHANGED vars
      PROVE  OtherStep
  BY <1>5 DEF ContextExpires, CooldownElapses, vars, context, OtherStep, asked
<1> QED
  BY <1>1, <1>2, <1>3, <1>4, <1>5 DEF Next, Step, HttpStep, TaskStep

\* The first step of get_key: nobody asks before it, and after it the caller
\* asks for the key or was turned away.
LEMMA GetKeyAsks ==
    ASSUME ClientInv, NEW t \in Tasks, NEW u \in Uris, GetKey(t, u)
    PROVE  /\ \A s \in Tasks : asked[s] = NoUri
           /\ asked' = asked \/ asked' = [asked EXCEPT ![t] = u]
<1>1. lock = NoTask
  BY DEF GetKey, MayEnter
<1>2. \A s \in Tasks : asked[s] = NoUri
  BY <1>1, ConstantsAssumption DEF ClientInv, HolderRuns, asked
<1>3. \E c : call' = [call EXCEPT ![t] = c] /\ Asks(c) \in {u, NoUri}
  <2>1. CASE validity = "expired"
    <3>1. call' = [call EXCEPT ![t] = Details("renew", u)]
      BY <2>1 DEF GetKey
    <3>2. Asks(Details("renew", u)) = u
      BY DEF Asks, Details
    <3> QED
      BY <3>1, <3>2
  <2>2. CASE validity # "expired"
    BY <2>2, PassBreakerFrame DEF GetKey
  <2> QED
    BY <2>1, <2>2
<1>4. \E x \in {u, NoUri} : asked' = [asked EXCEPT ![t] = x]
  BY <1>3, AskedByOne
<1>5. asked = [s \in Tasks |-> asked[s]]
  BY DEF asked
<1> HIDE DEF asked
<1> QED
  BY <1>2, <1>4, <1>5

\* The last step of get_key: the caller asks no more.
LEMMA RetrievedAsks ==
    ASSUME ClientInv, NEW t \in Tasks, KeyRetrieved(t)
    PROVE  /\ asked[t] = call[t].uri /\ call[t].uri \in Uris
           /\ asked' = [asked EXCEPT ![t] = NoUri]
<1>1. call[t].phase = "waiting" /\ call[t].op = "retrieve" /\ Return(t)
  BY DEF KeyRetrieved, Answered
<1>2. asked[t] = call[t].uri
  BY <1>1 DEF asked
<1>3. call[t].uri \in Uris
  BY <1>1 DEF ClientInv, FrameOK
<1>4. asked' = [asked EXCEPT ![t] = NoUri]
  BY <1>1, ReturnFrame, AskedByOne
<1> QED
  BY <1>2, <1>3, <1>4
-----------------------------------------------------------------------------
\* The cache leaves room for the answer of a call that is under way.
CacheInv ==
    /\ IsFiniteSet(Cached)
    /\ Cardinality(Cached) <= MAX_KEY_CACHE_SIZE + 1
    /\ (\E t \in Tasks : asked[t] # NoUri)
         => Cardinality(Cached) <= MAX_KEY_CACHE_SIZE

LEMMA CacheInvNext ==
    ASSUME ClientInv, CacheInv, [Next]_vars
    PROVE  CacheInv'
<1>1. Cardinality(Cached) \in Nat
  BY FS_CardinalityType DEF CacheInv
<1>2. CASE OtherStep
  <2>1. Cached' = Cached
    BY <1>2 DEF OtherStep, Cached
  <2>2. (\E t \in Tasks : asked'[t] # NoUri) => \E t \in Tasks : asked[t] # NoUri
    <3>1. asked = [s \in Tasks |-> asked[s]]
      BY DEF asked
    <3> HIDE DEF asked
    <3> QED
      BY <1>2, <3>1 DEF OtherStep
  <2> HIDE DEF asked
  <2> QED
    BY <2>1, <2>2 DEF CacheInv
<1>3. ASSUME NEW t \in Tasks, NEW u \in Uris, GetKey(t, u) PROVE CacheInv'
  <2>1. CASE Cardinality(Cached) > MAX_KEY_CACHE_SIZE
    <3>1. key_cache' = [v \in Uris |-> NoUri]
      BY <1>3, <2>1 DEF GetKey
    <3>2. Cached' = {}
      BY <3>1 DEF Cached
    <3>3. IsFiniteSet(Cached') /\ Cardinality(Cached') = 0
      BY <3>2, FS_EmptySet
    <3> QED
      BY <3>3, ConstantsAssumption DEF CacheInv
  <2>2. CASE ~(Cardinality(Cached) > MAX_KEY_CACHE_SIZE)
    <3>1. key_cache' = key_cache
      BY <1>3, <2>2 DEF GetKey
    <3>2. Cached' = Cached
      BY <3>1 DEF Cached
    <3> QED
      BY <1>1, <2>2, <3>2, ConstantsAssumption DEF CacheInv
  <2> QED
    BY <2>1, <2>2
<1>4. ASSUME NEW t \in Tasks, KeyRetrieved(t) PROVE CacheInv'
  <2>1. /\ asked[t] = call[t].uri /\ call[t].uri \in Uris
        /\ asked' = [asked EXCEPT ![t] = NoUri]
    BY <1>4, RetrievedAsks
  <2>2. Cardinality(Cached) <= MAX_KEY_CACHE_SIZE
    BY <2>1, ConstantsAssumption DEF CacheInv
  <2>3. key_cache' = [key_cache EXCEPT ![call[t].uri] = call[t].resp.req.uri]
    BY <1>4 DEF KeyRetrieved
  <2>4. Cached' \subseteq Cached \cup {call[t].uri}
    BY <2>3 DEF Cached, ClientInv, ClientTypeOK
  <2>5. /\ IsFiniteSet(Cached \cup {call[t].uri})
        /\ Cardinality(Cached \cup {call[t].uri}) <= Cardinality(Cached) + 1
    BY <1>1, FS_AddElement DEF CacheInv
  <2>6. /\ IsFiniteSet(Cached')
        /\ Cardinality(Cached') <= Cardinality(Cached \cup {call[t].uri})
    BY <2>4, <2>5, FS_Subset
  <2>7. /\ Cardinality(Cached') \in Nat
        /\ Cardinality(Cached \cup {call[t].uri}) \in Nat
    BY <2>5, <2>6, FS_CardinalityType
  <2>8. Cardinality(Cached') <= MAX_KEY_CACHE_SIZE + 1
    BY <1>1, <2>2, <2>5, <2>6, <2>7, ConstantsAssumption
  <2>9. \A s \in Tasks : asked'[s] = NoUri
    <3>1. lock = t
      BY <1>4 DEF KeyRetrieved, Answered, ClientInv, HolderRuns
    <3>2. \A s \in Tasks : s # t => asked[s] = NoUri
      BY <3>1 DEF ClientInv, HolderRuns, asked
    <3>3. asked = [s \in Tasks |-> asked[s]]
      BY DEF asked
    <3> HIDE DEF asked
    <3> QED
      BY <2>1, <3>2, <3>3
  <2> QED
    BY <2>6, <2>8, <2>9 DEF CacheInv
<1> QED
  BY <1>2, <1>3, <1>4, OtherSteps
-----------------------------------------------------------------------------
\* What a caller waits for is not in the cache.
MissInv == \A t \in Tasks : asked[t] \notin Cached

LEMMA MissInvNext ==
    ASSUME ClientInv, MissInv, [Next]_vars
    PROVE  MissInv'
<1>1. asked = [s \in Tasks |-> asked[s]]
  BY DEF asked
<1>2. NoUri \notin Cached /\ NoUri \notin Cached'
  BY ConstantsAssumption DEF Cached
<1>3. CASE OtherStep
  <2>1. Cached' = Cached
    BY <1>3 DEF OtherStep, Cached
  <2> HIDE DEF asked
  <2> QED
    BY <1>1, <1>2, <1>3, <2>1 DEF OtherStep, MissInv
<1>4. ASSUME NEW t \in Tasks, NEW u \in Uris, GetKey(t, u) PROVE MissInv'
  <2>1. /\ \A s \in Tasks : asked[s] = NoUri
        /\ asked' = asked \/ asked' = [asked EXCEPT ![t] = u]
    BY <1>4, GetKeyAsks
  <2>2. Cached' \subseteq Cached
    BY <1>4 DEF GetKey, Cached
  <2>3. u \notin Cached
    BY <1>4 DEF GetKey
  <2> HIDE DEF asked
  <2> QED
    BY <1>1, <1>2, <2>1, <2>2, <2>3 DEF MissInv
<1>5. ASSUME NEW t \in Tasks, KeyRetrieved(t) PROVE MissInv'
  <2>1. asked' = [asked EXCEPT ![t] = NoUri]
    BY <1>5, RetrievedAsks
  <2>2. \A s \in Tasks : s # t => asked[s] = NoUri
    <3>1. lock = t
      BY <1>5 DEF KeyRetrieved, Answered, ClientInv, HolderRuns
    <3> QED
      BY <3>1 DEF ClientInv, HolderRuns, asked
  <2> HIDE DEF asked
  <2> QED
    BY <1>1, <1>2, <2>1, <2>2 DEF MissInv
<1> QED
  BY <1>3, <1>4, <1>5, OtherSteps

\* A key that get_key missed is still missing at every later step of the call,
\* after a renewal of the context, the retries and every await between: the check
\* made once at its start holds to its end, for any number of callers.
THEOREM MissesStayMisses == Spec => []MissStaysMiss
<1>1. Init => MissInv
  BY DEF Init, MissInv, Cached
<1>2. ClientInv /\ MissInv /\ [Next]_vars => MissInv'
  BY MissInvNext
<1>3. MissInv => MissStaysMiss
  BY DEF MissInv, MissStaysMiss, asked
<1> QED
  BY <1>1, <1>2, <1>3, ClientInvariant, PTL DEF Spec

\* An answer that is the answer to its caller's own request opens.
LEMMA OwnAnswerOpens ==
    ASSUME OwnAnswer, NEW t \in Tasks, Answered(t), call[t].resp.body # "error"
    PROVE  Unwraps(call[t])
<1>1. call[t].resp.req = RequestOf(call[t])
  BY DEF OwnAnswer, Answered
<1> QED
  BY <1>1 DEF Unwraps, RequestOf

\* Every answer that holds a key opens for the caller it is given to, whenever the
\* context expires, if the KMS never answers a request its caller gave up on: no
\* handshake gets the answer of a retrieval, none the answer of an older context.
THEOREM GoodAnswersOpen ==
    ASSUME ~LateAnswers
    PROVE  Spec => []GoodAnswerOpens
<1>1. Init => OwnAnswer /\ KeyMatchesUri
  <2> SUFFICES ASSUME Init PROVE OwnAnswer /\ KeyMatchesUri
    OBVIOUS
  <2>1. \A t \in Tasks : call[t].resp = NoResp /\ call[t].phase = "idle"
    BY DEF Init, IdleCall
  <2> QED
    BY <2>1 DEF Init, OwnAnswer, KeyMatchesUri
<1>2. ClientInv /\ OwnAnswer /\ KeyMatchesUri /\ [Next]_vars
        => OwnAnswer' /\ KeyMatchesUri'
  BY OwnAnswerNext
<1>3. OwnAnswer => GoodAnswerOpens
  BY OwnAnswerOpens DEF GoodAnswerOpens
<1> QED
  BY <1>1, <1>2, <1>3, ClientInvariant, PTL DEF Spec
-----------------------------------------------------------------------------
\* The size of a set is the same in the abstract module's instance.
LEMMA SameCardinality == \A S : KS!Cardinality(S) = Cardinality(S)
  BY DEF KS!Cardinality, Cardinality

\* Every step of the client is a step of the key service, or none.
LEMMA ServiceStep ==
    ASSUME ~LateAnswers, ClientInv, OwnAnswer, CacheInv, [Next]_vars
    PROVE  [KS!Next]_(KS!serviceVars)
<1>1. CASE OtherStep
  BY <1>1 DEF OtherStep, KS!Next, KS!Fail, KS!serviceVars
<1>2. ASSUME NEW t \in Tasks, NEW u \in Uris, GetKey(t, u)
      PROVE  [KS!Next]_(KS!serviceVars)
  <2>1. /\ \A s \in Tasks : asked[s] = NoUri
        /\ asked' = asked \/ asked' = [asked EXCEPT ![t] = u]
    BY <1>2, GetKeyAsks
  <2>2. key_cache' = IF KS!Cardinality(KS!Held) > MAX_KEY_CACHE_SIZE
                     THEN KS!NoKeys ELSE key_cache
    BY <1>2, SameCardinality DEF GetKey, Cached, KS!Held, KS!NoKeys
  <2> HIDE DEF asked
  <2>3. CASE asked' = [asked EXCEPT ![t] = u]
    BY <2>1, <2>2, <2>3 DEF KS!Next, KS!Ask
  <2>4. CASE asked' = asked
    BY <2>2, <2>4 DEF KS!Next, KS!TurnAway, KS!serviceVars
  <2> QED
    BY <2>1, <2>3, <2>4
<1>3. ASSUME NEW t \in Tasks, KeyRetrieved(t) PROVE [KS!Next]_(KS!serviceVars)
  <2>1. /\ asked[t] = call[t].uri /\ call[t].uri \in Uris
        /\ asked' = [asked EXCEPT ![t] = NoUri]
    BY <1>3, RetrievedAsks
  <2>2. asked[t] # NoUri
    BY <2>1, ConstantsAssumption
  <2>3. KS!Cardinality(KS!Held) <= MAX_KEY_CACHE_SIZE
    BY <2>2, SameCardinality DEF CacheInv, Cached, KS!Held
  <2>4. call[t].resp.req.uri = call[t].uri
    <3>1. call[t].resp # NoResp /\ call[t].op = "retrieve"
      BY <1>3 DEF KeyRetrieved, Answered
    <3>2. call[t].resp.req = RequestOf(call[t])
      BY <3>1 DEF OwnAnswer
    <3> QED
      BY <3>1, <3>2 DEF RequestOf
  <2>5. key_cache' = [key_cache EXCEPT ![asked[t]] = asked[t]]
    BY <1>3, <2>1, <2>4 DEF KeyRetrieved
  <2> HIDE DEF asked
  <2> QED
    BY <2>1, <2>2, <2>3, <2>5 DEF KS!Next, KS!Answer
<1> QED
  BY <1>1, <1>2, <1>3, OtherSteps

\* The client implements KeyService if the KMS never answers a request its
\* caller gave up on: renewals, retries, the breaker and the matching by position
\* are invisible to a caller, which gets the key it asked for or an error.
THEOREM ClientServesKeys ==
    ASSUME ~LateAnswers
    PROVE  Spec => ImplementsKeyService
<1>1. Init => KS!Init /\ OwnAnswer /\ KeyMatchesUri /\ CacheInv
  <2> SUFFICES ASSUME Init PROVE KS!Init /\ OwnAnswer /\ KeyMatchesUri /\ CacheInv
    OBVIOUS
  <2>1. \A t \in Tasks : call[t].resp = NoResp /\ call[t].phase = "idle"
    BY DEF Init, IdleCall
  <2>2. Cached = {} /\ IsFiniteSet(Cached) /\ Cardinality(Cached) = 0
    <3>1. Cached = {}
      BY DEF Init, Cached
    <3> QED
      BY <3>1, FS_EmptySet
  <2>3. asked = [t \in Tasks |-> NoUri]
    BY <2>1 DEF asked
  <2>4. KS!Init
    BY <2>3 DEF Init, KS!Init, KS!NoKeys
  <2> QED
    BY <2>1, <2>2, <2>4, ConstantsAssumption DEF Init, OwnAnswer, KeyMatchesUri, CacheInv
<1>2. ClientInv /\ OwnAnswer /\ KeyMatchesUri /\ [Next]_vars
        => OwnAnswer' /\ KeyMatchesUri'
  BY OwnAnswerNext
<1>3. ClientInv /\ CacheInv /\ [Next]_vars => CacheInv'
  BY CacheInvNext
<1>4. ClientInv /\ OwnAnswer /\ CacheInv /\ [Next]_vars
        => [KS!Next]_(KS!serviceVars)
  BY ServiceStep
<1> QED
  BY <1>1, <1>2, <1>3, <1>4, ClientInvariant, PTL
     DEF Spec, ImplementsKeyService, KS!Spec
=============================================================================
