------------------------ MODULE RustKmsClientProofs ------------------------
(***************************************************************************)
(* Proofs about RustKmsClient for every number of tasks, URIs and requests *)
(* and every value of the limits.                                          *)
(***************************************************************************)
EXTENDS RustKmsClient, SequenceTheorems, FiniteSetTheorems, TLAPS

\* Removing an entry keeps a queue a queue.
LEMMA WithoutType ==
    ASSUME NEW S, NEW s \in Seq(S), NEW id
    PROVE  Without(s, id) \in Seq(S)
<1>1. CASE \E k \in DOMAIN s : s[k].id = id
  <2> DEFINE k == CHOOSE k \in DOMAIN s : s[k].id = id
  <2>1. k \in DOMAIN s
    BY <1>1
  <2>2. Without(s, id) = SubSeq(s, 1, k - 1) \o SubSeq(s, k + 1, Len(s))
    BY <1>1 DEF Without
  <2> HIDE DEF k
  <2>3. k \in 1..Len(s)
    BY <2>1
  <2>4. SubSeq(s, 1, k - 1) \in Seq(S) /\ SubSeq(s, k + 1, Len(s)) \in Seq(S)
    BY <2>3, SubSeqProperties
  <2> QED
    BY <2>2, <2>4, ConcatProperties
<1>2. CASE ~ \E k \in DOMAIN s : s[k].id = id
  BY <1>2 DEF Without
<1> QED
  BY <1>1, <1>2

\* Removing the only entry of a queue empties it.
LEMMA WithoutOnly ==
    ASSUME NEW S, NEW s \in Seq(S), NEW id, Len(s) <= 1,
           \A k \in DOMAIN s : s[k].id = id
    PROVE  Without(s, id) = <<>>
<1>1. CASE s = <<>>
  BY <1>1 DEF Without
<1>2. CASE s # <<>>
  <2>0. Len(s) \in Nat /\ Len(s) # 0 /\ DOMAIN s = 1..Len(s)
    BY <1>2, EmptySeq, LenProperties
  <2>1. Len(s) = 1 /\ DOMAIN s = {1}
    BY <2>0
  <2>2. s[1].id = id /\ \E k \in DOMAIN s : s[k].id = id
    BY <2>1
  <2> DEFINE k == CHOOSE k \in DOMAIN s : s[k].id = id
  <2>3. k \in DOMAIN s
    BY <2>2
  <2>4. Without(s, id) = SubSeq(s, 1, k - 1) \o SubSeq(s, k + 1, Len(s))
    BY <2>2 DEF Without
  <2> HIDE DEF k
  <2>5. k = 1
    BY <2>1, <2>3
  <2>6. SubSeq(s, 1, 0) = <<>> /\ SubSeq(s, 2, 1) = <<>>
    BY SubSeqEmpty
  <2> QED
    BY <2>1, <2>4, <2>5, <2>6
<1> QED
  BY <1>1, <1>2

\* What send_kms_request registers is well typed.
LEMMA SendType ==
    ASSUME ClientTypeOK, NEW t \in Tasks, NEW op \in {"connect", "renew", "retrieve"},
           NEW u \in Uris \cup {NoUri}, NEW n \in Nat,
           SendKmsRequest(t, op, u, n)
    PROVE  call' \in [Tasks -> Call] /\ pending' \in Seq(Pending)
<1> DEFINE full == Len(pending) >= MAX_PENDING_REQUESTS
           frame(id) == [phase |-> IF full THEN "refused" ELSE "posting",
                         op |-> op, uri |-> u, attempt |-> n,
                         req |-> id, resp |-> NoResp]
<1>1. PICK id \in FreshIds :
        /\ pending' = IF full THEN pending
                      ELSE Append(pending, [id |-> id, to |-> t])
        /\ call' = [call EXCEPT ![t] = frame(id)]
  BY DEF SendKmsRequest
<1>2. id \in ReqIds
  BY DEF FreshIds
<1>3. frame(id) \in Call
  BY <1>2 DEF Call
<1>4. [id |-> id, to |-> t] \in Pending
  BY <1>2 DEF Pending
<1> HIDE DEF full, frame
<1> QED
  BY <1>1, <1>3, <1>4 DEF ClientTypeOK

\* What a call asks the KMS is well typed.
LEMMA RequestType ==
    ASSUME NEW c \in Call, c.req \in ReqIds, ClientTypeOK
    PROVE  RequestOf(c) \in Request
<1> DEFINE mt == IF c.op = "retrieve" THEN "retrieve" ELSE "create"
           ur == IF c.op = "retrieve" THEN c.uri ELSE NoUri
           cx == IF c.op = "retrieve" THEN eph ELSE NoReq
<1>1. mt \in {"create", "retrieve"}
  OBVIOUS
<1>2. ur \in Uris \cup {NoUri}
  BY DEF Call
<1>3. cx \in ReqIds \cup {NoReq}
  BY DEF ClientTypeOK
<1>4. RequestOf(c) = [id |-> c.req, method |-> mt, uri |-> ur, ctx |-> cx]
  BY DEF RequestOf
<1> HIDE DEF mt, ur, cx
<1> QED
  BY <1>1, <1>2, <1>3, <1>4 DEF Request

\* The frame of a call: an idle one is blank, one that waits for an answer has
\* sent a request, one of get_key names a URI.
FrameOK(c) ==
    /\ c.phase \in {"posting", "posted", "waiting"} => c.req \in ReqIds
    /\ c.phase = "idle" => c = IdleCall
    /\ (c.phase # "idle" /\ c.op # "connect") => c.uri \in Uris

\* A call is under way exactly while its task holds the mutex.
HolderRuns == \A t \in Tasks : call[t].phase # "idle" <=> lock = t

\* An answer that is there has used the pending entry up.
AnswerTaken == \A t \in Tasks : call[t].resp # NoResp => pending = <<>>

\* The breaker is closed exactly while its count is below the threshold.
CountOK == (cb_state = "Closed") <=> (cb_failures < CB_FAILURE_THRESHOLD)

\* The inductive invariant of the client's own state.
ClientInv ==
    /\ ClientTypeOK
    /\ \A t \in Tasks : FrameOK(call[t])
    /\ HolderRuns
    /\ AnswerTaken
    /\ SingleInFlight
    /\ CountOK
    /\ NoRetrieveWhileOpen

LEMMA ClientInvInit == Init => ClientInv
<1> SUFFICES ASSUME Init PROVE ClientInv
  OBVIOUS
<1>1. IdleCall \in Call
  BY ConstantsAssumption DEF Call, IdleCall
<1>2. ClientTypeOK
  BY <1>1, EmptySeq DEF Init, ClientTypeOK, CbStates
<1>3. \A t \in Tasks : FrameOK(call[t])
  BY DEF Init, FrameOK, IdleCall
<1>4. HolderRuns
  BY ConstantsAssumption DEF Init, HolderRuns, IdleCall
<1>5. SingleInFlight /\ AnswerTaken
  BY DEF Init, SingleInFlight, AnswerTaken
<1>6. CountOK /\ NoRetrieveWhileOpen
  BY ConstantsAssumption DEF Init, CountOK, NoRetrieveWhileOpen
<1> QED
  BY <1>2, <1>3, <1>4, <1>5, <1>6 DEF ClientInv

\* A call returns: its task gives the mutex back and nothing is pending.
LEMMA ReturnStep ==
    ASSUME ClientInv, NEW t \in Tasks, Return(t), pending' = pending,
           lock = t \/ lock = NoTask, pending = <<>>
    PROVE  /\ call' \in [Tasks -> Call] /\ lock' \in Tasks \cup {NoTask}
           /\ \A s \in Tasks : FrameOK(call[s])'
           /\ HolderRuns' /\ AnswerTaken'
           /\ SingleInFlight'
           /\ \A s \in Tasks : call'[s] = IdleCall
<1>1. IdleCall \in Call
  BY ConstantsAssumption DEF Call, IdleCall
<1>2. call' = [call EXCEPT ![t] = IdleCall] /\ lock' = NoTask
  BY DEF Return
<1>3. \A s \in Tasks : call'[s] = IdleCall
  <2> TAKE s \in Tasks
  <2>1. CASE s = t
    BY <1>2, <2>1 DEF ClientInv, ClientTypeOK
  <2>2. CASE s # t
    BY <1>2, <2>2, ConstantsAssumption DEF ClientInv, ClientTypeOK, HolderRuns, FrameOK
  <2> QED
    BY <2>1, <2>2
<1>4. \A s \in Tasks : FrameOK(call[s])'
  BY <1>3 DEF FrameOK, IdleCall
<1>5. HolderRuns'
  BY <1>2, <1>3, ConstantsAssumption DEF HolderRuns, IdleCall
<1>6. SingleInFlight' /\ AnswerTaken'
  BY DEF SingleInFlight, AnswerTaken
<1> QED
  BY <1>1, <1>2, <1>3, <1>4, <1>5, <1>6 DEF ClientInv, ClientTypeOK

\* A call sends a request: it is the only one pending, if it is not refused.
LEMMA SendStep ==
    ASSUME ClientInv, NEW t \in Tasks, NEW op \in {"connect", "renew", "retrieve"},
           NEW u \in Uris \cup {NoUri}, NEW n \in Nat,
           SendKmsRequest(t, op, u, n), op # "connect" => u \in Uris,
           lock = t \/ lock = NoTask, lock' = t, pending = <<>>
    PROVE  /\ call' \in [Tasks -> Call] /\ pending' \in Seq(Pending)
           /\ \A s \in Tasks : FrameOK(call[s])'
           /\ HolderRuns' /\ AnswerTaken'
           /\ SingleInFlight'
           /\ \A s \in Tasks : s # t => call'[s] = IdleCall
           /\ call'[t].op = op /\ call'[t].uri = u /\ call'[t].resp = NoResp
           /\ call'[t].phase = "posting"
<1>0. ~(Len(pending) >= MAX_PENDING_REQUESTS)
  BY ConstantsAssumption
<1>1. PICK id \in FreshIds :
        /\ pending' = Append(pending, [id |-> id, to |-> t])
        /\ call' = [call EXCEPT ![t] =
                     [phase |-> "posting", op |-> op, uri |-> u, attempt |-> n,
                      req |-> id, resp |-> NoResp]]
  BY <1>0 DEF SendKmsRequest
<1>2. id \in ReqIds
  BY DEF FreshIds
<1>3. \A s \in Tasks : s # t => call'[s] = IdleCall
  BY <1>1, ConstantsAssumption DEF ClientInv, ClientTypeOK, HolderRuns, FrameOK
<1>4. call'[t] = [phase |-> "posting", op |-> op, uri |-> u, attempt |-> n,
                  req |-> id, resp |-> NoResp]
  BY <1>1 DEF ClientInv, ClientTypeOK
<1>5. \A s \in Tasks : FrameOK(call[s])'
  <2> SUFFICES ASSUME NEW s \in Tasks PROVE FrameOK(call[s])'
    OBVIOUS
  <2>1. CASE s = t
    BY <1>2, <1>4, <2>1 DEF FrameOK
  <2>2. CASE s # t
    BY <1>3, <2>2 DEF FrameOK, IdleCall
  <2> QED
    BY <2>1, <2>2
<1>6. HolderRuns'
  BY <1>3, <1>4 DEF HolderRuns, IdleCall
<1>7. pending' = <<[id |-> id, to |-> t]>>
  BY <1>1
<1>8. SingleInFlight'
  BY <1>4, <1>7 DEF SingleInFlight
<1>9. AnswerTaken'
  BY <1>3, <1>4 DEF AnswerTaken, IdleCall
<1> QED
  BY <1>3, <1>4, <1>5, <1>6, <1>8, <1>9, SendType DEF ClientInv

\* Nothing is pending while no call waits for an answer.
LEMMA NothingPending ==
    ASSUME ClientInv,
           \/ lock = NoTask
           \/ \E t \in Tasks : /\ lock = t
                               /\ \/ call[t].phase \notin {"posting", "posted", "waiting"}
                                  \/ call[t].resp # NoResp
    PROVE  pending = <<>>
<1>1. CASE \E t \in Tasks : call[t].resp # NoResp
  BY <1>1 DEF ClientInv, AnswerTaken
<1>2. CASE ~ \E t \in Tasks : call[t].resp # NoResp
  <2> SUFFICES ASSUME pending # <<>> PROVE FALSE
    OBVIOUS
  <2>1. 1 \in DOMAIN pending
    BY EmptySeq, LenProperties DEF ClientInv, ClientTypeOK
  <2>2. pending[1] \in Pending
    BY <2>1 DEF ClientInv, ClientTypeOK
  <2>3. /\ lock = pending[1].to /\ lock \in Tasks
        /\ call[lock].phase \in {"posting", "posted", "waiting"}
    BY <2>1, <2>2 DEF ClientInv, SingleInFlight, Pending
  <2> QED
    BY <1>2, <2>3, ConstantsAssumption
<1> QED
  BY <1>1, <1>2

\* The breaker check of get_key keeps the invariant.
LEMMA PassBreakerStep ==
    ASSUME ClientInv, NEW t \in Tasks, NEW u \in Uris, PassBreaker(t, u),
           lock = t \/ lock = NoTask, pending = <<>>
    PROVE  /\ call' \in [Tasks -> Call] /\ pending' \in Seq(Pending)
           /\ lock' \in Tasks \cup {NoTask}
           /\ cb_state' \in CbStates /\ cb_failures' \in Nat
           /\ cooldown' \in {"running", "elapsed"}
           /\ \A s \in Tasks : FrameOK(call[s])'
           /\ HolderRuns' /\ AnswerTaken' /\ SingleInFlight'
           /\ CountOK' /\ NoRetrieveWhileOpen'
           /\ \A s \in Tasks : call'[s].resp = NoResp
<1>1. CASE cb_state = "Open" /\ cooldown = "running"
  <2>1. Return(t) /\ UNCHANGED <<pending, breaker>>
    BY <1>1 DEF PassBreaker
  <2> QED
    BY <2>1, ReturnStep DEF ClientInv, ClientTypeOK, breaker, CountOK,
       NoRetrieveWhileOpen, IdleCall
<1>2. CASE ~(cb_state = "Open" /\ cooldown = "running")
  <2>1. /\ cb_state' = IF cb_state = "Open" THEN "HalfOpen" ELSE cb_state
        /\ SendKmsRequest(t, "retrieve", u, 1)
        /\ lock' = t
        /\ UNCHANGED <<cb_failures, cooldown>>
    BY <1>2 DEF PassBreaker
  <2>2. /\ call' \in [Tasks -> Call] /\ pending' \in Seq(Pending)
        /\ \A s \in Tasks : FrameOK(call[s])'
        /\ HolderRuns' /\ AnswerTaken' /\ SingleInFlight'
        /\ \A s \in Tasks : s # t => call'[s] = IdleCall
        /\ call'[t].resp = NoResp
    BY <2>1, SendStep
  <2>3. cb_state' \in CbStates /\ cb_state' # "Open"
    BY <2>1 DEF ClientInv, ClientTypeOK, CbStates
  <2>4. CountOK'
    BY <2>1 DEF ClientInv, ClientTypeOK, CountOK
  <2>5. NoRetrieveWhileOpen'
    BY <2>3 DEF NoRetrieveWhileOpen
  <2> QED
    BY <2>1, <2>2, <2>3, <2>4, <2>5 DEF ClientInv, ClientTypeOK, IdleCall
<1> QED
  BY <1>1, <1>2

LEMMA ClientInvNext == ClientInv /\ [Next]_vars => ClientInv'
<1> SUFFICES ASSUME ClientInv, [Next]_vars PROVE ClientInv'
  OBVIOUS
<1>1. ASSUME NEW t \in Tasks, Initialize(t) PROVE ClientInv'
  <2>1. /\ lock = NoTask /\ lock' = t /\ pending' = pending
        /\ call' = [call EXCEPT ![t] = Details("connect", NoUri)]
        /\ UNCHANGED <<atKms, key_cache, eph, validity, cb_state, cb_failures,
                       cooldown>>
    BY <1>1 DEF Initialize, MayEnter, context, breaker
  <2>2. Details("connect", NoUri) \in Call
    BY ConstantsAssumption DEF Details, Call
  <2>3. pending = <<>>
    BY <2>1, NothingPending
  <2>4. \A s \in Tasks : s # t => call'[s] = IdleCall
    BY <2>1, ConstantsAssumption DEF ClientInv, ClientTypeOK, HolderRuns, FrameOK
  <2>5. call'[t] = Details("connect", NoUri)
    BY <2>1 DEF ClientInv, ClientTypeOK
  <2>6. ClientTypeOK'
    BY <2>1, <2>2 DEF ClientInv, ClientTypeOK
  <2>7. \A s \in Tasks : FrameOK(call[s])'
    BY <2>4, <2>5 DEF FrameOK, IdleCall, Details
  <2>8. HolderRuns' /\ AnswerTaken'
    BY <2>1, <2>3, <2>4, <2>5 DEF HolderRuns, AnswerTaken, IdleCall, Details
  <2>9. SingleInFlight'
    BY <2>1, <2>3 DEF SingleInFlight
  <2>10. CountOK' /\ NoRetrieveWhileOpen'
    BY <2>1, <2>4, <2>5 DEF ClientInv, CountOK,
       NoRetrieveWhileOpen, IdleCall, Details
  <2> QED
    BY <2>6, <2>7, <2>8, <2>9, <2>10 DEF ClientInv
<1>2. ASSUME NEW t \in Tasks, NEW u \in Uris, GetKey(t, u) PROVE ClientInv'
  <2>1. /\ lock = NoTask
        /\ key_cache' \in [Uris -> Uris \cup {NoUri}]
        /\ UNCHANGED <<atKms, eph, validity>>
    BY <1>2 DEF GetKey, MayEnter, context, ClientInv, ClientTypeOK
  <2>2. pending = <<>>
    BY <2>1, NothingPending
  <2>3. CASE validity = "expired"
    <3>1. /\ lock' = t /\ pending' = pending
          /\ call' = [call EXCEPT ![t] = Details("renew", u)]
          /\ UNCHANGED <<cb_state, cb_failures, cooldown>>
      BY <1>2, <2>3 DEF GetKey, breaker
    <3>2. Details("renew", u) \in Call
      BY ConstantsAssumption DEF Details, Call
    <3>3. \A s \in Tasks : s # t => call'[s] = IdleCall
      BY <2>1, <3>1, ConstantsAssumption DEF ClientInv, ClientTypeOK, HolderRuns, FrameOK
    <3>4. call'[t] = Details("renew", u)
      BY <3>1 DEF ClientInv, ClientTypeOK
    <3>5. ClientTypeOK'
      BY <2>1, <3>1, <3>2 DEF ClientInv, ClientTypeOK
    <3>6. \A s \in Tasks : FrameOK(call[s])'
      BY <3>3, <3>4 DEF FrameOK, IdleCall, Details
    <3>7. HolderRuns' /\ AnswerTaken'
      BY <2>2, <3>1, <3>3, <3>4 DEF HolderRuns, AnswerTaken, IdleCall, Details
    <3>8. SingleInFlight'
      BY <2>2, <3>1 DEF SingleInFlight
    <3>9. CountOK' /\ NoRetrieveWhileOpen'
      BY <3>1, <3>3, <3>4 DEF ClientInv, CountOK,
         NoRetrieveWhileOpen, IdleCall, Details
    <3> QED
      BY <3>5, <3>6, <3>7, <3>8, <3>9 DEF ClientInv
  <2>4. CASE validity # "expired"
    <3>1. PassBreaker(t, u)
      BY <1>2, <2>4 DEF GetKey
    <3> QED
      BY <2>1, <2>2, <3>1, PassBreakerStep DEF ClientInv, ClientTypeOK
  <2> QED
    BY <2>3, <2>4
<1>3. ASSUME NEW t \in Tasks, FetchDetails(t) PROVE ClientInv'
  <2>1. lock = t /\ call[t].phase = "details"
    BY <1>3 DEF FetchDetails, ClientInv, HolderRuns
  <2>2. pending = <<>>
    BY <2>1, NothingPending
  <2>3. UNCHANGED <<atKms, key_cache, eph, validity, cb_state, cb_failures,
                    cooldown>>
    BY <1>3 DEF FetchDetails, ReturnError, context, breaker
  <2>4. CASE Return(t) /\ UNCHANGED pending
    BY <2>1, <2>2, <2>3, <2>4, ReturnStep DEF ClientInv, ClientTypeOK,
       CountOK, NoRetrieveWhileOpen, IdleCall
  <2>5. CASE SendKmsRequest(t, call[t].op, call[t].uri, 0) /\ UNCHANGED lock
    <3>1. /\ call[t].op \in {"connect", "renew", "retrieve"}
          /\ call[t].uri \in Uris \cup {NoUri}
          /\ call[t].op # "connect" => call[t].uri \in Uris
      BY <2>1 DEF ClientInv, ClientTypeOK, Call, FrameOK
    <3>2. /\ call' \in [Tasks -> Call] /\ pending' \in Seq(Pending)
          /\ \A s \in Tasks : FrameOK(call[s])'
          /\ HolderRuns' /\ AnswerTaken' /\ SingleInFlight'
          /\ \A s \in Tasks : s # t => call'[s] = IdleCall
          /\ call'[t].op = call[t].op
      BY <2>1, <2>2, <2>5, <3>1, SendStep
    <3>3. CountOK' /\ NoRetrieveWhileOpen'
      BY <2>1, <2>3, <3>2 DEF ClientInv, CountOK,
         NoRetrieveWhileOpen, IdleCall
    <3> QED
      BY <2>3, <2>5, <3>2, <3>3 DEF ClientInv, ClientTypeOK
  <2> QED
    BY <1>3, <2>4, <2>5 DEF FetchDetails, ReturnError
<1>4. ASSUME NEW t \in Tasks, PostReceived(t) \/ PostReturns(t) PROVE ClientInv'
  <2>1. PICK ph \in {"posted", "waiting"} :
          /\ call[t].phase \in {"posting", "posted"}
          /\ call' = [call EXCEPT ![t].phase = ph]
    BY <1>4 DEF PostReceived, PostReturns
  <2>2. UNCHANGED <<lock, pending, key_cache, eph, validity, cb_state,
                    cb_failures, cooldown>>
    BY <1>4 DEF PostReceived, PostReturns, context, breaker
  <2>3. lock = t
    BY <2>1 DEF ClientInv, HolderRuns
  <2>4. call[t] \in Call /\ call[t].req \in ReqIds /\ FrameOK(call[t])
    BY <2>1 DEF ClientInv, ClientTypeOK, FrameOK
  <2>5. RequestOf(call[t]) \in Request
    BY <2>4, RequestType DEF ClientInv
  <2>6. atKms' \in Seq(Request)
    <3>1. Append(atKms, RequestOf(call[t])) \in Seq(Request)
      BY <2>5, AppendProperties DEF ClientInv, ClientTypeOK
    <3> QED
      BY <1>4, <3>1 DEF PostReceived, PostReturns, ClientInv, ClientTypeOK
  <2>7. /\ call'[t] = [call[t] EXCEPT !.phase = ph]
        /\ \A s \in Tasks : s # t => call'[s] = call[s]
    BY <2>1 DEF ClientInv, ClientTypeOK
  <2>8. /\ call'[t] \in Call /\ call'[t].phase = ph /\ call'[t].op = call[t].op
        /\ call'[t].req = call[t].req /\ call'[t].uri = call[t].uri
        /\ call'[t].resp = call[t].resp
    BY <2>4, <2>7 DEF Call
  <2>9. call' \in [Tasks -> Call]
    BY <2>1, <2>7, <2>8 DEF ClientInv, ClientTypeOK
  <2>10. ClientTypeOK'
    BY <2>2, <2>6, <2>9 DEF ClientInv, ClientTypeOK
  <2>11. \A s \in Tasks : FrameOK(call[s])'
    <3> SUFFICES ASSUME NEW s \in Tasks PROVE FrameOK(call[s])'
      OBVIOUS
    <3>1. CASE s = t
      BY <2>1, <2>4, <2>8, <3>1 DEF FrameOK
    <3>2. CASE s # t
      BY <2>7, <3>2 DEF ClientInv, FrameOK
    <3> QED
      BY <3>1, <3>2
  <2>12. HolderRuns' /\ AnswerTaken'
    BY <2>1, <2>2, <2>3, <2>7, <2>8 DEF ClientInv, HolderRuns, AnswerTaken
  <2>13. SingleInFlight'
    BY <2>2, <2>3, <2>8 DEF ClientInv, SingleInFlight
  <2>14. CountOK' /\ NoRetrieveWhileOpen'
    BY <2>1, <2>2, <2>7, <2>8 DEF ClientInv, CountOK,
       NoRetrieveWhileOpen
  <2> QED
    BY <2>10, <2>11, <2>12, <2>13, <2>14 DEF ClientInv
<1>5. ASSUME NEW t \in Tasks, PostFails(t) \/ ResponseTimeout(t)
      PROVE  ClientInv'
  <2>1. call[t].phase \in {"posting", "posted", "waiting"} /\ GiveUp(t)
    BY <1>5 DEF PostFails, ResponseTimeout
  <2>2. /\ pending' = Without(pending, call[t].req)
        /\ call' = [call EXCEPT ![t].phase = "failed", ![t].resp = NoResp]
        /\ UNCHANGED <<lock, key_cache, eph, validity, cb_state, cb_failures,
                       cooldown>>
    BY <2>1 DEF GiveUp, context, breaker
  <2>3. lock = t
    BY <2>1 DEF ClientInv, HolderRuns
  <2>4. pending' = <<>>
    <3>1. \A k \in DOMAIN pending : pending[k].id = call[t].req
      BY <2>3 DEF ClientInv, SingleInFlight
    <3> QED
      BY <2>2, <3>1, WithoutOnly DEF ClientInv, ClientTypeOK, SingleInFlight
  <2>5. atKms' \in Seq(Request)
    BY <2>1, WithoutType DEF GiveUp, ClientInv, ClientTypeOK
  <2>6. call[t] \in Call /\ FrameOK(call[t])
    BY DEF ClientInv, ClientTypeOK
  <2>7. /\ call'[t] = [call[t] EXCEPT !.phase = "failed", !.resp = NoResp]
        /\ \A s \in Tasks : s # t => call'[s] = call[s]
    BY <2>2 DEF ClientInv, ClientTypeOK
  <2>8. /\ call'[t] \in Call /\ call'[t].phase = "failed"
        /\ call'[t].op = call[t].op /\ call'[t].uri = call[t].uri
        /\ call'[t].resp = NoResp
    BY <2>6, <2>7 DEF Call
  <2>9. call' \in [Tasks -> Call]
    BY <2>2, <2>7, <2>8 DEF ClientInv, ClientTypeOK
  <2>10. ClientTypeOK'
    BY <2>2, <2>4, <2>5, <2>9, EmptySeq DEF ClientInv, ClientTypeOK
  <2>11. \A s \in Tasks : FrameOK(call[s])'
    <3> SUFFICES ASSUME NEW s \in Tasks PROVE FrameOK(call[s])'
      OBVIOUS
    <3>1. CASE s = t
      BY <2>1, <2>6, <2>8, <3>1 DEF FrameOK
    <3>2. CASE s # t
      BY <2>7, <3>2 DEF ClientInv, FrameOK
    <3> QED
      BY <3>1, <3>2
  <2>12. HolderRuns'
    BY <2>1, <2>2, <2>3, <2>7, <2>8 DEF ClientInv, HolderRuns
  <2>13. SingleInFlight' /\ AnswerTaken'
    BY <2>4 DEF SingleInFlight, AnswerTaken
  <2>14. CountOK' /\ NoRetrieveWhileOpen'
    BY <2>1, <2>2, <2>7, <2>8 DEF ClientInv, CountOK,
       NoRetrieveWhileOpen
  <2> QED
    BY <2>10, <2>11, <2>12, <2>13, <2>14 DEF ClientInv
<1>6. ASSUME NEW t \in Tasks, Retry(t) PROVE ClientInv'
  <2>1. /\ call[t].phase = "failed" /\ call[t].op = "retrieve"
        /\ SendKmsRequest(t, "retrieve", call[t].uri, call[t].attempt + 1)
        /\ UNCHANGED <<lock, atKms, key_cache, eph, validity, cb_state,
                       cb_failures, cooldown>>
    BY <1>6 DEF Retry, context, breaker
  <2>2. lock = t /\ call[t].uri \in Uris /\ call[t].attempt + 1 \in Nat
    BY <2>1 DEF ClientInv, ClientTypeOK, HolderRuns, FrameOK, Call
  <2>3. pending = <<>>
    BY <2>1, <2>2, NothingPending
  <2>4. /\ call' \in [Tasks -> Call] /\ pending' \in Seq(Pending)
        /\ \A s \in Tasks : FrameOK(call[s])'
        /\ HolderRuns' /\ AnswerTaken' /\ SingleInFlight'
    BY <2>1, <2>2, <2>3, SendStep
  <2>5. CountOK' /\ cb_state # "Open"
    BY <2>1 DEF ClientInv, CountOK, NoRetrieveWhileOpen
  <2>6. NoRetrieveWhileOpen'
    BY <2>1, <2>5 DEF NoRetrieveWhileOpen
  <2> QED
    BY <2>1, <2>4, <2>5, <2>6 DEF ClientInv, ClientTypeOK
<1>7. ASSUME NEW t \in Tasks, RecordFailure(t) PROVE ClientInv'
  <2>1. /\ call[t].phase \in {"failed", "refused"} /\ Return(t)
        /\ cb_failures' = cb_failures + 1 /\ cooldown' = "running"
        /\ cb_state' = IF cb_failures + 1 >= CB_FAILURE_THRESHOLD
                       THEN "Open" ELSE cb_state
        /\ UNCHANGED <<pending, atKms, key_cache, eph, validity>>
    BY <1>7 DEF RecordFailure, ReturnError, context
  <2>2. lock = t
    BY <2>1 DEF ClientInv, HolderRuns
  <2>3. pending = <<>>
    BY <2>1, <2>2, NothingPending
  <2>4. /\ call' \in [Tasks -> Call] /\ lock' \in Tasks \cup {NoTask}
        /\ \A s \in Tasks : FrameOK(call[s])'
        /\ HolderRuns' /\ AnswerTaken' /\ SingleInFlight'
        /\ \A s \in Tasks : call'[s] = IdleCall
    BY <2>1, <2>2, <2>3, ReturnStep
  <2>5. CountOK'
    BY <2>1, ConstantsAssumption DEF ClientInv, ClientTypeOK, CountOK
  <2>6. NoRetrieveWhileOpen'
    BY <2>4 DEF NoRetrieveWhileOpen, IdleCall
  <2>7. cb_state' \in CbStates /\ cb_failures' \in Nat
    BY <2>1 DEF ClientInv, ClientTypeOK, CbStates
  <2> QED
    BY <2>1, <2>4, <2>5, <2>6, <2>7 DEF ClientInv, ClientTypeOK
<1>8. ASSUME NEW t \in Tasks, InitializeFails(t) \/ BadAnswer(t)
      PROVE  ClientInv'
  <2>1. /\ \/ call[t].phase \in {"failed", "refused"}
           \/ call[t].phase = "waiting" /\ call[t].resp # NoResp
        /\ Return(t)
        /\ UNCHANGED <<pending, atKms, key_cache, eph, validity, cb_state,
                       cb_failures, cooldown>>
    BY <1>8 DEF InitializeFails, BadAnswer, ReturnError, Answered, context,
       breaker
  <2>2. lock = t
    BY <2>1 DEF ClientInv, HolderRuns
  <2>3. pending = <<>>
    BY <2>1, <2>2, NothingPending
  <2> QED
    BY <2>1, <2>2, <2>3, ReturnStep DEF ClientInv, ClientTypeOK,
       CountOK, NoRetrieveWhileOpen, IdleCall
<1>9. ASSUME NEW t \in Tasks, KeyRetrieved(t) PROVE ClientInv'
  <2>1. /\ call[t].phase = "waiting" /\ call[t].resp # NoResp
        /\ call[t].op = "retrieve" /\ Return(t)
        /\ key_cache' = [key_cache EXCEPT ![call[t].uri] = call[t].resp.req.uri]
        /\ cb_failures' = 0
        /\ cb_state' = IF cb_state = "HalfOpen" THEN "Closed" ELSE cb_state
        /\ UNCHANGED <<pending, atKms, eph, validity, cooldown>>
    BY <1>9 DEF KeyRetrieved, Answered, context
  <2>2. lock = t
    BY <2>1 DEF ClientInv, HolderRuns
  <2>3. pending = <<>>
    BY <2>1, <2>2, NothingPending
  <2>4. /\ call' \in [Tasks -> Call] /\ lock' \in Tasks \cup {NoTask}
        /\ \A s \in Tasks : FrameOK(call[s])'
        /\ HolderRuns' /\ AnswerTaken' /\ SingleInFlight'
        /\ \A s \in Tasks : call'[s] = IdleCall
    BY <2>1, <2>2, <2>3, ReturnStep
  <2>5. call[t].resp \in Response
    BY <2>1 DEF ClientInv, ClientTypeOK, Call
  <2>6. call[t].resp.req.uri \in Uris \cup {NoUri}
    BY <2>5 DEF Response, Request
  <2>7. key_cache' \in [Uris -> Uris \cup {NoUri}]
    BY <2>1, <2>6 DEF ClientInv, ClientTypeOK
  <2>8. cb_state # "Open" /\ cb_state \in CbStates
    BY <2>1 DEF ClientInv, ClientTypeOK, NoRetrieveWhileOpen
  <2>9. cb_state' = "Closed" /\ CountOK'
    BY <2>1, <2>8, ConstantsAssumption DEF CbStates, CountOK
  <2>10. NoRetrieveWhileOpen'
    BY <2>4 DEF NoRetrieveWhileOpen, IdleCall
  <2> QED
    BY <2>1, <2>4, <2>7, <2>9, <2>10 DEF ClientInv, ClientTypeOK, CbStates
<1>10. ASSUME NEW t \in Tasks, Initialized(t) PROVE ClientInv'
  <2>1. /\ call[t].phase = "waiting" /\ call[t].resp # NoResp
        /\ eph' = call[t].req /\ validity' = "valid"
        /\ UNCHANGED <<atKms, key_cache>>
    BY <1>10 DEF Initialized, Answered
  <2>2. lock = t /\ call[t].req \in ReqIds
    BY <2>1 DEF ClientInv, HolderRuns, FrameOK
  <2>3. pending = <<>>
    BY <2>1, <2>2, NothingPending
  <2>4. CASE call[t].op = "connect"
    <3>1. Return(t) /\ UNCHANGED <<pending, cb_state, cb_failures, cooldown>>
      BY <1>10, <2>4 DEF Initialized, breaker
    <3> QED
      BY <2>1, <2>2, <2>3, <3>1, ReturnStep DEF ClientInv, ClientTypeOK,
         CountOK, NoRetrieveWhileOpen, IdleCall
  <2>5. CASE call[t].op # "connect"
    <3>1. PassBreaker(t, call[t].uri)
      BY <1>10, <2>5 DEF Initialized
    <3>2. call[t].uri \in Uris
      BY <2>1, <2>5 DEF ClientInv, FrameOK
    <3> QED
      BY <2>1, <2>2, <2>3, <3>1, <3>2, PassBreakerStep DEF ClientInv, ClientTypeOK
  <2> QED
    BY <2>4, <2>5
<1>11. ASSUME NEW body \in Bodies, AnswerArrives(body)
       PROVE  ClientInv'
  <2>1. /\ atKms # <<>> /\ atKms' = Tail(atKms)
        /\ UNCHANGED <<lock, key_cache, eph, validity, cb_state, cb_failures,
                       cooldown>>
    BY <1>11 DEF AnswerArrives, context, breaker
  <2>2. atKms' \in Seq(Request) /\ Head(atKms) \in Request
    BY <2>1, HeadTailProperties DEF ClientInv, ClientTypeOK
  <2>3. CASE pending = <<>>
    <3>1. UNCHANGED <<pending, call>>
      BY <1>11, <2>3 DEF AnswerArrives
    <3> QED
      BY <2>1, <2>2, <3>1 DEF ClientInv, ClientTypeOK, FrameOK, HolderRuns,
         AnswerTaken, SingleInFlight, CountOK,
         NoRetrieveWhileOpen
  <2>4. CASE pending # <<>>
    <3> DEFINE t == Head(pending).to
               r == [req |-> Head(atKms), body |-> body]
    <3>1. /\ pending' = Tail(pending)
          /\ call' = [call EXCEPT ![t].resp = r]
      BY <1>11, <2>4 DEF AnswerArrives
    <3>2. /\ pending' \in Seq(Pending) /\ Head(pending) \in Pending
          /\ Len(pending') = Len(pending) - 1 /\ Len(pending) \in Nat
      BY <2>4, <3>1, HeadTailProperties, LenProperties DEF ClientInv, ClientTypeOK
    <3>3. pending' = <<>>
      BY <3>2, EmptySeq, LenProperties DEF ClientInv, SingleInFlight
    <3>4. t \in Tasks /\ r \in Response
      BY <2>2, <3>2 DEF Pending, Response
    <3>5. t = lock
      <4>1. 1 \in DOMAIN pending
        BY <2>4, EmptySeq, LenProperties DEF ClientInv, ClientTypeOK
      <4> QED
        BY <4>1 DEF ClientInv, SingleInFlight
    <3> HIDE DEF t, r
    <3>6. call[t] \in Call /\ FrameOK(call[t]) /\ call[t].phase # "idle"
      BY <3>4, <3>5 DEF ClientInv, ClientTypeOK, HolderRuns
    <3>7. /\ call'[t] = [call[t] EXCEPT !.resp = r]
          /\ \A s \in Tasks : s # t => call'[s] = call[s]
      BY <3>1, <3>4 DEF ClientInv, ClientTypeOK
    <3>8. /\ call'[t] \in Call /\ call'[t].phase = call[t].phase
          /\ call'[t].op = call[t].op /\ call'[t].uri = call[t].uri
          /\ call'[t].req = call[t].req /\ call'[t].resp = r
      BY <3>4, <3>6, <3>7 DEF Call
    <3>9. call' \in [Tasks -> Call]
      BY <3>1, <3>4, <3>7, <3>8 DEF ClientInv, ClientTypeOK
    <3>10. ClientTypeOK'
      BY <2>1, <2>2, <3>2, <3>9 DEF ClientInv, ClientTypeOK
    <3>11. \A s \in Tasks : FrameOK(call[s])'
      <4> SUFFICES ASSUME NEW s \in Tasks PROVE FrameOK(call[s])'
        OBVIOUS
      <4>1. CASE s = t
        BY <3>6, <3>8, <4>1 DEF FrameOK
      <4>2. CASE s # t
        BY <3>7, <4>2 DEF ClientInv, FrameOK
      <4> QED
        BY <4>1, <4>2
    <3>12. HolderRuns'
      BY <2>1, <3>7, <3>8 DEF ClientInv, HolderRuns
    <3>13. SingleInFlight' /\ AnswerTaken'
      BY <3>3 DEF SingleInFlight, AnswerTaken
    <3>14. CountOK' /\ NoRetrieveWhileOpen'
      BY <2>1, <3>7, <3>8 DEF ClientInv, CountOK,
         NoRetrieveWhileOpen
    <3> QED
      BY <3>10, <3>11, <3>12, <3>13, <3>14 DEF ClientInv
  <2> QED
    BY <2>3, <2>4
<1>12. CASE AnswerLost \/ ContextExpires \/ CooldownElapses
  <2>1. /\ UNCHANGED <<lock, call, pending, key_cache, eph, cb_state,
                       cb_failures>>
        /\ validity' \in {"valid", "expired"}
        /\ cooldown' \in {"running", "elapsed"}
    BY <1>12 DEF AnswerLost, ContextExpires, CooldownElapses, context, breaker,
       ClientInv, ClientTypeOK
  <2>2. atKms' \in Seq(Request)
    BY <1>12, HeadTailProperties DEF AnswerLost, ContextExpires,
       CooldownElapses, ClientInv, ClientTypeOK
  <2> QED
    BY <2>1, <2>2 DEF ClientInv, ClientTypeOK, FrameOK, HolderRuns, AnswerTaken,
       SingleInFlight, CountOK, NoRetrieveWhileOpen
<1>13. CASE UNCHANGED vars
  BY <1>13 DEF vars, ClientInv, ClientTypeOK, FrameOK, HolderRuns, AnswerTaken,
     SingleInFlight, CountOK, NoRetrieveWhileOpen
<1> QED
  BY <1>1, <1>2, <1>3, <1>4, <1>5, <1>6, <1>7, <1>8, <1>9, <1>10, <1>11,
     <1>12, <1>13 DEF Next, Step, HttpStep, TaskStep

\* The client's own state keeps its invariant.
THEOREM ClientInvariant == Spec => []ClientInv
<1> QED
  BY ClientInvInit, ClientInvNext, PTL DEF Spec

\* The handler's mutex keeps at most one KMS request pending, the request of
\* the task that holds the mutex, for any number of tasks.
THEOREM OneRequestInFlight == Spec => []SingleInFlight
<1>1. ClientInv => SingleInFlight
  BY DEF ClientInv
<1> QED
  BY <1>1, ClientInvariant, PTL

\* No key is retrieved from the KMS while the breaker is open.
THEOREM BreakerStopsRetrieval == Spec => []NoRetrieveWhileOpen
<1>1. ClientInv => NoRetrieveWhileOpen
  BY DEF ClientInv
<1> QED
  BY <1>1, ClientInvariant, PTL
-----------------------------------------------------------------------------
\* The breaker's count against what really failed: a failure it counts is a failed
\* get_key call, and only a call that got its key clears either of them.

RowInv == /\ row \in 0..CB_FAILURE_THRESHOLD
          /\ cb_failures <= row \/ row = CB_FAILURE_THRESHOLD

\* The row of failures grows by one or stays as it is.
RowKept == row' = row \/ (row # CB_FAILURE_THRESHOLD /\ row' = row + 1)

LEMMA RowNext == ClientInv /\ RowInv /\ [Next]_vars => RowInv'
<1> SUFFICES ASSUME ClientInv, RowInv, [Next]_vars PROVE RowInv'
  OBVIOUS
<1>0. cb_failures \in Nat /\ row \in Nat /\ CB_FAILURE_THRESHOLD \in Nat \ {0}
  BY ConstantsAssumption DEF ClientInv, ClientTypeOK, RowInv
<1>1. ASSUME NEW t \in Tasks, KeyRetrieved(t) PROVE RowInv'
  BY <1>0, <1>1 DEF KeyRetrieved, RowInv
<1>2. ASSUME NEW t \in Tasks, RecordFailure(t) PROVE RowInv'
  <2>1. /\ cb_failures' = cb_failures + 1
        /\ row' = IF row = CB_FAILURE_THRESHOLD THEN row ELSE row + 1
    BY <1>2 DEF RecordFailure, ReturnError
  <2> QED
    BY <1>0, <2>1 DEF RowInv
<1>3. ASSUME cb_failures' = cb_failures, RowKept PROVE RowInv'
  BY <1>0, <1>3 DEF RowInv, RowKept
<1>4. ASSUME NEW t \in Tasks,
             FetchDetails(t) \/ InitializeFails(t) \/ BadAnswer(t)
      PROVE  RowInv'
  <2>1. cb_failures' = cb_failures /\ RowKept
    BY <1>4 DEF FetchDetails, InitializeFails, BadAnswer, ReturnError, RowKept,
       breaker
  <2> QED
    BY <1>3, <2>1
<1>5. ASSUME NEW t \in Tasks,
             \/ Initialize(t) \/ \E u \in Uris : GetKey(t, u)
             \/ PostReceived(t) \/ PostReturns(t) \/ PostFails(t)
             \/ ResponseTimeout(t) \/ Retry(t) \/ Initialized(t)
      PROVE  RowInv'
  <2>1. cb_failures' = cb_failures /\ row' = row
    BY <1>5 DEF Initialize, GetKey, PassBreaker, PostReceived, PostReturns,
       PostFails, ResponseTimeout, GiveUp, Retry, Initialized, breaker
  <2> QED
    BY <1>3, <2>1 DEF RowKept
<1>6. ASSUME \/ \E body \in Bodies : AnswerArrives(body)
             \/ AnswerLost \/ ContextExpires \/ CooldownElapses \/ UNCHANGED vars
      PROVE  RowInv'
  <2>1. cb_failures' = cb_failures /\ row' = row
    BY <1>6 DEF AnswerArrives, AnswerLost, ContextExpires, CooldownElapses,
       vars, breaker
  <2> QED
    BY <1>3, <2>1 DEF RowKept
<1> QED
  BY <1>1, <1>2, <1>4, <1>5, <1>6 DEF Next, Step, HttpStep, TaskStep

LEMMA RowInvariant == Spec => []RowInv
<1>1. Init => RowInv
  BY ConstantsAssumption DEF Init, RowInv
<1> QED
  BY <1>1, RowNext, ClientInvariant, PTL DEF Spec

\* The state of the client and the history of its failures have their types.
THEOREM TypeCorrect == Spec => []TypeOK
<1>1. ClientInv /\ RowInv => TypeOK
  BY DEF ClientInv, RowInv, TypeOK
<1> QED
  BY <1>1, ClientInvariant, RowInvariant, PTL

\* The breaker is open or half-open only if the last CB_FAILURE_THRESHOLD get_key
\* calls that went to the KMS failed, for any threshold and any number of tasks.
THEOREM BreakerHasCause == Spec => []OpensOnlyAfterFailures
<1>1. ClientInv /\ RowInv => OpensOnlyAfterFailures
  BY ConstantsAssumption DEF ClientInv, ClientTypeOK, CountOK, RowInv,
     OpensOnlyAfterFailures
<1> QED
  BY <1>1, ClientInvariant, RowInvariant, PTL
-----------------------------------------------------------------------------
\* Matching by position is safe when the KMS forgets a request its caller gave
\* up on: then an answer can only be for the request that is pending.

\* What the KMS has is the request the holder of the mutex waits for, and an
\* answer that was taken is the answer to the request of the call that took it.
OwnAnswer ==
    /\ Len(atKms) <= 1
    /\ \A k \in DOMAIN atKms :
         /\ lock \in Tasks
         /\ call[lock].phase \in {"posted", "waiting"}
         /\ call[lock].resp = NoResp
         /\ atKms[k] = RequestOf(call[lock])
    /\ \A t \in Tasks : call[t].resp # NoResp =>
         /\ call[t].phase \in {"posted", "waiting"}
         /\ call[t].resp.req = RequestOf(call[t])

\* The KMS has no request while no call waits for an answer.
LEMMA NothingAsked ==
    ASSUME ClientInv, OwnAnswer,
           \/ lock = NoTask
           \/ \E t \in Tasks : /\ lock = t
                               /\ \/ call[t].phase \notin {"posted", "waiting"}
                                  \/ call[t].resp # NoResp
    PROVE  atKms = <<>>
<1> SUFFICES ASSUME atKms # <<>> PROVE FALSE
  OBVIOUS
<1>1. 1 \in DOMAIN atKms
  BY EmptySeq, LenProperties DEF ClientInv, ClientTypeOK
<1>2. /\ lock \in Tasks /\ call[lock].phase \in {"posted", "waiting"}
      /\ call[lock].resp = NoResp
  BY <1>1 DEF OwnAnswer
<1> QED
  BY <1>2, ConstantsAssumption

\* A step of the holder that leaves no answer behind keeps OwnAnswer.
LEMMA Quiet ==
    ASSUME ClientInv, NEW t \in Tasks, lock = t \/ lock = NoTask,
           NEW c, c.resp = NoResp, call' = [call EXCEPT ![t] = c],
           OwnAnswer, atKms' = <<>>
    PROVE  OwnAnswer'
<1>1. \A s \in Tasks : call'[s].resp = NoResp
  <2> SUFFICES ASSUME NEW s \in Tasks PROVE call'[s].resp = NoResp
    OBVIOUS
  <2>1. CASE s = t
    BY <2>1 DEF ClientInv, ClientTypeOK
  <2>2. CASE s # t
    <3>1. call'[s] = call[s] /\ lock # s
      BY <2>2, ConstantsAssumption DEF ClientInv, ClientTypeOK
    <3>2. call[s].phase = "idle"
      BY <3>1 DEF ClientInv, HolderRuns
    <3> QED
      BY <3>1, <3>2 DEF ClientInv, FrameOK, IdleCall
  <2> QED
    BY <2>1, <2>2
<1> QED
  BY <1>1 DEF OwnAnswer

\* Returning, sending a request and passing the breaker leave no answer.
LEMMA NoAnswerBehind ==
    ASSUME NEW t \in Tasks, NEW op, NEW u, NEW n,
           Return(t) \/ SendKmsRequest(t, op, u, n) \/ PassBreaker(t, u)
    PROVE  \E c : c.resp = NoResp /\ call' = [call EXCEPT ![t] = c]
<1>1. CASE Return(t)
  BY <1>1 DEF Return, IdleCall
<1>2. ASSUME NEW op2, NEW n2, SendKmsRequest(t, op2, u, n2)
      PROVE  \E c : c.resp = NoResp /\ call' = [call EXCEPT ![t] = c]
  <2> DEFINE ph == IF Len(pending) >= MAX_PENDING_REQUESTS
                   THEN "refused" ELSE "posting"
             c(id) == [phase |-> ph, op |-> op2, uri |-> u, attempt |-> n2,
                       req |-> id, resp |-> NoResp]
  <2>1. PICK id \in FreshIds : call' = [call EXCEPT ![t] = c(id)]
    BY <1>2 DEF SendKmsRequest
  <2>2. c(id).resp = NoResp
    OBVIOUS
  <2> HIDE DEF c
  <2> QED
    BY <2>1, <2>2
<1> QED
  BY <1>1, <1>2 DEF PassBreaker

LEMMA OwnAnswerNext ==
    ASSUME ~LateAnswers, ClientInv, OwnAnswer, KeyMatchesUri, [Next]_vars
    PROVE  OwnAnswer' /\ KeyMatchesUri'
<1>1. ASSUME NEW t \in Tasks, Initialize(t) PROVE OwnAnswer' /\ KeyMatchesUri'
  <2>1. /\ lock = NoTask /\ UNCHANGED <<atKms, key_cache>>
        /\ call' = [call EXCEPT ![t] = Details("connect", NoUri)]
    BY <1>1 DEF Initialize, MayEnter
  <2>2. Details("connect", NoUri).resp = NoResp
    BY DEF Details
  <2>3. atKms' = <<>>
    BY <2>1, NothingAsked
  <2> QED
    BY <2>1, <2>2, <2>3, Quiet DEF KeyMatchesUri
<1>2. ASSUME NEW t \in Tasks, NEW u \in Uris, GetKey(t, u)
      PROVE  OwnAnswer' /\ KeyMatchesUri'
  <2>1. lock = NoTask /\ UNCHANGED atKms
    BY <1>2 DEF GetKey, MayEnter
  <2>2. KeyMatchesUri'
    BY <1>2 DEF GetKey, KeyMatchesUri
  <2>3. Details("renew", u).resp = NoResp
    BY DEF Details
  <2>4. \E c : c.resp = NoResp /\ call' = [call EXCEPT ![t] = c]
    BY <1>2, <2>3, NoAnswerBehind DEF GetKey
  <2>5. atKms' = <<>>
    BY <2>1, NothingAsked
  <2> QED
    BY <2>1, <2>2, <2>4, <2>5, Quiet
<1>3. ASSUME NEW t \in Tasks,
             \/ FetchDetails(t) \/ Retry(t) \/ RecordFailure(t)
             \/ InitializeFails(t) \/ BadAnswer(t) \/ Initialized(t)
      PROVE  OwnAnswer' /\ KeyMatchesUri'
  <2>1. /\ \/ call[t].phase \in {"details", "failed", "refused"}
           \/ call[t].phase = "waiting" /\ call[t].resp # NoResp
        /\ UNCHANGED <<atKms, key_cache>>
    BY <1>3 DEF FetchDetails, Retry, RecordFailure, InitializeFails, BadAnswer,
       Initialized, Answered
  <2>2. lock = t
    BY <2>1 DEF ClientInv, HolderRuns
  <2>3. atKms' = <<>>
    BY <2>1, <2>2, NothingAsked
  <2>4. \E c : c.resp = NoResp /\ call' = [call EXCEPT ![t] = c]
    BY <1>3, NoAnswerBehind DEF FetchDetails, Retry, RecordFailure,
       InitializeFails, BadAnswer, Initialized, ReturnError
  <2> QED
    BY <2>1, <2>2, <2>3, <2>4, Quiet DEF KeyMatchesUri
<1>4. ASSUME NEW t \in Tasks, KeyRetrieved(t)
      PROVE  OwnAnswer' /\ KeyMatchesUri'
  <2>1. /\ call[t].phase = "waiting" /\ call[t].resp # NoResp
        /\ call[t].op = "retrieve" /\ Return(t) /\ UNCHANGED atKms
        /\ key_cache' = [key_cache EXCEPT ![call[t].uri] = call[t].resp.req.uri]
    BY <1>4 DEF KeyRetrieved, Answered
  <2>2. lock = t
    BY <2>1 DEF ClientInv, HolderRuns
  <2>3. atKms' = <<>>
    BY <2>1, <2>2, NothingAsked
  <2>4. \E c : c.resp = NoResp /\ call' = [call EXCEPT ![t] = c]
    BY <2>1, NoAnswerBehind
  <2>5. call[t].resp.req = RequestOf(call[t])
    BY <2>1 DEF OwnAnswer
  <2>6. call[t].resp.req.uri = call[t].uri
    BY <2>1, <2>5 DEF RequestOf
  <2>7. KeyMatchesUri'
    BY <2>1, <2>6 DEF KeyMatchesUri, ClientInv, ClientTypeOK
  <2> QED
    BY <2>2, <2>3, <2>4, <2>7, Quiet
<1>5. ASSUME NEW t \in Tasks, PostFails(t) \/ ResponseTimeout(t)
      PROVE  OwnAnswer' /\ KeyMatchesUri'
  <2>1. call[t].phase \in {"posting", "posted", "waiting"} /\ GiveUp(t)
    BY <1>5 DEF PostFails, ResponseTimeout
  <2>2. lock = t
    BY <2>1 DEF ClientInv, HolderRuns
  <2>3. \A k \in DOMAIN atKms : atKms[k].id = call[t].req
    BY <2>2 DEF OwnAnswer, RequestOf
  <2>4. atKms' = <<>>
    <3>1. atKms' = Without(atKms, call[t].req)
      BY <2>1 DEF GiveUp
    <3> QED
      BY <2>3, <3>1, WithoutOnly DEF ClientInv, ClientTypeOK, OwnAnswer
  <2> DEFINE c == [call[t] EXCEPT !.phase = "failed", !.resp = NoResp]
  <2>5. call' = [call EXCEPT ![t] = c] /\ UNCHANGED key_cache
    BY <2>1 DEF GiveUp
  <2>6. c.resp = NoResp
    BY DEF ClientInv, ClientTypeOK, Call
  <2> HIDE DEF c
  <2> QED
    BY <2>2, <2>4, <2>5, <2>6, Quiet DEF KeyMatchesUri
<1>6. ASSUME NEW t \in Tasks, PostReceived(t)
      PROVE  OwnAnswer' /\ KeyMatchesUri'
  <2>1. /\ call[t].phase = "posting" /\ UNCHANGED <<lock, key_cache, eph>>
        /\ call' = [call EXCEPT ![t].phase = "posted"]
        /\ atKms' = Append(atKms, RequestOf(call[t]))
    BY <1>6 DEF PostReceived, context
  <2>2. lock = t
    BY <2>1 DEF ClientInv, HolderRuns
  <2>3. atKms' = <<RequestOf(call[t])>>
    <3>1. atKms = <<>>
      BY <2>1, <2>2, NothingAsked
    <3> QED
      BY <2>1, <3>1
  <2>4. /\ call'[t] = [call[t] EXCEPT !.phase = "posted"]
        /\ \A s \in Tasks : s # t => call'[s] = call[s]
    BY <2>1 DEF ClientInv, ClientTypeOK
  <2>5. /\ call'[t].phase = "posted" /\ call'[t].op = call[t].op
        /\ call'[t].req = call[t].req /\ call'[t].uri = call[t].uri
        /\ call'[t].resp = call[t].resp
    BY <2>4 DEF ClientInv, ClientTypeOK, Call
  <2>6. RequestOf(call[t])' = RequestOf(call[t])
    BY <2>1, <2>5 DEF RequestOf
  <2>7. \A s \in Tasks : call'[s].resp = NoResp
    <3> SUFFICES ASSUME NEW s \in Tasks PROVE call'[s].resp = NoResp
      OBVIOUS
    <3>1. CASE s = t
      BY <2>1, <2>5, <3>1 DEF OwnAnswer
    <3>2. CASE s # t
      BY <2>2, <2>4, <3>2 DEF ClientInv, HolderRuns, FrameOK, IdleCall
    <3> QED
      BY <3>1, <3>2
  <2>8. OwnAnswer'
    <3>1. Len(atKms') = 1 /\ DOMAIN atKms' = {1} /\ atKms'[1] = RequestOf(call[t])
      BY <2>3
    <3>2. lock' \in Tasks /\ call'[lock'].phase = "posted" /\ lock' = t
      BY <2>1, <2>2, <2>5
    <3> QED
      BY <2>6, <2>7, <3>1, <3>2 DEF OwnAnswer
  <2> QED
    BY <2>1, <2>8 DEF KeyMatchesUri
<1>7. ASSUME NEW t \in Tasks, PostReturns(t)
      PROVE  OwnAnswer' /\ KeyMatchesUri'
  <2>1. /\ call[t].phase = "posted"
        /\ UNCHANGED <<lock, atKms, key_cache, eph>>
        /\ call' = [call EXCEPT ![t].phase = "waiting"]
    BY <1>7 DEF PostReturns, context
  <2>2. lock = t
    BY <2>1 DEF ClientInv, HolderRuns
  <2>3. /\ call'[t] = [call[t] EXCEPT !.phase = "waiting"]
        /\ \A s \in Tasks : s # t => call'[s] = call[s]
    BY <2>1 DEF ClientInv, ClientTypeOK
  <2>4. /\ call'[t].phase = "waiting" /\ call'[t].op = call[t].op
        /\ call'[t].req = call[t].req /\ call'[t].uri = call[t].uri
        /\ call'[t].resp = call[t].resp
    BY <2>3 DEF ClientInv, ClientTypeOK, Call
  <2>5. \A s \in Tasks : RequestOf(call[s])' = RequestOf(call[s])
    BY <2>1, <2>3, <2>4 DEF RequestOf
  <2>6. \A s \in Tasks : call'[s].resp # NoResp =>
          /\ call'[s].phase \in {"posted", "waiting"}
          /\ call'[s].resp.req = RequestOf(call[s])'
    <3> SUFFICES ASSUME NEW s \in Tasks, call'[s].resp # NoResp
                 PROVE  /\ call'[s].phase \in {"posted", "waiting"}
                        /\ call'[s].resp.req = RequestOf(call[s])
      BY <2>5
    <3>1. CASE s = t
      BY <2>4, <3>1 DEF OwnAnswer
    <3>2. CASE s # t
      BY <2>3, <3>2 DEF OwnAnswer
    <3> QED
      BY <3>1, <3>2
  <2>7. OwnAnswer'
    BY <2>1, <2>2, <2>4, <2>5, <2>6 DEF OwnAnswer
  <2> QED
    BY <2>1, <2>7 DEF KeyMatchesUri
<1>8. ASSUME AnswerLost \/ \E body \in Bodies : AnswerArrives(body)
      PROVE  OwnAnswer' /\ KeyMatchesUri'
  <2>1. /\ atKms # <<>> /\ atKms' = Tail(atKms)
        /\ UNCHANGED <<lock, key_cache, eph>>
    BY <1>8 DEF AnswerArrives, AnswerLost, context
  <2>2. /\ atKms' = <<>> /\ 1 \in DOMAIN atKms /\ Head(atKms) = atKms[1]
    <3>1. /\ atKms' \in Seq(Request) /\ Len(atKms') = Len(atKms) - 1
          /\ Len(atKms) \in Nat /\ 1 \in DOMAIN atKms
      BY <2>1, HeadTailProperties, LenProperties, EmptySeq DEF ClientInv, ClientTypeOK
    <3> QED
      BY <3>1, EmptySeq DEF OwnAnswer
  <2>3. /\ lock \in Tasks /\ call[lock].phase \in {"posted", "waiting"}
        /\ Head(atKms) = RequestOf(call[lock])
    BY <2>2 DEF OwnAnswer
  <2>4. CASE call' = call
    BY <2>1, <2>2, <2>4 DEF OwnAnswer, KeyMatchesUri, RequestOf
  <2>5. CASE call' # call
    <3>1. PICK body \in Bodies :
            /\ pending # <<>>
            /\ call' = [call EXCEPT ![Head(pending).to].resp =
                          [req |-> Head(atKms), body |-> body]]
      BY <1>8, <2>5 DEF AnswerArrives, AnswerLost
    <3>2. Head(pending).to = lock
      <4>1. 1 \in DOMAIN pending
        BY <3>1, EmptySeq, LenProperties DEF ClientInv, ClientTypeOK
      <4> QED
        BY <4>1 DEF ClientInv, SingleInFlight
    <3> DEFINE r == [req |-> Head(atKms), body |-> body]
    <3>3. r.req = Head(atKms)
      OBVIOUS
    <3>4. call' = [call EXCEPT ![lock].resp = r]
      BY <3>1, <3>2
    <3> HIDE DEF r
    <3>5. /\ call'[lock] = [call[lock] EXCEPT !.resp = r]
          /\ \A s \in Tasks : s # lock => call'[s] = call[s]
      BY <2>3, <3>4 DEF ClientInv, ClientTypeOK
    <3>6. /\ call'[lock].phase = call[lock].phase
          /\ call'[lock].op = call[lock].op /\ call'[lock].req = call[lock].req
          /\ call'[lock].uri = call[lock].uri /\ call'[lock].resp = r
      BY <2>3, <3>5 DEF ClientInv, ClientTypeOK, Call
    <3>7. \A s \in Tasks : RequestOf(call[s])' = RequestOf(call[s])
      BY <2>1, <3>5, <3>6 DEF RequestOf
    <3>8. \A s \in Tasks : call'[s].resp # NoResp =>
            /\ call'[s].phase \in {"posted", "waiting"}
            /\ call'[s].resp.req = RequestOf(call[s])'
      <4> SUFFICES ASSUME NEW s \in Tasks, call'[s].resp # NoResp
                   PROVE  /\ call'[s].phase \in {"posted", "waiting"}
                          /\ call'[s].resp.req = RequestOf(call[s])
        BY <3>7
      <4>1. CASE s = lock
        BY <2>3, <3>3, <3>6, <4>1
      <4>2. CASE s # lock
        BY <3>5, <4>2 DEF OwnAnswer
      <4> QED
        BY <4>1, <4>2
    <3> QED
      BY <2>1, <2>2, <3>8 DEF OwnAnswer, KeyMatchesUri
  <2> QED
    BY <2>4, <2>5
<1>9. ASSUME ContextExpires \/ CooldownElapses \/ UNCHANGED vars
      PROVE  OwnAnswer' /\ KeyMatchesUri'
  <2>1. UNCHANGED <<lock, call, atKms, key_cache, eph>>
    BY <1>9 DEF ContextExpires, CooldownElapses, vars, context
  <2> QED
    BY <2>1 DEF OwnAnswer, KeyMatchesUri, RequestOf
<1> QED
  BY <1>1, <1>2, <1>3, <1>4, <1>5, <1>6, <1>7, <1>8, <1>9 DEF Next, Step, HttpStep, TaskStep

\* A key is only cached under the URI it belongs to, for any number of tasks,
\* URIs and requests, if the KMS never answers a request its caller gave up on:
\* what the FIFO matching of handle_kms_message needs besides the mutex.
THEOREM KeysMatch ==
    ASSUME ~LateAnswers
    PROVE  Spec => []KeyMatchesUri
<1>1. Init => OwnAnswer /\ KeyMatchesUri
  <2> SUFFICES ASSUME Init PROVE OwnAnswer /\ KeyMatchesUri
    OBVIOUS
  <2>1. \A t \in Tasks : call[t].resp = NoResp
    BY DEF Init, IdleCall
  <2> QED
    BY <2>1 DEF Init, OwnAnswer, KeyMatchesUri
<1>2. ClientInv /\ OwnAnswer /\ KeyMatchesUri /\ [Next]_vars
        => OwnAnswer' /\ KeyMatchesUri'
  BY OwnAnswerNext
<1> QED
  BY <1>1, <1>2, ClientInvariant, PTL DEF Spec
=============================================================================
