------------------------- MODULE RustHandlerProofs -------------------------
(***************************************************************************)
(* Proofs about RustHandler over RustMercurySocket for any number of       *)
(* connections and activity tasks, any cap and any capacity.               *)
(***************************************************************************)
EXTENDS RustHandler, SequenceTheorems, TLAPS

\* The invariant of the socket.
SocketInv == SocketTypeOK /\ ConnectedMeansOpen

\* A queue of events stays one.
LEMMA EventsType ==
    ASSUME NEW S, NEW s \in Seq(S)
    PROVE  /\ \A x \in S : Append(s, x) \in Seq(S)
           /\ \A x, y \in S : s \o <<x, y>> \in Seq(S)
           /\ s # <<>> => Head(s) \in S /\ Tail(s) \in Seq(S)
<1>1. \A x, y \in S : <<x, y>> \in Seq(S)
  OBVIOUS
<1> QED
  BY <1>1, AppendProperties, ConcatProperties, HeadTailProperties

\* What the application calls, and the steps of a call.
LEMMA CallSteps ==
    ASSUME SocketInv, NEW p \in Callers,
           SocketConnect(p) \/ SocketDisconnect(p) \/ CallStep(p)
    PROVE  SocketInv'
<1> USE DEF Goto, flags, SockPhases
<1>1. sock' \in [Callers -> SockPhases] /\ attempts' = attempts
      /\ stability' \in {"off", "running"}
      /\ should_reconnect' \in BOOLEAN
  BY DEF SocketConnect, SocketDisconnect, CallStep, ConnectCancels, Dial,
     DialFails, Ready, ScheduleReset, DropFlag, StopTimer, Notify, SocketInv,
     SocketTypeOK
<1>2. events' \in Seq(MercuryEvents)
  BY EventsType DEF SocketConnect, SocketDisconnect, CallStep, ConnectCancels,
     Dial, DialFails, Ready, ScheduleReset, DropFlag, StopTimer, Notify,
     SocketInv, SocketTypeOK, MercuryEvents, DisconnectReasons
<1>3. CASE \E c \in Conns : Ready(p, c)
  <2>1. PICK c \in Conns : Ready(p, c)
    BY <1>3
  <2>2. /\ reader' = [reader EXCEPT ![c] = [phase |-> "open", code |-> "other"]]
        /\ ws_connected' = TRUE
    BY <2>1 DEF Ready
  <2>3. reader' \in [Conns -> [phase : ReaderPhases, code : CloseCodes]]
    BY <2>2 DEF SocketInv, SocketTypeOK, ReaderPhases, CloseCodes
  <2>4. reader'[c].phase = "open"
    BY <2>2 DEF SocketInv, SocketTypeOK
  <2> QED
    BY <1>1, <1>2, <2>2, <2>3, <2>4 DEF SocketInv, SocketTypeOK,
       ConnectedMeansOpen
<1>4. CASE ~ \E c \in Conns : Ready(p, c)
  <2>1. /\ reader' = reader
        /\ ws_connected' = ws_connected \/ ws_connected' = FALSE
    BY <1>4 DEF SocketConnect, SocketDisconnect, CallStep, ConnectCancels, Dial,
       DialFails, ScheduleReset, DropFlag, StopTimer, Notify
  <2>2. ws_connected' \in BOOLEAN
    BY <2>1 DEF SocketInv, SocketTypeOK
  <2>3. ConnectedMeansOpen'
    BY <2>1 DEF SocketInv, ConnectedMeansOpen
  <2> QED
    BY <1>1, <1>2, <2>1, <2>2, <2>3 DEF SocketInv, SocketTypeOK
<1> QED
  BY <1>3, <1>4

\* The read loops and Mercury.
LEMMA ReaderSteps ==
    ASSUME SocketInv, NEW c \in Conns,
           \/ CloseStep(c) \/ Disturb(c)
           \/ \E kind \in {"kms", "activity"} : Receive(c, kind)
    PROVE  SocketInv'
<1> USE DEF flags
<1>1. sock' = sock /\ stability' \in {"off", "running"}
      /\ should_reconnect' \in BOOLEAN
  BY DEF CloseStep, Disturb, CloseCancels, CloseFatal, CloseManual,
     CloseRetries, CountAttempt, AttemptsExceeded, BackoffEnds, FallSilent,
     ReadError, HandleClose, Receive, SocketInv, SocketTypeOK
<1>2. attempts' \in 0..MAX_RECONNECT_ATTEMPTS
  BY SocketAssumption DEF CloseStep, Disturb, CloseCancels, CloseFatal,
     CloseManual, CloseRetries, CountAttempt, AttemptsExceeded, BackoffEnds,
     FallSilent, ReadError, HandleClose, Receive, SocketInv, SocketTypeOK
<1>3. events' \in Seq(MercuryEvents)
  <2>1. {"error", "auth-failed", "permanent-failure", "manual", "reconnecting",
         "max-attempts-exceeded", "reconnect-needed", "kms", "activity"}
           \subseteq MercuryEvents
    BY DEF MercuryEvents, DisconnectReasons
  <2> DEFINE fatal == IF reader[c].code = "auth" THEN "auth-failed"
                      ELSE "permanent-failure"
  <2>2. fatal \in MercuryEvents
    BY <2>1
  <2>3. CASE CloseFatal(c)
    <3>1. events' = events \o <<"error", fatal>>
      BY <2>3 DEF CloseFatal
    <3> HIDE DEF fatal
    <3> QED
      BY <2>1, <2>2, <3>1, EventsType DEF SocketInv, SocketTypeOK
  <2>4. CASE ~CloseFatal(c)
    <3>1. \/ events' = events
          \/ \E e \in {"error", "manual", "reconnecting", "max-attempts-exceeded",
                        "reconnect-needed", "kms", "activity"} :
               events' = Append(events, e)
      BY <2>4 DEF CloseStep, Disturb, CloseCancels, CloseManual, CloseRetries,
         CountAttempt, AttemptsExceeded, BackoffEnds, FallSilent, ReadError,
         HandleClose, Receive
    <3>2. events \in Seq(MercuryEvents)
      BY DEF SocketInv, SocketTypeOK
    <3> QED
      BY <2>1, <3>1, <3>2, EventsType
  <2> QED
    BY <2>3, <2>4
\* The flag is cleared by the step that ends a connection; no other step of a
\* read loop touches a connection that is up.
<1>4. \/ ws_connected' = FALSE
      \/ /\ ws_connected' = ws_connected
         /\ \A d \in Conns : reader[d].phase \in {"open", "silent"}
                               => reader'[d].phase \in {"open", "silent"}
  <2>1. CASE ReadError(c) \/ \E code \in CloseCodes : HandleClose(c, code)
    BY <2>1 DEF ReadError, HandleClose
  <2>2. CASE (\E kind \in {"kms", "activity"} : Receive(c, kind))
    BY <2>2 DEF Receive
  <2>3. CASE FallSilent(c)
    BY <2>3 DEF FallSilent, ReaderAt, SocketInv, SocketTypeOK
  <2>4. CASE CloseStep(c)
    BY <2>4 DEF CloseStep, CloseCancels, CloseFatal, CloseManual, CloseRetries,
       CountAttempt, AttemptsExceeded, BackoffEnds, ReaderAt, ReaderEnds,
       SocketInv, SocketTypeOK
  <2> QED
    BY <2>1, <2>2, <2>3, <2>4 DEF Disturb
<1>5. reader' \in [Conns -> [phase : ReaderPhases, code : CloseCodes]]
  <2>1. NoReader \in [phase : ReaderPhases, code : CloseCodes]
    BY DEF NoReader, ReaderPhases, CloseCodes
  <2>2. CASE \E code \in CloseCodes : HandleClose(c, code)
    BY <2>2 DEF HandleClose, ReaderPhases, SocketInv, SocketTypeOK
  <2>3. CASE \E ph \in ReaderPhases : ReaderAt(c, ph)
    BY <2>3 DEF ReaderAt, SocketInv, SocketTypeOK
  <2>4. CASE ReaderEnds(c) \/ reader' = reader
    BY <2>1, <2>4 DEF ReaderEnds, SocketInv, SocketTypeOK
  <2> QED
    BY <2>2, <2>3, <2>4 DEF CloseStep, Disturb, CloseCancels, CloseFatal,
       CloseManual, CloseRetries, CountAttempt, AttemptsExceeded, BackoffEnds,
       FallSilent, ReadError, Receive, ReaderPhases
<1>6. ws_connected' \in BOOLEAN
  BY <1>4 DEF SocketInv, SocketTypeOK
<1>7. ConnectedMeansOpen'
  BY <1>4 DEF SocketInv, ConnectedMeansOpen
<1> QED
  BY <1>1, <1>2, <1>3, <1>5, <1>6, <1>7 DEF SocketInv, SocketTypeOK

\* The handler's steps reach the socket through these.
LEMMA SocketInvNext == SocketInv /\ [Next]_vars => SocketInv'
<1> SUFFICES ASSUME SocketInv, [Next]_vars PROVE SocketInv'
  OBVIOUS
<1>1. CASE UNCHANGED socketVars
  BY <1>1 DEF socketVars, SocketInv, SocketTypeOK,
     ConnectedMeansOpen
<1>2. ASSUME NEW p \in Callers, SocketConnect(p) \/ SocketDisconnect(p)
      PROVE  SocketInv'
  BY <1>2, CallSteps
<1>3. ASSUME NEW p \in Callers, Goto(p, "idle"),
             UNCHANGED <<flags, attempts, stability, reader, events>>
      PROVE  SocketInv'
  BY <1>3 DEF Goto, flags, SockPhases, SocketInv, SocketTypeOK,
     ConnectedMeansOpen
<1>4. CASE LoopTakes
  <2>1. /\ events # <<>> /\ events' = Tail(events)
        /\ UNCHANGED <<flags, attempts, stability, reader, sock>>
    BY <1>4 DEF LoopTakes
  <2> QED
    BY <2>1, EventsType DEF flags, SocketInv, SocketTypeOK,
       ConnectedMeansOpen
<1>5. ASSUME NEW c \in Conns, Deliver(c) PROVE SocketInv'
  BY <1>5, ReaderSteps DEF Deliver
<1>6. CASE SocketStep
  <2>1. CASE StabilityElapses
    BY <2>1, SocketAssumption DEF StabilityElapses, flags, SocketInv,
       SocketTypeOK, ConnectedMeansOpen
  <2> QED
    BY <1>6, <2>1, CallSteps, ReaderSteps DEF SocketStep
<1>7. ASSUME NEW p \in Callers, Api(p) PROVE SocketInv'
  BY <1>1, <1>2, <1>3, <1>7 DEF Api, Begin, Register, FetchBot, StoreResponder,
     StoreClient, CallMercury, MercuryReturns, StartLoop, InitKms, HandshakeEnds,
     StoreRegistration, ConnectEnds, ConnectSucceeds, LeaveMercury, MercuryLeft,
     Unregister, ForgetRegistration, DropClient, DropResponder, DropBot
<1>8. CASE \E a \in Acts : ActLocks(a) \/ ActRoutes(a) \/ ActSends(a)
  BY <1>1, <1>8 DEF ActLocks, ActRoutes, ActSends
<1>9. CASE AppReceives \/ LoopSends
  BY <1>1, <1>9 DEF AppReceives, LoopSends
<1>10. ASSUME NEW p \in Callers,
              Connect(p) \/ \E op \in {"disconnect", "reconnect"} : Disconnect(p, op)
       PROVE  SocketInv'
  BY <1>1, <1>10 DEF Connect, Disconnect
<1>11. CASE UNCHANGED vars
  BY <1>1, <1>11 DEF vars, socketVars
<1> QED
  BY <1>4, <1>5, <1>6, <1>7, <1>8, <1>9, <1>10, <1>11 DEF Next, EventLoop

LEMMA SocketInvariant == Spec => []SocketInv
<1>1. Init => SocketInv
  <2> SUFFICES ASSUME Init PROVE SocketInv
    OBVIOUS
  <2>1. NoReader \in [phase : ReaderPhases, code : CloseCodes]
    BY DEF NoReader, ReaderPhases, CloseCodes
  <2>2. SocketTypeOK
    <3>1. attempts \in 0..MAX_RECONNECT_ATTEMPTS
      BY SocketAssumption DEF Init, SocketInit
    <3> QED
      BY <2>1, <3>1, EmptySeq DEF Init, SocketInit, SocketTypeOK, SockPhases
  <2> QED
    BY <2>2 DEF Init, SocketInit, SocketInv,
       ConnectedMeansOpen
<1> QED
  BY <1>1, SocketInvNext, PTL DEF Spec

\* The socket's connected flag, shared by the read loops of any number of
\* connections and cleared by each, is only set while one of them runs.
THEOREM FlagMeansOpen == Spec => []ConnectedMeansOpen
<1>1. SocketInv => ConnectedMeansOpen
  BY DEF SocketInv
<1> QED
  BY <1>1, SocketInvariant, PTL
-----------------------------------------------------------------------------
\* The type of the handler's own state.
HandlerTypeOK ==
    /\ connected \in BOOLEAN /\ connecting \in BOOLEAN
    /\ registration \in {"none", "some"} /\ device \in {"none", "some"}
    /\ kms \in Callers \cup {NoOne} /\ responder \in Callers \cup {NoOne}
    /\ bot \in {"none", "some"}
    /\ kms_lock \in Callers \cup Acts \cup {NoOne}
    /\ api \in [Callers -> [op : {"connect", "disconnect", "reconnect"},
                            pc : ApiPcs]]
    /\ answered \in [Callers -> BOOLEAN]
    /\ loop \in MercuryEvents \cup {"off", "idle"}
    /\ act \in [Acts -> {"none", "waiting", "routing", "sending"}]
    /\ outbox \in 0..Capacity

\* The calls of the application.
LEMMA ApiTypes ==
    ASSUME HandlerTypeOK, NEW p \in Callers, Api(p)
    PROVE  HandlerTypeOK'
<1> USE DEF HandlerTypeOK, session, At, To, Leave, Idle, ApiPcs
<1>1. CASE Begin(p)
  BY <1>1 DEF Begin
<1>2. CASE Register(p)
  BY <1>2 DEF Register
<1>3. CASE FetchBot(p)
  BY <1>3 DEF FetchBot
<1>4. CASE StoreResponder(p)
  BY <1>4 DEF StoreResponder
<1>5. CASE StoreClient(p)
  BY <1>5 DEF StoreClient
<1>6. CASE CallMercury(p)
  BY <1>6 DEF CallMercury
<1>7. CASE MercuryReturns(p)
  BY <1>7 DEF MercuryReturns
<1>8. CASE StartLoop(p)
  BY <1>8 DEF StartLoop
<1>9. CASE InitKms(p)
  BY <1>9 DEF InitKms
<1>10. CASE HandshakeEnds(p)
  BY <1>10 DEF HandshakeEnds
<1>11. CASE StoreRegistration(p)
  BY <1>11 DEF StoreRegistration
<1>12. CASE ConnectEnds(p)
  <2>1. /\ connecting' = FALSE
        /\ UNCHANGED <<connected, session, kms_lock, answered, loop, act, outbox>>
        /\ To(p, "up") \/ Leave(p)
    BY <1>12 DEF ConnectEnds
  <2>2. api' \in [Callers -> [op : {"connect", "disconnect", "reconnect"},
                             pc : ApiPcs]]
    BY <2>1
  <2> QED
    BY <2>1, <2>2
<1>13. CASE ConnectSucceeds(p)
  BY <1>13, HandlerAssumption DEF ConnectSucceeds
<1>14. CASE LeaveMercury(p)
  BY <1>14 DEF LeaveMercury
<1>15. CASE MercuryLeft(p)
  BY <1>15 DEF MercuryLeft
<1>16. CASE Unregister(p)
  BY <1>16 DEF Unregister
<1>17. CASE ForgetRegistration(p)
  BY <1>17 DEF ForgetRegistration
<1>18. CASE DropClient(p)
  BY <1>18 DEF DropClient
<1>19. CASE DropResponder(p)
  BY <1>19 DEF DropResponder
<1>20. CASE DropBot(p)
  BY <1>20 DEF DropBot
<1> QED
  BY <1>1, <1>2, <1>3, <1>4, <1>5, <1>6, <1>7, <1>8, <1>9, <1>10, <1>11, <1>12, <1>13, <1>14, <1>15, <1>16, <1>17, <1>18, <1>19, <1>20 DEF Api

LEMMA HandlerTypeNext ==
    ASSUME SocketInv, HandlerTypeOK, [Next]_vars
    PROVE  HandlerTypeOK'
<1> USE DEF HandlerTypeOK, session
<1>1. ASSUME NEW p \in Callers,
             \/ Connect(p)
             \/ \E op \in {"disconnect", "reconnect"} : Disconnect(p, op)
      PROVE  HandlerTypeOK'
  <2>1. PICK op \in {"connect", "disconnect", "reconnect"}, pc \in ApiPcs :
          /\ api' = [api EXCEPT ![p] = [op |-> op, pc |-> pc]]
          /\ UNCHANGED <<connecting, session, kms_lock, answered, loop, act, outbox>>
          /\ connected' = connected \/ connected' = FALSE
    BY <1>1 DEF Connect, Disconnect, ApiPcs
  <2>2. api' \in [Callers -> [op : {"connect", "disconnect", "reconnect"},
                             pc : ApiPcs]]
    BY <2>1
  <2>3. connected' \in BOOLEAN
    BY <2>1
  <2> QED
    BY <2>1, <2>2, <2>3
<1>2. CASE LoopTakes
  <2>1. PICK e \in MercuryEvents :
          /\ \/ UNCHANGED <<connected, loop, act>>
                /\ answered' = [q \in Callers |->
                     answered[q] \/ (At(q, "handshake") /\ responder = kms)]
             \/ UNCHANGED <<connected, loop, answered>>
                /\ \E a \in Acts : act' = [act EXCEPT ![a] = "waiting"]
             \/ UNCHANGED <<answered, act>> /\ loop' = e
                /\ connected' = (connected /\ e \notin DisconnectReasons)
          /\ UNCHANGED <<connecting, session, kms_lock, api, outbox>>
    BY <1>2, EventsType DEF LoopTakes, SocketInv, SocketTypeOK
  <2>2. connected' \in BOOLEAN
    BY <2>1
  <2>3. answered' \in [Callers -> BOOLEAN]
    BY <2>1, Zenon
  <2>4. loop' \in MercuryEvents \cup {"off", "idle"}
    BY <2>1
  <2>5. act' \in [Acts -> {"none", "waiting", "routing", "sending"}]
    BY <2>1
  <2> QED
    BY <2>1, <2>2, <2>3, <2>4, <2>5
<1>3. CASE LoopSends \/ AppReceives
  BY <1>3, HandlerAssumption DEF LoopSends, AppReceives
<1>4. ASSUME NEW a \in Acts, ActLocks(a) \/ ActRoutes(a) \/ ActSends(a)
      PROVE  HandlerTypeOK'
  BY <1>4, HandlerAssumption DEF ActLocks, ActRoutes, ActSends
<1>5. CASE UNCHANGED handlerVars
  BY <1>5 DEF handlerVars
<1>6. CASE UNCHANGED vars
  BY <1>5, <1>6 DEF vars, handlerVars
<1> QED
  BY <1>1, <1>2, <1>3, <1>4, <1>5, <1>6, ApiTypes DEF Next, EventLoop, Deliver

LEMMA HandlerTypeInit == Init => HandlerTypeOK
<1> SUFFICES ASSUME Init PROVE HandlerTypeOK
  OBVIOUS
<1>1. Idle \in [op : {"connect", "disconnect", "reconnect"}, pc : ApiPcs]
  BY DEF Idle, ApiPcs
<1>2. answered \in [Callers -> BOOLEAN]
  BY DEF Init
<1>3. connected \in BOOLEAN /\ connecting \in BOOLEAN
  BY DEF Init
<1>4. outbox \in 0..Capacity
  BY HandlerAssumption DEF Init
<1> QED
  BY <1>1, <1>2, <1>3, <1>4 DEF Init, HandlerTypeOK

\* The state of the handler and of its socket always has its type, for any number
\* of callers, connections and activity tasks; the channel to the application is
\* never overfilled.
THEOREM HandlerTypeCorrect == Spec => []TypeOK
<1>1. SocketInv /\ HandlerTypeOK /\ [Next]_vars => HandlerTypeOK'
  BY HandlerTypeNext
<1>2. SocketInv /\ HandlerTypeOK => TypeOK
  BY DEF SocketInv, HandlerTypeOK, TypeOK
<1> QED
  BY <1>1, <1>2, HandlerTypeInit, SocketInvariant, PTL DEF Spec
-----------------------------------------------------------------------------
\* An application whose calls do not overlap: p makes them all.

\* What each point of connect() and disconnect() has behind it.
WithClient == {"mercury", "mercury_wait", "start", "init", "handshake", "store",
               "done", "up"}
WithLoop == {"init", "handshake", "store", "done", "up"}
Progress(p) ==
    /\ api[p].pc \in WithClient => kms # NoOne
    /\ api[p].pc \in WithLoop => loop # "off"
    /\ api[p].pc \in {"done", "up"} => registration = "some"
    /\ api[p].pc \in {"responder_none", "bot_none"} => kms = NoOne
    /\ IgnoreSelf /\ api[p].pc \in {"responder", "client"} => bot = "some"

\* The handler is connected between two calls only.
QuietWhenConnected(p) == connected => api[p].pc = "idle"

OneCallerInv(p) ==
    Progress(p) /\ QuietWhenConnected(p) /\ ReadyWhenConnected /\ FilterArmed

LEMMA OneCallerApi ==
    ASSUME NEW p \in Callers, HandlerTypeOK, OneCallerInv(p), Api(p)
    PROVE  OneCallerInv(p)'
<1> USE DEF OneCallerInv, Progress, QuietWhenConnected, ReadyWhenConnected,
            FilterArmed, WithClient, WithLoop, session, At, To, Leave, Idle
<1>1. CASE Begin(p)
  BY <1>1 DEF Begin, HandlerTypeOK
<1>2. CASE Register(p)
  BY <1>2 DEF Register, HandlerTypeOK
<1>3. CASE FetchBot(p)
  BY <1>3 DEF FetchBot, HandlerTypeOK
<1>4. CASE StoreResponder(p)
  BY <1>4 DEF StoreResponder, HandlerTypeOK
<1>5. CASE StoreClient(p)
  BY <1>5, HandlerAssumption DEF StoreClient, HandlerTypeOK
<1>6. CASE CallMercury(p)
  BY <1>6 DEF CallMercury, HandlerTypeOK
<1>7. CASE MercuryReturns(p)
  BY <1>7 DEF MercuryReturns, HandlerTypeOK
<1>8. CASE StartLoop(p)
  BY <1>8 DEF StartLoop, HandlerTypeOK
<1>9. CASE InitKms(p)
  BY <1>9 DEF InitKms, HandlerTypeOK
<1>10. CASE HandshakeEnds(p)
  BY <1>10 DEF HandshakeEnds, HandlerTypeOK
<1>11. CASE StoreRegistration(p)
  BY <1>11 DEF StoreRegistration, HandlerTypeOK
<1>12. CASE ConnectEnds(p)
  BY <1>12 DEF ConnectEnds, HandlerTypeOK
<1>13. CASE ConnectSucceeds(p)
  BY <1>13 DEF ConnectSucceeds, HandlerTypeOK
<1>14. CASE LeaveMercury(p)
  BY <1>14 DEF LeaveMercury, HandlerTypeOK
<1>15. CASE MercuryLeft(p)
  BY <1>15 DEF MercuryLeft, HandlerTypeOK
<1>16. CASE Unregister(p)
  BY <1>16 DEF Unregister, HandlerTypeOK
<1>17. CASE ForgetRegistration(p)
  BY <1>17 DEF ForgetRegistration, HandlerTypeOK
<1>18. CASE DropClient(p)
  BY <1>18 DEF DropClient, HandlerTypeOK
<1>19. CASE DropResponder(p)
  BY <1>19 DEF DropResponder, HandlerTypeOK
<1>20. CASE DropBot(p)
  BY <1>20 DEF DropBot, HandlerTypeOK
<1> QED
  BY <1>1, <1>2, <1>3, <1>4, <1>5, <1>6, <1>7, <1>8, <1>9, <1>10, <1>11, <1>12, <1>13, <1>14, <1>15, <1>16, <1>17, <1>18, <1>19, <1>20 DEF Api

LEMMA OneCallerNext ==
    ASSUME NEW p, Callers = {p}, SocketInv, HandlerTypeOK, OneCallerInv(p),
           [Next]_vars
    PROVE  OneCallerInv(p)'
<1> USE DEF OneCallerInv, Progress, QuietWhenConnected, ReadyWhenConnected,
            FilterArmed, session
<1>1. CASE Connect(p) \/ \E op \in {"disconnect", "reconnect"} : Disconnect(p, op)
  BY <1>1 DEF Connect, Disconnect, At, HandlerTypeOK, WithClient, WithLoop
<1>2. CASE Api(p)
  BY <1>2, OneCallerApi
<1>3. CASE /\ UNCHANGED <<session, api>>
           /\ connected' => connected
           /\ loop # "off" => loop' # "off"
  BY <1>3
<1>4. CASE LoopTakes
  <2>1. Head(events) \in MercuryEvents
    BY <1>4, EventsType DEF LoopTakes, SocketInv, SocketTypeOK
  <2>2. Head(events) # "off"
    BY <2>1 DEF MercuryEvents, DisconnectReasons
  <2>3. loop' \in {loop, Head(events)} /\ UNCHANGED <<session, api>>
    BY <1>4 DEF LoopTakes
  <2>4. connected' => connected
    BY <1>4 DEF LoopTakes
  <2>5. loop # "off" => loop' # "off"
    BY <2>2, <2>3
  <2> QED
    BY <1>3, <2>3, <2>4, <2>5
<1>5. CASE LoopSends \/ AppReceives
  BY <1>3, <1>5 DEF LoopSends, AppReceives
<1>6. ASSUME NEW a \in Acts, ActLocks(a) \/ ActRoutes(a) \/ ActSends(a)
      PROVE  OneCallerInv(p)'
  BY <1>3, <1>6 DEF ActLocks, ActRoutes, ActSends
<1>7. CASE UNCHANGED handlerVars \/ UNCHANGED vars
  BY <1>3, <1>7 DEF handlerVars, vars
<1> QED
  BY <1>1, <1>2, <1>4, <1>5, <1>6, <1>7 DEF Next, EventLoop, Deliver

LEMMA OneCallerInvariant ==
    ASSUME NEW p, Callers = {p}
    PROVE  Spec => []OneCallerInv(p)
<1>1. Init => HandlerTypeOK /\ OneCallerInv(p)
  BY HandlerTypeInit DEF Init, Idle, OneCallerInv, Progress, QuietWhenConnected,
     ReadyWhenConnected, FilterArmed, WithClient, WithLoop
<1>2. SocketInv /\ HandlerTypeOK /\ OneCallerInv(p) /\ [Next]_vars
        => HandlerTypeOK' /\ OneCallerInv(p)'
  BY HandlerTypeNext, OneCallerNext
<1> QED
  BY <1>1, <1>2, SocketInvariant, PTL DEF Spec

\* While connected() may answer true there is a KMS client, a registration and a
\* running event loop, for any number of connections and activity tasks, if the
\* application's calls do not overlap.
THEOREM ConnectedIsReady ==
    ASSUME NEW p, Callers = {p}
    PROVE  Spec => []ReadyWhenConnected
<1>1. OneCallerInv(p) => ReadyWhenConnected
  BY DEF OneCallerInv
<1> QED
  BY <1>1, OneCallerInvariant, PTL

\* Whenever an activity task can find a KMS client the filter for the bot's own
\* messages is armed, if the application's calls do not overlap.
THEOREM FilterStaysArmed ==
    ASSUME NEW p, Callers = {p}
    PROVE  Spec => []FilterArmed
<1>1. OneCallerInv(p) => FilterArmed
  BY DEF OneCallerInv
<1> QED
  BY <1>1, OneCallerInvariant, PTL
-----------------------------------------------------------------------------
\* Any number of callers: who uses the KMS client holds its mutex.
UsesClient(a) == act[a] \in {"routing", "sending"}
MutexInv ==
    /\ \A a \in Acts : UsesClient(a) => kms_lock = a
    /\ \A p \in Callers : At(p, "handshake") => kms_lock = p

\* Only the steps around the handshake touch the mutex.
LEMMA ApiLeavesMutex ==
    ASSUME HandlerTypeOK, NEW p \in Callers, Api(p), ~InitKms(p), ~HandshakeEnds(p)
    PROVE  /\ kms_lock' = kms_lock /\ act' = act
           /\ api'[p].pc # "handshake"
           /\ \A q \in Callers : q # p => api'[q] = api[q]
<1> USE DEF HandlerTypeOK, To, Leave, Idle, At
<1>1. CASE Begin(p) \/ Register(p) \/ FetchBot(p) \/ StoreResponder(p)
  BY <1>1 DEF Begin, Register, FetchBot, StoreResponder
<1>2. CASE StoreClient(p) \/ CallMercury(p) \/ MercuryReturns(p) \/ StartLoop(p)
  BY <1>2 DEF StoreClient, CallMercury, MercuryReturns, StartLoop
<1>3. CASE StoreRegistration(p) \/ ConnectEnds(p) \/ ConnectSucceeds(p)
  BY <1>3 DEF StoreRegistration, ConnectEnds, ConnectSucceeds
<1>4. CASE LeaveMercury(p) \/ MercuryLeft(p) \/ Unregister(p)
  BY <1>4 DEF LeaveMercury, MercuryLeft, Unregister
<1>5. CASE \/ ForgetRegistration(p) \/ DropClient(p) \/ DropResponder(p)
           \/ DropBot(p)
  BY <1>5 DEF ForgetRegistration, DropClient, DropResponder, DropBot
<1> QED
  BY <1>1, <1>2, <1>3, <1>4, <1>5 DEF Api

LEMMA MutexInvNext ==
    ASSUME HandlerTypeOK, MutexInv, [Next]_vars
    PROVE  MutexInv'
<1> USE DEF MutexInv, UsesClient, At
<1>1. ASSUME NEW p \in Callers,
             \/ Connect(p)
             \/ \E op \in {"disconnect", "reconnect"} : Disconnect(p, op)
      PROVE  MutexInv'
  BY <1>1 DEF Connect, Disconnect, HandlerTypeOK
<1>2. ASSUME NEW p \in Callers, InitKms(p) PROVE MutexInv'
  <2>1. /\ kms_lock = NoOne /\ act' = act
        /\ \A q \in Callers : q # p => api'[q] = api[q]
    BY <1>2 DEF InitKms, To, HandlerTypeOK
  <2>2. /\ \A a \in Acts : ~UsesClient(a)
        /\ \A q \in Callers : ~At(q, "handshake")
    BY <2>1, HandlerAssumption
  <2>3. api'[p].pc = "handshake" => kms_lock' = p
    BY <1>2 DEF InitKms, To, HandlerTypeOK
  <2> QED
    BY <2>1, <2>2, <2>3
<1>3. ASSUME NEW p \in Callers, HandshakeEnds(p) PROVE MutexInv'
  <2>1. /\ kms_lock = p /\ act' = act
        /\ api'[p].pc # "handshake"
        /\ \A q \in Callers : q # p => api'[q] = api[q]
    BY <1>3 DEF HandshakeEnds, To, HandlerTypeOK
  <2>2. /\ \A a \in Acts : ~UsesClient(a)
        /\ \A q \in Callers : q # p => ~At(q, "handshake")
    BY <2>1, HandlerAssumption
  <2> QED
    BY <2>1, <2>2
<1>4. ASSUME NEW p \in Callers, Api(p) PROVE MutexInv'
  <2>1. CASE InitKms(p) \/ HandshakeEnds(p)
    BY <1>2, <1>3, <2>1
  <2>2. CASE ~InitKms(p) /\ ~HandshakeEnds(p)
    <3>1. /\ kms_lock' = kms_lock /\ act' = act
          /\ api'[p].pc # "handshake"
          /\ \A q \in Callers : q # p => api'[q] = api[q]
      BY <1>4, <2>2, ApiLeavesMutex
    <3> QED
      BY <3>1
  <2> QED
    BY <2>1, <2>2
<1>5. CASE LoopTakes
  <2>1. /\ UNCHANGED <<kms_lock, api>>
        /\ act' = act \/ \E a \in Acts : act' = [act EXCEPT ![a] = "waiting"]
    BY <1>5 DEF LoopTakes
  <2> QED
    BY <2>1 DEF HandlerTypeOK
<1>6. CASE LoopSends \/ AppReceives
  BY <1>6 DEF LoopSends, AppReceives
<1>7. ASSUME NEW a \in Acts, ActLocks(a) PROVE MutexInv'
  <2>1. /\ kms_lock = NoOne /\ api' = api
        /\ \A b \in Acts : b # a => act'[b] = act[b]
        /\ UsesClient(a)' => kms_lock' = a
    BY <1>7 DEF ActLocks, HandlerTypeOK
  <2>2. /\ \A b \in Acts : ~UsesClient(b)
        /\ \A q \in Callers : ~At(q, "handshake")
    BY <2>1, HandlerAssumption
  <2> QED
    BY <2>1, <2>2
<1>8. ASSUME NEW a \in Acts, ActRoutes(a) \/ ActSends(a) PROVE MutexInv'
  <2>1. /\ kms_lock = a /\ api' = api
        /\ \A b \in Acts : b # a => act'[b] = act[b]
        /\ UsesClient(a)' => kms_lock' = a
    BY <1>8 DEF ActRoutes, ActSends, HandlerTypeOK
  <2>2. /\ \A b \in Acts : b # a => ~UsesClient(b)
        /\ \A q \in Callers : ~At(q, "handshake")
    BY <2>1, HandlerAssumption
  <2> QED
    BY <2>1, <2>2
<1>9. CASE UNCHANGED handlerVars \/ UNCHANGED vars
  BY <1>9 DEF handlerVars, vars
<1> QED
  BY <1>1, <1>4, <1>5, <1>6, <1>7, <1>8, <1>9 DEF Next, EventLoop, Deliver

\* Only connect() and disconnect() change the client, when the mutex is free.
LEMMA ClientChanges ==
    ASSUME [Next]_vars, kms' # kms
    PROVE  kms_lock = NoOne
<1> USE DEF session
<1>1. ASSUME NEW p \in Callers, Api(p) PROVE StoreClient(p) \/ DropClient(p)
  BY <1>1 DEF Api, Begin, Register, FetchBot, StoreResponder, CallMercury,
     MercuryReturns, StartLoop, InitKms, HandshakeEnds, StoreRegistration,
     ConnectEnds, ConnectSucceeds, LeaveMercury, MercuryLeft, Unregister,
     ForgetRegistration, DropResponder, DropBot
<1>2. \E p \in Callers : Api(p)
  BY DEF Next, Connect, Disconnect, EventLoop, LoopTakes, LoopSends, ActLocks,
     ActRoutes, ActSends, AppReceives, Deliver, handlerVars, vars
<1> QED
  BY <1>1, <1>2 DEF StoreClient, DropClient

\* The KMS client is stored, replaced or dropped only while no handshake and no
\* activity task uses it, for any number of overlapping connect() and disconnect()
\* calls and of activity tasks: only who holds the mutex uses the client.
THEOREM ClientStaysInUse == Spec => ClientKeptInUse
<1>1. Init => HandlerTypeOK /\ MutexInv
  BY HandlerTypeInit DEF Init, Idle, MutexInv, UsesClient, At
<1>2. SocketInv /\ HandlerTypeOK /\ MutexInv /\ [Next]_vars
        => HandlerTypeOK' /\ MutexInv'
  BY HandlerTypeNext, MutexInvNext
<1> DEFINE Unused == /\ \A a \in Acts : act[a] \notin {"routing", "sending"}
                     /\ \A p \in Callers : ~At(p, "handshake")
<1>3. MutexInv /\ [Next]_vars => [kms' # kms => Unused]_vars
  <2> SUFFICES ASSUME MutexInv, [Next]_vars, kms' # kms PROVE Unused
    OBVIOUS
  <2>1. kms_lock = NoOne
    BY ClientChanges
  <2> QED
    BY <2>1, HandlerAssumption DEF MutexInv, UsesClient
<1> QED
  BY <1>1, <1>2, <1>3, SocketInvariant, PTL DEF Spec, ClientKeptInUse
=============================================================================
