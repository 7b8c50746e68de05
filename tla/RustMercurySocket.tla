-------------------------- MODULE RustMercurySocket --------------------------
(***************************************************************************)
(* The Rust MercurySocket (rust/src/mercury_socket.rs): the WebSocket      *)
(* connections to Mercury, one read loop per connection, the flags and the *)
(* attempt counter they share, and the stability timer that clears the     *)
(* counter.  Every flag has a mutex of its own, so a step is one lock      *)
(* acquisition.  The ping loops only send: no pong is awaited, so they     *)
(* change nothing here, also when Mercury has fallen silent.               *)
(*                                                                         *)
(* The socket never dials again by itself: a read loop that sees a Close   *)
(* frame sleeps for the backoff delay and then sends "reconnect-needed".   *)
(* disconnect() does not end the read loops.                               *)
(*                                                                         *)
(* Time: the backoff delay and the stability window may end at any moment. *)
(* Messages without an effect on the state (pong, shutdown, oversized or   *)
(* unparseable text) need no action.                                       *)
(***************************************************************************)
EXTENDS Naturals, Sequences, FiniteSets

CONSTANTS
    Callers,                \* tasks that call connect() and disconnect()
    Conns,                  \* connections, reused once their read loop ended
    MAX_RECONNECT_ATTEMPTS, \* max_reconnect_attempts
    MaxEvents               \* bound: Mercury and the application do nothing
                            \* that adds to a longer backlog of events

ASSUME SocketAssumption ==
    /\ MAX_RECONNECT_ATTEMPTS \in Nat
    /\ MaxEvents \in Nat

VARIABLES
    ws_connected,      \* connected
    should_reconnect,
    attempts,          \* reconnect_attempts
    stability,         \* the stability task: "off" or "running"
    reader,            \* reader[c]: where the read loop of connection c is
    sock,              \* sock[p]: where p's call of connect/disconnect is
    events             \* the unbounded MercuryEvent channel

flags == <<ws_connected, should_reconnect>>
socketVars == <<ws_connected, should_reconnect, attempts, stability, reader,
                sock, events>>

\* Read loop: "open" ("silent" once Mercury stopped answering on a connection
\* that stays up) until a Close frame; then handle_close_static with the
\* class of the close code: 4401, 4400/4403, or any other.
CloseCodes == {"auth", "permanent", "other"}
ReaderPhases == {"none", "open", "silent", "closing", "cancelled", "counting", "backoff"}

\* connect(): "cancel", "dial", "ready", "schedule", then "ok" or "failed";
\* disconnect(): "drop", "stop", "notify", then "ok".
SockPhases == {"idle", "cancel", "dial", "ready", "schedule", "ok", "failed",
               "drop", "stop", "notify"}

DisconnectReasons == {"client", "manual", "auth-failed", "permanent-failure",
                      "max-attempts-exceeded", "reconnect-needed"}
MercuryEvents == DisconnectReasons \cup {"reconnecting", "error", "kms",
                                         "activity"}

SocketTypeOK ==
    /\ ws_connected \in BOOLEAN /\ should_reconnect \in BOOLEAN
    /\ attempts \in 0..MAX_RECONNECT_ATTEMPTS
    /\ stability \in {"off", "running"}
    /\ reader \in [Conns -> [phase : ReaderPhases, code : CloseCodes]]
    /\ sock \in [Callers -> SockPhases]
    /\ events \in Seq(MercuryEvents)

NoReader == [phase |-> "none", code |-> "other"]

\* MercurySocket::new
SocketInit ==
    /\ ws_connected = FALSE /\ should_reconnect = TRUE
    /\ attempts = 0
    /\ stability = "off"
    /\ reader = [c \in Conns |-> NoReader]
    /\ sock = [p \in Callers |-> "idle"]
    /\ events = <<>>
-----------------------------------------------------------------------------
\* connect()

Goto(p, phase) == sock' = [sock EXCEPT ![p] = phase]

SocketConnect(p) ==
    /\ sock[p] = "idle"
    /\ should_reconnect' = TRUE
    /\ Goto(p, "cancel")
    /\ UNCHANGED <<ws_connected, attempts, stability, reader, events>>

\* cancel_stability_timer; the attempt counter is kept.
ConnectCancels(p) ==
    /\ sock[p] = "cancel"
    /\ stability' = "off"
    /\ Goto(p, "dial")
    /\ UNCHANGED <<flags, attempts, reader, events>>

\* connect_internal clears the flag and dials.
Dial(p) ==
    /\ sock[p] = "dial"
    /\ ws_connected' = FALSE
    /\ Goto(p, "ready")
    /\ UNCHANGED <<should_reconnect, attempts, stability, reader, events>>

\* The URL cannot be parsed, before the flag is cleared; or the dial, the
\* authorization or the wait for the ready message fails.
DialFails(p) ==
    /\ sock[p] \in {"dial", "ready"}
    /\ Goto(p, "failed")
    /\ UNCHANGED <<flags, attempts, stability, reader, events>>

\* Mercury is ready: the flag is set and both loops are spawned.
Ready(p, c) ==
    /\ sock[p] = "ready"
    /\ reader[c].phase = "none"
    /\ ws_connected' = TRUE
    /\ reader' = [reader EXCEPT ![c] = [phase |-> "open", code |-> "other"]]
    /\ Goto(p, "schedule")
    /\ UNCHANGED <<should_reconnect, attempts, stability, events>>

\* schedule_attempts_reset: a running timer is replaced.
ScheduleReset(p) ==
    /\ sock[p] = "schedule"
    /\ stability' = "running"
    /\ Goto(p, "ok")
    /\ UNCHANGED <<flags, attempts, reader, events>>
-----------------------------------------------------------------------------
\* disconnect()

SocketDisconnect(p) ==
    /\ sock[p] = "idle"
    /\ should_reconnect' = FALSE
    /\ Goto(p, "drop")
    /\ UNCHANGED <<ws_connected, attempts, stability, reader, events>>

DropFlag(p) ==
    /\ sock[p] = "drop"
    /\ ws_connected' = FALSE
    /\ Goto(p, "stop")
    /\ UNCHANGED <<should_reconnect, attempts, stability, reader, events>>

StopTimer(p) ==
    /\ sock[p] = "stop"
    /\ stability' = "off"
    /\ Goto(p, "notify")
    /\ UNCHANGED <<flags, attempts, reader, events>>

\* The ping loops are told to stop; the read loops and their sockets stay.
Notify(p) ==
    /\ sock[p] = "notify"
    /\ events' = Append(events, "client")
    /\ Goto(p, "ok")
    /\ UNCHANGED <<flags, attempts, stability, reader>>
-----------------------------------------------------------------------------
\* The loops of a connection and the stability timer.

ReaderAt(c, phase) == reader' = [reader EXCEPT ![c].phase = phase]
ReaderEnds(c) == reader' = [reader EXCEPT ![c] = NoReader]

\* Mercury delivers an encryption event or an activity (acknowledged first).
Receive(c, kind) ==
    /\ reader[c].phase = "open"
    /\ Len(events) < MaxEvents
    /\ events' = Append(events, kind)
    /\ UNCHANGED <<flags, attempts, stability, reader, sock>>

\* Mercury stops answering, pings included, while the connection stays up
\* (external).  Nothing in the client notices.
FallSilent(c) ==
    /\ reader[c].phase = "open"
    /\ ReaderAt(c, "silent")
    /\ UNCHANGED <<flags, attempts, stability, sock, events>>

\* Mutant: a socket error leaves the connected flag set.
MutantReadError(c) ==
    /\ reader[c].phase \in {"open", "silent"}
    /\ events' = Append(events, "error")
    /\ ReaderEnds(c)
    /\ UNCHANGED <<flags, attempts, stability, sock>>

\* The read loop ends on a socket error: no Disconnected event, and the
\* stability timer is left running.
ReadError(c) ==
    /\ reader[c].phase \in {"open", "silent"}
    /\ events' = Append(events, "error")
    /\ ws_connected' = FALSE
    /\ ReaderEnds(c)
    /\ UNCHANGED <<should_reconnect, attempts, stability, sock>>

\* A Close frame: handle_close_static clears the flag,
HandleClose(c, code) ==
    /\ reader[c].phase = "open"
    /\ ws_connected' = FALSE
    /\ reader' = [reader EXCEPT ![c] = [phase |-> "closing", code |-> code]]
    /\ UNCHANGED <<should_reconnect, attempts, stability, sock, events>>

\* cancels the stability timer,
CloseCancels(c) ==
    /\ reader[c].phase = "closing"
    /\ stability' = "off"
    /\ ReaderAt(c, "cancelled")
    /\ UNCHANGED <<flags, attempts, sock, events>>

\* gives up for good on 4401, 4400 and 4403,
CloseFatal(c) ==
    /\ reader[c].phase = "cancelled" /\ reader[c].code # "other"
    /\ should_reconnect' = FALSE
    /\ events' = events \o <<"error", IF reader[c].code = "auth"
                                      THEN "auth-failed" ELSE "permanent-failure">>
    /\ ReaderEnds(c)
    /\ UNCHANGED <<ws_connected, attempts, stability, sock>>

\* reads should_reconnect,
CloseManual(c) ==
    /\ reader[c].phase = "cancelled" /\ reader[c].code = "other"
    /\ ~should_reconnect
    /\ events' = Append(events, "manual")
    /\ ReaderEnds(c)
    /\ UNCHANGED <<flags, attempts, stability, sock>>

CloseRetries(c) ==
    /\ reader[c].phase = "cancelled" /\ reader[c].code = "other"
    /\ should_reconnect
    /\ ReaderAt(c, "counting")
    /\ UNCHANGED <<flags, attempts, stability, sock, events>>

\* and, holding the counter's mutex, counts the attempt
CountAttempt(c) ==
    /\ reader[c].phase = "counting"
    /\ attempts < MAX_RECONNECT_ATTEMPTS
    /\ attempts' = attempts + 1
    /\ events' = Append(events, "reconnecting")
    /\ ReaderAt(c, "backoff")
    /\ UNCHANGED <<flags, stability, sock>>

\* or gives up at the cap.
AttemptsExceeded(c) ==
    /\ reader[c].phase = "counting"
    /\ attempts >= MAX_RECONNECT_ATTEMPTS
    /\ should_reconnect' = FALSE
    /\ events' = Append(events, "max-attempts-exceeded")
    /\ ReaderEnds(c)
    /\ UNCHANGED <<ws_connected, attempts, stability, sock>>

\* The backoff sleep ends, whatever happened to the socket meanwhile.
BackoffEnds(c) ==
    /\ reader[c].phase = "backoff"
    /\ events' = Append(events, "reconnect-needed")
    /\ ReaderEnds(c)
    /\ UNCHANGED <<flags, attempts, stability, sock>>

StabilityElapses ==
    /\ stability = "running"
    /\ stability' = "off"
    /\ attempts' = 0
    /\ UNCHANGED <<flags, reader, sock, events>>
-----------------------------------------------------------------------------
\* The steps that the socket takes once it was called, by whom it runs.
CallStep(p) ==
    \/ ConnectCancels(p) \/ Dial(p) \/ DialFails(p) \/ ScheduleReset(p)
    \/ (\E c \in Conns : Ready(p, c))
    \/ DropFlag(p) \/ StopTimer(p) \/ Notify(p)

CloseStep(c) ==
    \/ CloseCancels(c) \/ CloseFatal(c) \/ CloseManual(c) \/ CloseRetries(c)
    \/ CountAttempt(c) \/ AttemptsExceeded(c) \/ BackoffEnds(c)

\* What Mercury and the network may do to a connection (external).
Disturb(c) ==
    /\ Len(events) < MaxEvents
    /\ \/ FallSilent(c) \/ ReadError(c)
       \/ \E code \in CloseCodes : HandleClose(c, code)

SocketStep ==
    \/ \E p \in Callers : CallStep(p)
    \/ \E c \in Conns : CloseStep(c) \/ Disturb(c)
    \/ StabilityElapses
-----------------------------------------------------------------------------
\* Properties.

\* The connected flag is only set while the read loop of some connection runs:
\* the loops share the flag, each clears it when its own one ends.
ConnectedMeansOpen ==
    ws_connected => \E c \in Conns : reader[c].phase \in {"open", "silent"}
=============================================================================
