----------------------------- MODULE SessionLife -----------------------------
(***************************************************************************)
(* A session from its first socket to its `close` event: the lifecycle     *)
(* half of session.ts (comeBackUp, drain, end, teardown, onClose) over the *)
(* LinkLife, the socket of pdu-transport.ts and the ReconnectLoop of       *)
(* reconnect-loop.ts.                                                      *)
(*                                                                         *)
(* The program is one JavaScript thread: a socket event, a timer or an     *)
(* application call runs to its end, promise continuations included,       *)
(* before the next one.  So an action is one such turn, its handler is an  *)
(* operator from the session before to the session after, and only an      *)
(* await that a later turn settles splits a method in two.  What the       *)
(* drain waits for is OutgoingRequests' and HeldMessages' matter; here it  *)
(* is over at some time of its own choosing.                               *)
(***************************************************************************)
EXTENDS SessionMethods

CONSTANTS
    Closers,            \* the calls of close() the application makes
    Unbinders,          \* the calls of unbind() it makes
    MaxFaults           \* bound: how many times the peer or a timer takes a link away

ASSUME CallsAssumption == Closers \cap Unbinders = {}
ASSUME FaultsAssumption == MaxFaults \in Nat

VARIABLES
    awaits,     \* the session's onConnected may await more once its bind is answered: SmppClient's does not
    session,    \* link, socket, reconnect loop and the events emitted so far
    calls,      \* how far each close() and unbind() has come
    faults      \* how many faults the environment has used

vars == <<awaits, session, calls, faults>>

Callers == Closers \cup Unbinders

Init ==
    /\ awaits \in BOOLEAN
    /\ session = FirstSession
    /\ calls = [c \in Callers |-> "idle"]
    /\ faults = 0

-----------------------------------------------------------------------------
(* The turns the methods of SessionMethods are composed into.              *)

\* Mutant: the next attempt is asked for while this one is still the loop's.
AttemptFailedTooSoon(s) ==
    LET torn == Teardown(s, FALSE)
    IN  [Schedule([torn EXCEPT !.sock = Destroy(@)]) EXCEPT !.attempt = "none"]

\* Mutant: the socket of the failed attempt is left open.
AttemptFailedKeepsSocket(s) == Schedule([s EXCEPT !.attempt = "none"])

\* bringUp() gets an err: the owner tore its half down, the loop destroys the
\* socket, and run() schedules the next attempt unless it was told to stop.
AttemptFailed(s) ==
    LET torn == Teardown(s, FALSE)
    IN  Schedule([torn EXCEPT !.sock = Destroy(@), !.attempt = "none"])

\* An onConnected that throws takes comeBackUp() with it: nothing tears the link
\* down until the socket the loop destroys reports its `close`.
AttemptThrew(s) == Schedule([s EXCEPT !.sock = Destroy(@), !.attempt = "none"])

\* A lost link settles the bind waiting on it, and the attempt fails in the same turn.
BindSettled(s) ==
    IF s.attempt = "bind" /\ ~isAttached(s.link) THEN AttemptFailed(s) ELSE s

\* A close() made inside the turn: no link to drain by then, so it ends before the turn does.
Turn(s, closes) ==
    LET settled == BindSettled(s)
    IN  IF closes THEN End(settled) ELSE settled

-----------------------------------------------------------------------------
(* The socket, the timers of link-timers.ts and the peer.                  *)

Fault == faults < MaxFaults /\ faults' = faults + 1

\* The peer hung up, or the application destroyed the socket: no handler runs yet.
SocketDies ==
    /\ session.sock = "open" /\ Fault
    /\ session' = [session EXCEPT !.sock = "destroyed"]
    /\ UNCHANGED <<awaits, calls>>

\* An `error` reaches onClose ahead of the `close` event that follows it.
SocketError ==
    /\ session.sock = "open" /\ Fault
    /\ \E closes \in BOOLEAN :
        /\ closes => isAttached(session.link)
        /\ session' = Turn(OnClose([session EXCEPT !.sock = "destroyed"], closes), closes)
    /\ UNCHANGED <<awaits, calls>>

SocketClosed ==
    /\ session.sock = "destroyed"
    /\ \E closes \in BOOLEAN :
        /\ closes => isAttached(session.link)
        /\ session' = Turn(OnClose([session EXCEPT !.sock = "closed"], closes), closes)
    /\ UNCHANGED <<awaits, calls, faults>>

\* The idle timer of a quiet link, or a stream the framer cannot read.  No
\* schedule() here: the `close` event of the socket it destroys does that.
\* Neither can happen to a socket that has closed: its timers are cleared.
LinkGivenUp ==
    /\ isAttached(session.link) /\ session.sock # "closed" /\ Fault
    /\ \E closes \in BOOLEAN : session' = Turn(Teardown(session, closes), closes)
    /\ UNCHANGED <<awaits, calls>>

\* A peer's unbind is answered and ends the session without a drain.
PeerUnbinds ==
    /\ isAttached(session.link) /\ session.sock = "open" /\ Fault
    /\ session' = BindSettled(End(session))
    /\ UNCHANGED <<awaits, calls>>

-----------------------------------------------------------------------------
(* ReconnectLoop.run(), and comeBackUp() on the socket it opened.          *)

\* Mutant: what happened during the await is not looked at.
ComeBackUpAnyway(s) ==
    [s EXCEPT !.link = open(@), !.attempt = "none", !.heard.reconnected = @ + 1]

\* The bind is answered and nobody asked for the end meanwhile: link.open(),
\* whatever became of the socket.  Otherwise the attempt fails.
ComeBackUp(s) ==
    IF retrying(s.link)
    THEN [s EXCEPT !.link = open(@), !.attempt = "none", !.heard.reconnected = @ + 1]
    ELSE AttemptFailed(s)

RetryTimer ==
    /\ session.timer
    /\ session' = [session EXCEPT !.timer = FALSE, !.attempt = "connect"]
    /\ UNCHANGED <<awaits, calls, faults>>

\* Mutant: a failed connect() asks for no other.
ConnectFailsForGood ==
    /\ session.attempt = "connect"
    /\ session' = [session EXCEPT !.attempt = "none"]
    /\ UNCHANGED <<awaits, calls, faults>>

ConnectFails ==
    /\ session.attempt = "connect"
    /\ session' = Schedule([session EXCEPT !.attempt = "none"])
    /\ UNCHANGED <<awaits, calls, faults>>

\* A loop stopped while it connected destroys the socket it got.  Otherwise
\* the transport takes it over, and the listeners of the old one are gone.
ConnectOpens ==
    /\ session.attempt = "connect"
    /\ session' = IF session.halted
                  THEN [session EXCEPT !.attempt = "none"]
                  ELSE [session EXCEPT !.link = attach(@), !.sock = "open", !.attempt = "bind"]
    /\ UNCHANGED <<awaits, calls, faults>>

BindAnswered ==
    /\ session.attempt = "bind" /\ session.sock = "open"
    /\ \/ session' = ComeBackUp(session)
       \/ awaits /\ session' = [session EXCEPT !.attempt = "after"]
    /\ UNCHANGED <<awaits, calls, faults>>

\* onConnected resolves after an await of its own, which no link settles.
OnConnectedResolves ==
    /\ session.attempt = "after"
    /\ session' = ComeBackUp(session)
    /\ UNCHANGED <<awaits, calls, faults>>

\* Refused, unanswered within responseTimeout, or onConnected gave up or threw.
BindFails ==
    /\ session.attempt \in {"bind", "after"} /\ Fault
    /\ \/ session' = AttemptFailed(session)
       \/ session' = AttemptThrew(session)
    /\ UNCHANGED <<awaits, calls>>

-----------------------------------------------------------------------------
(* close() and unbind().                                                   *)

\* Mutant: unbind() waits for an answer to a request that had no link to go out on.
DrainedUnbindsAnyway(c, s) ==
    IF c \in Unbinders
    THEN calls' = [calls EXCEPT ![c] = "unbinding"] /\ session' = s
    ELSE calls' = [calls EXCEPT ![c] = "over"] /\ session' = BindSettled(End(s))

\* What close() and unbind() do once drained.  unbind() sends its request on
\* whatever is attached; with nothing attached, or a dead socket, it ends now.
Drained(c, s) ==
    IF c \in Unbinders /\ isAttached(s.link) /\ s.sock = "open"
    THEN /\ calls' = [calls EXCEPT ![c] = "unbinding"]
         /\ session' = s
    ELSE /\ calls' = [calls EXCEPT ![c] = "over"]
         /\ session' = BindSettled(End(s))

\* With no link to carry anything there is nothing to drain.
Call(c) ==
    /\ calls[c] = "idle"
    /\ IF canCarry(session)
       THEN /\ calls' = [calls EXCEPT ![c] = "draining"]
            /\ session' = Stop(session)
       ELSE Drained(c, Stop(session))
    /\ UNCHANGED <<awaits, faults>>

DrainOver(c) ==
    /\ calls[c] = "draining"
    /\ Drained(c, session)
    /\ UNCHANGED <<awaits, faults>>

\* The unbind was answered, timed out, or lost its link.
UnbindSettles(c) ==
    /\ calls[c] = "unbinding"
    /\ calls' = [calls EXCEPT ![c] = "over"]
    /\ session' = BindSettled(End(session))
    /\ UNCHANGED <<awaits, faults>>

-----------------------------------------------------------------------------
BindSettles == BindAnswered \/ OnConnectedResolves \/ BindFails

Next ==
    \/ SocketDies \/ SocketError \/ SocketClosed
    \/ LinkGivenUp \/ PeerUnbinds
    \/ RetryTimer \/ ConnectFails \/ ConnectOpens
    \/ BindAnswered \/ OnConnectedResolves \/ BindFails
    \/ \E c \in Callers : Call(c) \/ DrainOver(c) \/ UnbindSettles(c)

Spec == Init /\ [][Next]_vars

\* Node delivers the events it owes and timers fire: a destroyed socket reports
\* its close, an armed retry runs, connect() settles (connectTimeout), a bind
\* settles (responseTimeout), a drain ends (shutdownTimeout), and so does an
\* unbind (responseTimeout).  The peer owes nothing, and neither do the faults.
Fairness ==
    /\ WF_vars(SocketClosed)
    /\ WF_vars(RetryTimer)
    /\ WF_vars(ConnectFails \/ ConnectOpens)
    /\ WF_vars(BindSettles)
    /\ \A c \in Callers : WF_vars(DrainOver(c) \/ UnbindSettles(c))

FairSpec == Spec /\ Fairness

-----------------------------------------------------------------------------
(* Properties                                                              *)

TypeOK ==
    /\ awaits \in BOOLEAN
    /\ session \in Sessions
    /\ calls \in [Callers -> {"idle", "draining", "unbinding", "over"}]
    /\ faults \in 0..MaxFaults

\* `close` fires exactly with the end (session.ts emitClose), and an ended session
\* leaves no open socket behind and no retry armed, whatever turn ended it: an
\* attempt in mid-connect included (session.ts end, reconnect-loop.ts attempt).
OverMeansOver ==
    /\ session.heard.close = (IF isOver(session.link) THEN 1 ELSE 0)
    /\ isOver(session.link) =>
        session.sock # "open" /\ ~session.timer /\ session.attempt # "bind"

\* "The socket being replaced is already dead" (pdu-transport.ts attach): no retry
\* is armed or connecting over a live socket, or its listeners would be taken from it.
ReplacedSocketIsDead ==
    session.timer \/ session.attempt = "connect" => session.sock # "open"

\* "this session comes back on its own" (README.md, `disconnected`): while a
\* reconnecting session is wanted, its socket lives, or its close is still to be
\* heard, or a retry is armed or running.  Otherwise nothing ever wakes it again.
ComesBackWhatever ==
    Reconnects /\ ~session.link.stopped =>
        session.sock # "closed" \/ session.timer \/ session.attempt # "none"

\* The same of a session whose onConnected returns with the answer of its bind, as
\* SmppClient's does (client.ts reconnectFor).
ComesBack == ~awaits => ComesBackWhatever

\* A session with no link to come, never given a loop or told to stop, is over once
\* its socket has closed: nothing else would tell whoever waits on it (session.ts onClose).
DeadMeansOver ==
    ~retrying(session.link) /\ session.sock = "closed" => isOver(session.link)

\* The session implements the contract its events table promises.
Contract == INSTANCE SessionContract WITH
    state <- CASE isUp(session.link) -> "up"
               [] isOver(session.link) -> "over"
               [] OTHER -> "down",
    stopped <- session.link.stopped,
    heard <- session.heard

KeepsContract == Contract!Spec

\* A session that was asked to end ends, whatever the peer does (session.ts close, unbind).
StopEnds == session.link.stopped ~> isOver(session.link)

\* A reconnecting session whose link went attempts another, or is told to stop:
\* no interleaving of error, close, idle timer and a failing attempt loses the retry,
\* if onConnected returns with the answer of its bind.
KeepsTrying ==
    (~awaits /\ session.link.phase = "down" /\ retrying(session.link))
        ~> (session.attempt = "connect" \/ session.link.stopped)
=============================================================================
