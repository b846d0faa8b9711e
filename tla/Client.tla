-------------------------------- MODULE Client --------------------------------
(***************************************************************************)
(* One call of client() in client.ts: its first connect and bind, the      *)
(* ReconnectLoop of keepTrying() that repeats them when the options say    *)
(* fromStart, and the abort of its signal, which may come at any await and *)
(* from any hook the call runs.  Every attempt makes a session of its own, *)
(* with a reconnect loop of its own, which nobody sees until client()      *)
(* resolves with it: what becomes of those that never are is the subject.  *)
(*                                                                         *)
(* The other end is the composing module's: its actions say when a         *)
(* connect opens and what a bind is answered.  A session's reconnects are  *)
(* SessionLife's: here its retry is armed and no more.                     *)
(***************************************************************************)
EXTENDS SessionMethods, FiniteSets

CONSTANTS
    FromStart,  \* options.reconnect.fromStart
    MaxTries    \* bound: how many connections the call opens

ASSUME FromStartAssumption == FromStart \in BOOLEAN /\ (FromStart => Reconnects)
ASSUME MaxTriesAssumption == MaxTries \in Nat \ {0}

VARIABLES
    call,   \* where client() is, how many sockets it opened, what it resolved with
    loop,   \* keepTrying()'s ReconnectLoop
    esme    \* the session each opened socket was given to, and its hidden close()

clientVars == <<call, loop, esme>>

Tries == 1..MaxTries

\* The sessions made so far.  The last is the one being bound or handed over.
Made == 1..call.tries

Calls == [at : {"idle", "connecting", "binding", "trying", "settled"},
          aborted : BOOLEAN,
          tries : 0..MaxTries,
          result : {"none", "err", "session"}]

Loops == [timer : BOOLEAN, attempt : Attempts, halted : BOOLEAN]

Closings == {"none", "draining", "over"}

ClientInit ==
    /\ call = [at |-> "idle", aborted |-> FALSE, tries |-> 0, result |-> "none"]
    /\ loop = [timer |-> FALSE, attempt |-> "none", halted |-> FALSE]
    /\ esme = [i \in Tries |-> [s |-> FirstSession, closing |-> "none"]]

-----------------------------------------------------------------------------
Settled(result) == [call EXCEPT !.at = "settled", !.result = result]

LoopStopped(l) == [l EXCEPT !.halted = TRUE, !.timer = FALSE]

\* run() after a failed attempt, and the schedule() that follows it.
LoopFailed(l) == [l EXCEPT !.attempt = "none", !.timer = ~l.halted]

\* Mutant: the wait for what is in flight comes before the stop.
CloseStopsLate(e, cut) ==
    IF canCarry(e.s) /\ ~cut
    THEN [e EXCEPT !.closing = "draining"]
    ELSE [s |-> End(e.s), closing |-> "over"]

\* session.close({ signal }): an aborted signal cuts its drain short.
CloseSession(e, cut) ==
    IF canCarry(e.s) /\ ~cut
    THEN [s |-> Stop(e.s), closing |-> "draining"]
    ELSE [s |-> End(e.s), closing |-> "over"]

IsBinding(i) ==
    i = call.tries /\ (call.at = "binding" \/ loop.attempt = "bind")

\* connectAndBind() failed: client() returns its err, or goes on in keepTrying().
FirstFailed ==
    IF FromStart
    THEN /\ call' = [call EXCEPT !.at = "trying"]
         /\ loop' = [loop EXCEPT !.timer = TRUE]
    ELSE /\ call' = Settled("err")
         /\ UNCHANGED loop

\* bindOn() on an err: the session nobody has seen is closed.  In keepTrying()
\* the loop then destroys the socket (bringUp) and asks for another attempt.
BindFails(i, e) ==
    LET closed == CloseSession(e, FALSE)
    IN  IF call.at = "binding"
        THEN /\ esme' = [esme EXCEPT ![i] = closed]
             /\ FirstFailed
        ELSE /\ esme' = [esme EXCEPT ![i] = [closed EXCEPT !.s.sock = Destroy(@)]]
             /\ loop' = LoopFailed(loop)
             /\ UNCHANGED call

\* The session changed under a socket event or a timer.  A lost link settles
\* the bind waiting on it within the turn.
SessionTurn(i, s) ==
    LET e == [esme[i] EXCEPT !.s = s]
    IN  IF IsBinding(i) /\ ~isAttached(s.link)
        THEN BindFails(i, e)
        ELSE /\ esme' = [esme EXCEPT ![i] = e]
             /\ UNCHANGED <<call, loop>>

-----------------------------------------------------------------------------
\* client() with a signal aborted beforehand opens nothing.
CallClient ==
    /\ call.at = "idle"
    /\ call' = IF call.aborted THEN Settled("err") ELSE [call EXCEPT !.at = "connecting"]
    /\ UNCHANGED <<loop, esme>>

\* The signal's listeners: a socket still connecting is destroyed, keepTrying()
\* gives up, and the session being bound or handed over is closed, its drain cut
\* short by the same signal, as are those of the sessions closed before it.
Abort ==
    /\ ~call.aborted
    /\ call' = [(IF call.at \in {"idle", "settled"} THEN call ELSE Settled("err"))
                    EXCEPT !.aborted = TRUE]
    /\ loop' = IF call.at = "trying"
               THEN [LoopStopped(loop) EXCEPT !.attempt = "none"]
               ELSE loop
    /\ esme' = [i \in Tries |->
                  IF \/ esme[i].closing = "draining"
                     \/ IsBinding(i)
                     \/ i = call.tries /\ call.result = "session"
                  THEN CloseSession(esme[i], TRUE)
                  ELSE esme[i]]

Connecting == call.at = "connecting" \/ loop.attempt = "connect"

\* Refused, timed out (connectTimeout), or no such host.
ConnectFails ==
    /\ Connecting
    /\ UNCHANGED esme
    /\ IF call.at = "connecting"
       THEN FirstFailed
       ELSE loop' = LoopFailed(loop) /\ UNCHANGED call

\* The socket is given to a new session, and the bind goes out on it.
ConnectOpens ==
    /\ Connecting /\ call.tries < MaxTries
    /\ call' = [call EXCEPT !.tries = @ + 1,
                            !.at = IF @ = "connecting" THEN "binding" ELSE @]
    /\ loop' = [loop EXCEPT !.attempt = IF @ = "connect" THEN "bind" ELSE @]
    /\ UNCHANGED esme

\* The abort comes between the `connect` event and bindOn(), which closes the
\* session it was given.  A halted keepTrying() makes none, and destroys the socket.
ConnectOpensAborted ==
    /\ Connecting /\ call.tries < MaxTries /\ ~call.aborted
    /\ IF call.at = "connecting"
       THEN /\ call' = [Settled("err") EXCEPT !.tries = @ + 1, !.aborted = TRUE]
            /\ esme' = [esme EXCEPT ![call.tries + 1] = CloseSession(@, TRUE)]
            /\ UNCHANGED loop
       ELSE /\ call' = [Settled("err") EXCEPT !.aborted = TRUE]
            /\ loop' = [LoopStopped(loop) EXCEPT !.attempt = "none"]
            /\ esme' = [i \in Tries |-> IF esme[i].closing = "draining"
                                        THEN CloseSession(esme[i], TRUE)
                                        ELSE esme[i]]

\* ESME_ROK: bindOn() resolves with the session, and so does client().
BindAccepted(i) ==
    /\ IsBinding(i) /\ esme[i].s.sock = "open"
    /\ call' = Settled("session")
    /\ loop' = [LoopStopped(loop) EXCEPT !.attempt = "none"]
    /\ UNCHANGED esme

\* The abort comes from a hook of that same turn.  Its listeners close the
\* session; keepTrying() has resolved with an err, the first attempt has not.
BindAcceptedAborted(i) ==
    /\ IsBinding(i) /\ esme[i].s.sock = "open" /\ ~call.aborted
    /\ call' = [Settled(IF call.at = "trying" THEN "err" ELSE "session")
                    EXCEPT !.aborted = TRUE]
    /\ loop' = [LoopStopped(loop) EXCEPT !.attempt = "none"]
    /\ esme' = [j \in Tries |-> IF j = i \/ esme[j].closing = "draining"
                                THEN CloseSession(esme[j], TRUE)
                                ELSE esme[j]]

\* Any other status, or nothing within responseTimeout.
BindRefused(i) ==
    /\ IsBinding(i) /\ esme[i].s.sock = "open"
    /\ BindFails(i, esme[i])

LoopTimer ==
    /\ loop.timer
    /\ loop' = [loop EXCEPT !.timer = FALSE, !.attempt = "connect"]
    /\ UNCHANGED <<call, esme>>

\* The `close` event of a socket destroyed at this end, or hung up at the other.
ClientSocketCloses(i) ==
    /\ i \in Made /\ esme[i].s.sock # "closed"
    /\ SessionTurn(i, OnClose([esme[i].s EXCEPT !.sock = "closed"], FALSE))

\* The idle timer, or a stream the framer cannot read.
ClientGivesLinkUp(i) ==
    /\ i \in Made /\ isAttached(esme[i].s.link) /\ esme[i].s.sock # "closed"
    /\ SessionTurn(i, Teardown(esme[i].s, FALSE))

\* What a hidden close() waited for is answered, or its shutdownTimeout is over.
ClientDrainOver(i) ==
    /\ esme[i].closing = "draining"
    /\ esme' = [esme EXCEPT ![i] = [s |-> End(@.s), closing |-> "over"]]
    /\ UNCHANGED <<call, loop>>

-----------------------------------------------------------------------------
ClientTypeOK ==
    /\ call \in Calls
    /\ loop \in Loops
    /\ esme \in [Tries -> [s : Sessions, closing : Closings]]

\* "A failure takes it down instead of surfacing" (client.ts bindOn), "retries until
\* one of them binds" and "That signal also closes the session once bound" (README.md):
\* a session that is not stopped is the one being bound or the one client() resolved
\* with, no abort leaves one, and neither does the loop of a call that has settled.
NothingLeftBehind ==
    /\ \A i \in Made : ~esme[i].s.link.stopped =>
        ~call.aborted /\ (IsBinding(i) \/ (i = call.tries /\ call.result = "session"))
    /\ \A i \in Made : esme[i].s.timer => ~esme[i].s.link.stopped
    /\ call.at = "settled" => ~loop.timer /\ loop.attempt = "none"
    /\ FromStart /\ call.result = "err" => call.aborted
=============================================================================
