-------------------------------- MODULE Server --------------------------------
(***************************************************************************)
(* SmppServer of server.ts: the sessions it accepts, their binds, which    *)
(* wait for the application's authenticate(), and its close(), which takes *)
(* a snapshot of the sessions while handshakes are still going on.  A      *)
(* session of a server has no reconnect loop.                              *)
(*                                                                         *)
(* Over TLS a connection the listener has accepted becomes a session when  *)
(* its handshake is done; without TLS at once, which is the case where     *)
(* Accepted follows its connection immediately.                            *)
(***************************************************************************)
EXTENDS Naturals

CONSTANTS
    Conns,          \* the connections peers make
    ServerClosers,  \* the calls of SmppServer.close(), the signal's abort among them
    MaxBinds        \* bound: how many binds of one peer are authenticated at once

ASSUME MaxBindsAssumption == MaxBinds \in Nat \ {0}

SMSC == INSTANCE SessionMethods WITH Reconnects <- FALSE

VARIABLES
    listening,  \* the listener accepts connections
    smsc,       \* each connection, its session, bind and close()
    closers     \* how far each close() has come, and the sessions it took

serverVars == <<listening, smsc, closers>>

\* at: "none", in a TLS "handshake", a "session", or "failed" before it became one.
\* listed: in `sessions`.  bound: `boundAs` is set.  authenticating: the binds
\* whose authenticate() is awaited.
Connections == [at : {"none", "handshake", "session", "failed"},
                s : SMSC!Sessions,
                listed : BOOLEAN,
                bound : BOOLEAN,
                authenticating : 0..MaxBinds,
                closing : {"none", "draining", "over"}]

ServerInit ==
    /\ listening = TRUE
    /\ smsc = [c \in Conns |-> [at |-> "none", s |-> SMSC!FirstSession, listed |-> FALSE,
                                bound |-> FALSE, authenticating |-> 0, closing |-> "none"]]
    /\ closers = [k \in ServerClosers |-> [at |-> "idle", live |-> {}]]

-----------------------------------------------------------------------------
\* Mutant: a session stays in the set when it closes.
TurnKeepsListing(c, s) == smsc' = [smsc EXCEPT ![c].s = s]

\* A turn of a session.  Its `close` event takes it out of the set.
ServerTurn(c, s) ==
    smsc' = [smsc EXCEPT ![c].s = s, ![c].listed = @ /\ ~SMSC!isOver(s.link)]

\* The session can read what its peer sends.
CanRead(c) ==
    smsc[c].at = "session" /\ SMSC!isAttached(smsc[c].s.link) /\ smsc[c].s.sock = "open"

\* The peer's TCP connection is accepted.
ConnectionArrives(c) ==
    /\ listening /\ smsc[c].at = "none"
    /\ smsc' = [smsc EXCEPT ![c].at = "handshake"]
    /\ UNCHANGED <<listening, closers>>

\* `connection` or `secureConnection`: onConnection(), whatever close() did meanwhile.
Accepted(c) ==
    /\ smsc[c].at = "handshake"
    /\ smsc' = [smsc EXCEPT ![c].at = "session", ![c].listed = TRUE]
    /\ UNCHANGED <<listening, closers>>

\* `tlsClientError`.
HandshakeFails(c) ==
    /\ smsc[c].at = "handshake"
    /\ smsc' = [smsc EXCEPT ![c].at = "failed", ![c].s.sock = "closed"]
    /\ UNCHANGED <<listening, closers>>

\* handleRequest(): a bind on a session not yet bound waits for authenticate().
\* On a bound one it is answered ESME_RALYBND and changes nothing.
BindRead(c) ==
    /\ CanRead(c)
    /\ smsc[c].bound \/ smsc[c].authenticating < MaxBinds
    /\ smsc' = [smsc EXCEPT ![c].authenticating = IF smsc[c].bound THEN @ ELSE @ + 1]
    /\ UNCHANGED <<listening, closers>>

\* Mutant: the bind that is answered is not recorded.
AuthenticatedUnrecorded(c, accepts) ==
    /\ smsc[c].authenticating > 0
    /\ smsc' = [smsc EXCEPT ![c].authenticating = @ - 1]
    /\ UNCHANGED <<listening, closers>>

\* onBind() when authenticate() resolves, on a session that may be over by now: the
\* bind is recorded unless it was refused.  The composing module sends the answer.
Authenticated(c, accepts) ==
    /\ smsc[c].authenticating > 0
    /\ smsc' = [smsc EXCEPT ![c].authenticating = @ - 1, ![c].bound = @ \/ accepts]
    /\ UNCHANGED <<listening, closers>>

\* authenticate() throws: the session's handler reports it, and nothing is answered.
AuthenticateThrows(c) ==
    /\ smsc[c].authenticating > 0
    /\ smsc' = [smsc EXCEPT ![c].authenticating = @ - 1]
    /\ UNCHANGED <<listening, closers>>

\* Answered in any state of the bind, and closed without a drain.
UnbindRead(c) ==
    /\ CanRead(c)
    /\ ServerTurn(c, SMSC!End(smsc[c].s))
    /\ UNCHANGED <<listening, closers>>

ServerSocketCloses(c) ==
    /\ smsc[c].at = "session" /\ smsc[c].s.sock # "closed"
    /\ ServerTurn(c, SMSC!OnClose([smsc[c].s EXCEPT !.sock = "closed"], FALSE))
    /\ UNCHANGED <<listening, closers>>

\* The idle timer, or a stream the framer cannot read.
ServerGivesLinkUp(c) ==
    /\ CanRead(c)
    /\ ServerTurn(c, SMSC!Teardown(smsc[c].s, FALSE))
    /\ UNCHANGED <<listening, closers>>

-----------------------------------------------------------------------------
(* SmppServer.close()                                                      *)

Listed == {c \in Conns : smsc[c].listed}

\* Mutant: a session that was never bound has nothing to drain, and is left alone.
CloseServerSkipsUnbound(k, cut) ==
    /\ closers[k].at = "idle"
    /\ closers' = [closers EXCEPT ![k] = [at |-> "waiting", live |-> Listed]]
    /\ listening' = FALSE
    /\ smsc' = [c \in Conns |->
        IF c \notin Listed THEN smsc[c]
        ELSE IF ~smsc[c].bound
        THEN [smsc[c] EXCEPT !.closing = "over", !.listed = FALSE]
        ELSE [smsc[c] EXCEPT !.s = SMSC!End(@), !.closing = "over", !.listed = FALSE]]

\* Each session taken is closed: at once if it cannot carry anything or the
\* call's signal is aborted, otherwise once drained.
CloseServer(k, cut) ==
    /\ closers[k].at = "idle"
    /\ closers' = [closers EXCEPT ![k] = [at |-> "waiting", live |-> Listed]]
    /\ listening' = FALSE
    /\ smsc' = [c \in Conns |->
        IF c \notin Listed THEN smsc[c]
        ELSE IF SMSC!canCarry(smsc[c].s) /\ ~cut
        THEN [smsc[c] EXCEPT !.s = SMSC!Stop(@), !.closing = "draining", !.listed = FALSE]
        ELSE [smsc[c] EXCEPT !.s = SMSC!End(@), !.closing = "over", !.listed = FALSE]]

ServerDrainOver(c) ==
    /\ smsc[c].closing = "draining"
    /\ smsc' = [smsc EXCEPT ![c].s = SMSC!End(@), ![c].closing = "over"]
    /\ UNCHANGED <<listening, closers>>

\* Mutant: close() waits for its sessions only.
CloseResolvesEarly(k) ==
    /\ closers[k].at = "waiting"
    /\ \A c \in closers[k].live : smsc[c].closing = "over"
    /\ closers' = [closers EXCEPT ![k].at = "resolved"]
    /\ UNCHANGED <<listening, smsc>>

\* Its sessions' close() are over, and the listener has reported its own `close`,
\* which comes when the last of its connections is gone.
CloseResolves(k) ==
    /\ closers[k].at = "waiting"
    /\ \A c \in closers[k].live : smsc[c].closing = "over"
    /\ \A c \in Conns : smsc[c].at # "none" => smsc[c].s.sock = "closed"
    /\ closers' = [closers EXCEPT ![k].at = "resolved"]
    /\ UNCHANGED <<listening, smsc>>

-----------------------------------------------------------------------------
ServerTypeOK ==
    /\ listening \in BOOLEAN
    /\ smsc \in [Conns -> Connections]
    /\ closers \in [ServerClosers ->
                     [at : {"idle", "waiting", "resolved"}, live : SUBSET Conns]]

\* `sessions` holds exactly the sessions that live and no close() has taken
\* (server.ts onConnection, close): one missing is never closed, one too many is kept
\* for ever.
ListedIsLive ==
    \A c \in Conns :
        smsc[c].listed <=>
            /\ smsc[c].at = "session" /\ ~SMSC!isOver(smsc[c].s.link)
            /\ \A k \in ServerClosers : c \notin closers[k].live

\* "stop listening, then drain and close every live session" (README.md): when close()
\* resolves no connection is left and none is made again, one that was in its
\* handshake when close() was called included.
ClosedServerIsEmpty ==
    \A k \in ServerClosers : closers[k].at = "resolved" =>
        \A c \in Conns :
            \/ smsc[c].at \in {"none", "failed"}
            \/ smsc[c].at = "session" /\ SMSC!isOver(smsc[c].s.link)
=============================================================================
