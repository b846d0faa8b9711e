------------------------------ MODULE Handshake ------------------------------
(***************************************************************************)
(* client() of Client against the SmppServer of Server: each socket the    *)
(* client opens is a connection of the server, the client's bind and the   *)
(* answer to it travel between them, and each end learns of the other's    *)
(* hanging up by the `close` event of its own socket.  Strangers are peers *)
(* that bind as they please.  What is in flight is lost with the socket    *)
(* that should read it, and delivered after the one that wrote it is gone. *)
(***************************************************************************)
EXTENDS Client, Server

CONSTANT MaxFaults  \* bound: links lost, binds unanswered or thrown, aborts and strangers

ASSUME ConnsAssumption == Tries \subseteq Conns
ASSUME FaultsAssumption == MaxFaults \in Nat

VARIABLES
    wire,       \* per connection of the client, its bind and the answer in flight
    faults      \* how many faults the environment has used

vars == <<clientVars, serverVars, wire, faults>>

Strangers == Conns \ Tries

Init ==
    /\ ClientInit /\ ServerInit
    /\ wire = [i \in Tries |-> [bind |-> FALSE, resp |-> "none"]]
    /\ faults = 0

Fault == faults < MaxFaults /\ faults' = faults + 1

-----------------------------------------------------------------------------
(* Turns of the client alone.                                              *)

Starts ==
    /\ CallClient
    /\ UNCHANGED <<serverVars, wire, faults>>

Aborts ==
    /\ Abort /\ Fault
    /\ UNCHANGED <<serverVars, wire>>

\* A connect fails as often as the network likes.
CannotConnect ==
    /\ ConnectFails
    /\ UNCHANGED <<serverVars, wire, faults>>

Retries ==
    /\ LoopTimer
    /\ UNCHANGED <<serverVars, wire, faults>>

BindTimesOut(i) ==
    /\ BindRefused(i) /\ Fault
    /\ UNCHANGED <<serverVars, wire>>

ClientGivesUp(i) ==
    /\ ClientGivesLinkUp(i) /\ Fault
    /\ UNCHANGED <<serverVars, wire>>

\* The `close` event is owed to a destroyed socket, and to one whose other end is gone.
ClientHearsClose(i) ==
    /\ esme[i].s.sock = "destroyed" \/ smsc[i].s.sock # "open"
    /\ ClientSocketCloses(i)
    /\ UNCHANGED <<serverVars, wire, faults>>

ClientLinkDies(i) ==
    /\ esme[i].s.sock = "open" /\ smsc[i].s.sock = "open"
    /\ ClientSocketCloses(i) /\ Fault
    /\ UNCHANGED <<serverVars, wire>>

ClientDrained(i) ==
    /\ ClientDrainOver(i)
    /\ UNCHANGED <<serverVars, wire, faults>>

-----------------------------------------------------------------------------
(* Turns in which the two ends meet.                                       *)

Connects ==
    /\ ConnectOpens
    /\ ConnectionArrives(call'.tries)
    /\ wire' = [wire EXCEPT ![call'.tries].bind = TRUE]
    /\ UNCHANGED faults

\* The socket of a keepTrying() that gave up is gone before the server hears of it.
ConnectsAborted ==
    /\ ConnectOpensAborted /\ Fault
    /\ listening
    /\ IF call.at = "connecting"
       THEN ConnectionArrives(call'.tries)
       ELSE UNCHANGED serverVars
    /\ UNCHANGED wire

ReadsBind(i) ==
    /\ wire[i].bind
    /\ BindRead(i)
    /\ wire' = [wire EXCEPT ![i].bind = FALSE]
    /\ UNCHANGED <<clientVars, faults>>

\* The answer goes out if the session still has a link to carry it.
AnswersBind(c, accepts) ==
    /\ Authenticated(c, accepts)
    /\ wire' = IF c \in Tries /\ CanRead(c)
               THEN [wire EXCEPT ![c].resp = IF accepts THEN "ok" ELSE "fail"]
               ELSE wire
    /\ UNCHANGED <<clientVars, faults>>

HearsAnswer(i) ==
    /\ \/ wire[i].resp = "ok" /\ BindAccepted(i) /\ UNCHANGED faults
       \/ wire[i].resp = "ok" /\ BindAcceptedAborted(i) /\ Fault
       \/ wire[i].resp = "fail" /\ BindRefused(i) /\ UNCHANGED faults
    /\ wire' = [wire EXCEPT ![i].resp = "none"]
    /\ UNCHANGED serverVars

-----------------------------------------------------------------------------
(* Turns of the server alone.                                              *)

HandshakeDone(c) ==
    /\ Accepted(c)
    /\ UNCHANGED <<clientVars, wire, faults>>

HandshakeLost(c) ==
    /\ HandshakeFails(c) /\ Fault
    /\ UNCHANGED <<clientVars, wire>>

AuthenticationThrows(c) ==
    /\ AuthenticateThrows(c) /\ Fault
    /\ UNCHANGED <<clientVars, wire>>

ServerGivesUp(c) ==
    /\ ServerGivesLinkUp(c) /\ Fault
    /\ UNCHANGED <<clientVars, wire>>

ServerHearsClose(c) ==
    /\ smsc[c].s.sock = "destroyed" \/ (c \in Tries /\ esme[c].s.sock # "open")
    /\ ServerSocketCloses(c)
    /\ UNCHANGED <<clientVars, wire, faults>>

ServerLinkDies(c) ==
    /\ smsc[c].s.sock = "open" /\ (c \in Tries => esme[c].s.sock = "open")
    /\ ServerSocketCloses(c) /\ Fault
    /\ UNCHANGED <<clientVars, wire>>

ServerCloses(k, cut) ==
    /\ CloseServer(k, cut)
    /\ UNCHANGED <<clientVars, wire, faults>>

ServerDrained(c) ==
    /\ ServerDrainOver(c)
    /\ UNCHANGED <<clientVars, wire, faults>>

ServerIsClosed(k) ==
    /\ CloseResolves(k)
    /\ UNCHANGED <<clientVars, wire, faults>>

StrangerConnects(c) ==
    /\ ConnectionArrives(c) /\ Fault
    /\ UNCHANGED <<clientVars, wire>>

\* A second bind need not wait for the answer to the first.
StrangerBinds(c) ==
    /\ BindRead(c)
    /\ UNCHANGED <<clientVars, wire, faults>>

StrangerUnbinds(c) ==
    /\ UnbindRead(c)
    /\ UNCHANGED <<clientVars, wire, faults>>

-----------------------------------------------------------------------------
ClientStep ==
    \/ Starts \/ Aborts \/ CannotConnect \/ Retries
    \/ Connects \/ ConnectsAborted
    \/ \E i \in Tries :
        \/ BindTimesOut(i) \/ ClientGivesUp(i) \/ ClientHearsClose(i) \/ ClientLinkDies(i)
        \/ ClientDrained(i)
        \/ ReadsBind(i) \/ HearsAnswer(i)

ServerStep ==
    \/ \E c \in Conns :
        \/ HandshakeDone(c) \/ HandshakeLost(c)
        \/ \E accepts \in BOOLEAN : AnswersBind(c, accepts)
        \/ AuthenticationThrows(c)
        \/ ServerGivesUp(c) \/ ServerHearsClose(c) \/ ServerLinkDies(c) \/ ServerDrained(c)
    \/ \E k \in ServerClosers :
        \/ \E cut \in BOOLEAN : ServerCloses(k, cut)
        \/ ServerIsClosed(k)

StrangerStep ==
    \E c \in Strangers : StrangerConnects(c) \/ StrangerBinds(c) \/ StrangerUnbinds(c)

Next == ClientStep \/ ServerStep \/ StrangerStep

Spec == Init /\ [][Next]_vars

\* What Node and the library's timers owe: a drain ends (shutdownTimeout), a TLS
\* handshake does (Node's handshakeTimeout), and a socket that is destroyed, or whose
\* peer's is, reports its close.  Peers, authenticate() and the callers owe nothing.
Owed ==
    \/ \E i \in Tries : ClientHearsClose(i) \/ ClientDrained(i)
    \/ \E c \in Conns : ServerHearsClose(c) \/ ServerDrained(c) \/ HandshakeDone(c)

\* Each of them happens once to a connection, so whoever is fair to all is fair to each.
Fairness == WF_vars(Owed)

FairSpec == Spec /\ Fairness

-----------------------------------------------------------------------------
(* Properties                                                              *)

TypeOK ==
    /\ ClientTypeOK /\ ServerTypeOK
    /\ wire \in [Tries -> [bind : BOOLEAN, resp : {"none", "ok", "fail"}]]
    /\ faults \in 0..MaxFaults

\* client() resolves with a session only where the server recorded its bind, however
\* late the answer and whatever attempts came before (client.ts bind, server.ts onBind).
HandedOverWasAccepted ==
    call.result = "session" => smsc[call.tries].bound

\* A session of the server ends once a close() has taken it, in mid-bind too and whatever
\* its peer does, or once the client it was bound for has given its own up: a bind accepted
\* after the client stopped waiting, or aborted, leaves no ghost (client.ts bindOn,
\* server.ts close).
Doomed == {c \in Conns :
    /\ ~SMSC!isOver(smsc[c].s.link)
    /\ \/ \E k \in ServerClosers : c \in closers[k].live
       \/ c \in Tries /\ smsc[c].bound /\ esme[c].s.link.stopped}

DoomedSessionsEnd == (Doomed # {}) ~> (Doomed = {})
=============================================================================
