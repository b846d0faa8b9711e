--------------------------- MODULE SessionContract ---------------------------
(***************************************************************************)
(* What a session promises the application about its life, as the events   *)
(* table of README.md tells it: `disconnected` when a link is lost that    *)
(* the session means to replace, `reconnected` when it did, `close` once   *)
(* and last.  Nothing here knows of sockets, timers or attempts;           *)
(* SessionLife is shown to implement it.                                   *)
(***************************************************************************)
EXTENDS Naturals

CONSTANT Reconnects     \* the session was given a way to reconnect

VARIABLES
    state,      \* "up": sends go out; "down": a link is to come; "over": it is closed
    stopped,    \* the application or the peer has asked for the end
    heard       \* how many times each event has fired

vars == <<state, stopped, heard>>

Init ==
    /\ state = "up"
    /\ stopped = FALSE
    /\ heard = [disconnected |-> 0, reconnected |-> 0, close |-> 0]

\* A link was lost.  Fires again for an attempt that attached a socket and failed.
Disconnect ==
    /\ Reconnects /\ state # "over" /\ ~stopped
    /\ state' = "down"
    /\ heard' = [heard EXCEPT !.disconnected = @ + 1]
    /\ UNCHANGED stopped

\* Only a lost link comes back, and never once the end was asked for.
Reconnect ==
    /\ Reconnects /\ state = "down" /\ ~stopped
    /\ state' = "up"
    /\ heard' = [heard EXCEPT !.reconnected = @ + 1]
    /\ UNCHANGED stopped

Stop ==
    /\ state # "over" /\ ~stopped
    /\ stopped' = TRUE
    /\ UNCHANGED <<state, heard>>

\* The one `close`: nothing is heard after it.  A listener that ends the session
\* from inside a `disconnected` hears both in one turn.
Close ==
    /\ state # "over"
    /\ state' = "over"
    /\ stopped' = TRUE
    /\ \E lost \in {0, 1} :
        /\ lost = 1 => Reconnects /\ ~stopped
        /\ heard' = [heard EXCEPT !.disconnected = @ + lost, !.close = @ + 1]

Next == Disconnect \/ Reconnect \/ Stop \/ Close

Spec == Init /\ [][Next]_vars
=============================================================================
