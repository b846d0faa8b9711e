--------------------------- MODULE SessionMethods ---------------------------
(***************************************************************************)
(* The methods of a Session that change its link, its socket or its        *)
(* ReconnectLoop (session.ts, reconnect-loop.ts), as operators from the    *)
(* session before the call to the session after it.  They are synchronous  *)
(* and call each other within one turn; the specifications of a session,   *)
(* of a client and of a server compose them inside one step.               *)
(***************************************************************************)
EXTENDS LinkLife

\* "destroyed": `destroyed` reads true and the socket's `close` event is still to come.
Sockets == {"open", "destroyed", "closed"}

\* Where ReconnectLoop.run() is; anything but "none" is its `attempting`.
Attempts == {"none", "connect", "bind", "after"}

\* How often each event has fired.
Heard == [disconnected : Nat, reconnected : Nat, close : 0..1]

Sessions == [link : Links, sock : Sockets, timer : BOOLEAN, halted : BOOLEAN,
             attempt : Attempts, heard : Heard]

NothingHeard == [disconnected |-> 0, reconnected |-> 0, close |-> 0]

FirstSession == [link |-> FirstLink, sock |-> "open", timer |-> FALSE,
                 halted |-> FALSE, attempt |-> "none", heard |-> NothingHeard]

-----------------------------------------------------------------------------
\* sock.destroy(): its `close` event follows, once.
Destroy(sock) == IF sock = "open" THEN "destroyed" ELSE sock

canCarry(s) == isUp(s.link) /\ s.sock = "open"

\* ReconnectLoop.schedule()
Schedule(s) ==
    IF Reconnects /\ ~s.timer /\ s.attempt = "none" /\ ~s.halted
    THEN [s EXCEPT !.timer = TRUE]
    ELSE s

\* Mutant: the armed timer is forgotten.
StopKeepsTimer(s) == [s EXCEPT !.link = stop(@), !.halted = TRUE]

\* Session.stop(), and the loop's.
Stop(s) == [s EXCEPT !.link = stop(@), !.halted = TRUE, !.timer = FALSE]

\* Mutant: the event is not guarded by the end.
EmitCloseAgain(s) == [s EXCEPT !.link = end(@), !.heard.close = @ + 1]

EmitClose(s) ==
    IF isOver(s.link)
    THEN s
    ELSE [s EXCEPT !.link = end(@), !.heard.close = @ + 1]

\* The event is read off the link before anything the teardown calls can stop
\* it: `closes` is a listener reached from incoming.clear() calling close().
Teardown(s, closes) ==
    LET lost == dropEvent(s.link)
        dropped == [s EXCEPT !.link = drop(@), !.sock = Destroy(@)]
        left == IF closes THEN Stop(dropped) ELSE dropped
    IN  CASE lost = "none" -> s
          [] lost = "disconnected" -> [left EXCEPT !.heard.disconnected = @ + 1]
          [] lost = "close" -> EmitClose(left)

\* Mutant: the end is left to the teardown, which has no link to drop in a gap.
EndByTeardown(s) == Teardown(Stop(s), FALSE)

End(s) == EmitClose(Teardown(Stop(s), FALSE))

OnClose(s, closes) ==
    IF retrying(s.link) THEN Schedule(Teardown(s, closes)) ELSE End(s)
=============================================================================
