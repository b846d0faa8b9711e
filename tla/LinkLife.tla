------------------------------- MODULE LinkLife -------------------------------
(***************************************************************************)
(* The life of a session's link: the state of the class LinkLife in        *)
(* link-life.ts and its operations, as operators on a link record.  The    *)
(* JavaScript calls them synchronously, several in one turn (a teardown    *)
(* drops the link and may end it), so the modules that use them compose    *)
(* them inside one step.                                                   *)
(***************************************************************************)
EXTENDS Naturals

CONSTANT Reconnects     \* options.reconnects: a dropped link is followed by another

ASSUME ReconnectsAssumption == Reconnects \in BOOLEAN

\* `binding`: a socket is attached and its bind is not answered yet.
Phases == {"binding", "down", "ended", "up"}

Links == [phase : Phases, stopped : BOOLEAN, drops : Nat]

\* A session starts on a socket it was handed, and may send on it at once.
FirstLink == [phase |-> "up", stopped |-> FALSE, drops |-> 0]

-----------------------------------------------------------------------------
\* A socket is on the link, bound or not.
isAttached(link) == link.phase \in {"binding", "up"}

\* A request can go out right now.
isUp(link) == link.phase = "up"

isOver(link) == link.phase = "ended"

\* A link that drops now is followed by another.
retrying(link) == Reconnects /\ ~link.stopped

\* Not up and not over, with a link to come.
awaitsNextLink(link) == ~isUp(link) /\ ~isOver(link) /\ retrying(link)

\* No request will ever be admitted.
refusal(link) == ~isUp(link) /\ ~awaitsNextLink(link)

-----------------------------------------------------------------------------
attach(link) == IF isOver(link) THEN link ELSE [link EXCEPT !.phase = "binding"]

\* The code has no guard here: whoever calls it vouches for the socket.
open(link) == [link EXCEPT !.phase = "up"]

\* The event drop() returns to its caller.
dropEvent(link) ==
    CASE ~isAttached(link) -> "none"
      [] isAttached(link) /\ retrying(link) -> "disconnected"
      [] isAttached(link) /\ ~retrying(link) -> "close"

drop(link) ==
    IF isAttached(link)
    THEN [link EXCEPT !.phase = "down", !.drops = @ + 1]
    ELSE link

stop(link) == [link EXCEPT !.stopped = TRUE]

end(link) == [link EXCEPT !.phase = "ended", !.stopped = TRUE]
=============================================================================
