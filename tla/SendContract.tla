----------------------------- MODULE SendContract -----------------------------
(***************************************************************************)
(* What the README promises the caller of send() (Sends and the link,      *)
(* Shutdown), request by request: it goes out once or not at all, what it  *)
(* came to says which, and what is asked of a session that was told to     *)
(* stop never goes out, receipts for messages it still holds excepted.     *)
(* OutgoingRequests implements it, whatever happens to the link, the       *)
(* window and the drain underneath.                                        *)
(***************************************************************************)
CONSTANTS
    Requests,   \* the requests ever issued
    Receipts    \* those for messages still held, which a shutdown waits for

VARIABLES
    progress,   \* how far each request is, for its caller
    stopped     \* close() or unbind() was called, or the session is over

\* "barred": asked of a session that was told to stop.
Progress == {"unasked", "asked", "barred", "sent", "answered", "unanswered", "unsent"}

Init ==
    /\ progress = [r \in Requests |-> "unasked"]
    /\ stopped = FALSE

-----------------------------------------------------------------------------
\* What a request can become in one turn.
Ask(r) ==
    /\ progress[r] = "unasked"
    /\ IF stopped /\ r \notin Receipts
       THEN progress'[r] = "barred"
       ELSE progress'[r] = "asked"

GoesOut(r) == progress[r] = "asked" /\ progress'[r] = "sent"

\* Nothing of it reached a socket, and nothing will.
GivesUp(r) == progress[r] \in {"unasked", "asked", "barred"} /\ progress'[r] = "unsent"

\* The peer may have taken it: it is answered, or counts in `unanswered`.
Settles(r) == progress[r] = "sent" /\ progress'[r] \in {"answered", "unanswered"}

\* A turn moves any number of requests: a lost link settles all it carried, a new one
\* admits all that waited.
Turn ==
    /\ progress' = [r \in Requests |-> progress'[r]]
    /\ \A r \in Requests :
        \/ progress'[r] = progress[r]
        \/ Ask(r) \/ GoesOut(r) \/ GivesUp(r) \/ Settles(r)
    /\ stopped' \in BOOLEAN /\ (stopped => stopped')

Spec == Init /\ [][Turn]_<<progress, stopped>>
=============================================================================
