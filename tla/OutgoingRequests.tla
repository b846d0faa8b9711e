--------------------------- MODULE OutgoingRequests ---------------------------
(***************************************************************************)
(* A session's own requests: OutgoingRequests (outgoing-requests.ts) over  *)
(* its SendWindow (send-window.ts), the requests awaiting a response       *)
(* (pending-requests.ts) and the link they wait for (link-life.ts), and    *)
(* the drain of session.ts that waits them out.                            *)
(*                                                                         *)
(* A call of request() is a coroutine; pc[r] says at which await it is.    *)
(* "linked", "slotted", "finished" and "released" are continuations in the *)
(* microtask queue: they run, in some order, before the next socket event  *)
(* or timer.  Application code (a send, an abort, a close) may run between *)
(* any two of them.  The link changes as SessionLife has it change under   *)
(* an onConnected that returns with its bind's answer.                     *)
(***************************************************************************)
EXTENDS LinkLife, Sequences, FiniteSets

CONSTANTS
    Calls,          \* the requests ever issued, those of one call of the application together:
                    \* the segments of a message, the receipts for one, or a single request
    Receipts,       \* those a message's sendDlr() issues, through requestPastDrain()
    Malformed,      \* those the codec refuses to build
    Limit,          \* maxOutstanding
    BudgetEnds,     \* responseTimeout > 0: a wait for a link, and for an answer, ends
    MaxLinks        \* bound: how many links follow the first

Requests == UNION Calls

ASSUME RequestsAssumption ==
    /\ IsFiniteSet(Requests)
    /\ \A one, other \in Calls : one \cap other # {} => one = other
    /\ Receipts \subseteq Requests /\ Malformed \subseteq Requests
ASSUME LimitAssumption == Limit \in Nat \ {0}
ASSUME BudgetAssumption == BudgetEnds \in BOOLEAN
ASSUME LinksAssumption == MaxLinks \in Nat

VARIABLES
    link,       \* LinkLife's state
    destroyed,  \* the `destroyed` of the transport's socket
    pc,         \* where each request is
    result,     \* what its attempt, and then the request, came to
    aborted,    \* its signal
    spent,      \* its budget for links has run out
    written,    \* how many times it was put on a socket
    inFlight,   \* SendWindow.inFlight
    queue,      \* SendWindow.waiting, in insertion order
    drain,      \* the one close(): how far it is and what it found
    late        \* history: the requests issued after stop()

vars == <<link, destroyed, pc, result, aborted, spent, written, inFlight, queue, drain, late>>
window == <<inFlight, queue>>
signals == <<aborted, spent>>

Places == {"unissued", "holding", "linked", "queued", "slotted", "wire",
           "finished", "released", "done"}

Results == {"none", "answered", "unanswered", "unsent", "unwritten"}

\* A drain waits for the messages, then for the requests, then reads the link once more.
Drains == [at : {"idle", "messages", "requests", "checking", "over"},
           held : BOOLEAN,          \* messages are left that the application never answered
           left : Nat,              \* what the window still owed when the wait for it ended
           found : {"none", "clean", "err"}]

In(places) == {r \in Requests : pc[r] \in places}

Holders == In({"slotted", "wire", "finished"})

Init ==
    /\ link = FirstLink /\ destroyed = FALSE
    /\ pc = [r \in Requests |-> "unissued"]
    /\ result = [r \in Requests |-> "none"]
    /\ aborted = [r \in Requests |-> FALSE]
    /\ spent = [r \in Requests |-> FALSE]
    /\ written = [r \in Requests |-> 0]
    /\ inFlight = 0 /\ queue = <<>>
    /\ drain = [at |-> "idle", held |-> TRUE, left |-> 0, found |-> "none"]
    /\ late = {}

-----------------------------------------------------------------------------
canCarry == isUp(link) /\ ~destroyed

unfinished == inFlight + Len(queue)

\* Nothing is left in the microtask queue, so the next event may run.
Quiet == In({"linked", "slotted", "finished", "released"}) = {} /\ drain.at # "checking"

\* Requests that are over without their PDU having gone out.
Refuse(rs) ==
    /\ pc' = [r \in Requests |-> IF r \in rs THEN "done" ELSE pc[r]]
    /\ result' = [r \in Requests |-> IF r \in rs THEN "unsent" ELSE result[r]]

\* LinkLife.wait(), of each request's own budget.
WaitForLink(rs) ==
    LET refused == {r \in rs : ~isUp(link) /\ (refusal(link) \/ aborted[r] \/ spent[r])}
    IN  /\ pc' = [r \in Requests |-> CASE r \in refused -> "done"
                                       [] r \in rs \ refused -> IF isUp(link) THEN "linked" ELSE "holding"
                                       [] OTHER -> pc[r]]
        /\ result' = [r \in Requests |-> CASE r \in refused -> "unsent"
                                           [] r \in rs \ refused -> "none"
                                           [] OTHER -> result[r]]

\* Mutant: an aborted waiter keeps its place.
LeaveKeepsPlace(q, r) == q

\* A waiter leaves the queue wherever it stands in it.
Leave(q, r) ==
    LET at == CHOOSE i \in DOMAIN q : q[i] = r
    IN  [i \in 1 .. Len(q) - 1 |-> IF i < at THEN q[i] ELSE q[i + 1]]

\* Mutant: any receipt goes past it, whatever the drain found left.
pastDrainAlways(r) == r \in Receipts

\* A receipt for a message still held goes past the drain's refusal.
pastDrain(r) == r \in Receipts /\ drain.held

-----------------------------------------------------------------------------
(* A request, await by await.                                              *)

\* request(), of every request of the call in one turn: a stopped session refuses it,
\* and a stopped one in a gap has no link to wait for.
Issue(rs) ==
    /\ \A r \in rs : pc[r] = "unissued"
    /\ IF \E r \in rs : (link.stopped /\ canCarry /\ ~pastDrain(r)) \/ aborted[r]
       THEN Refuse(rs)
       ELSE WaitForLink(rs)
    /\ late' = IF link.stopped THEN late \cup rs ELSE late
    /\ UNCHANGED <<link, destroyed, signals, written, window, drain>>

\* Mutant: one slot too many.
AcquireOneMore(r) ==
    /\ pc[r] = "linked"
    /\ \/ /\ inFlight <= Limit
          /\ inFlight' = inFlight + 1
          /\ pc' = [pc EXCEPT ![r] = "slotted"]
          /\ UNCHANGED <<result, queue>>
       \/ /\ inFlight > Limit /\ aborted[r]
          /\ Refuse({r})
          /\ UNCHANGED window
       \/ /\ inFlight > Limit /\ ~aborted[r]
          /\ queue' = Append(queue, r)
          /\ pc' = [pc EXCEPT ![r] = "queued"]
          /\ UNCHANGED <<result, inFlight>>
    /\ UNCHANGED <<link, destroyed, signals, written, drain, late>>

\* SendWindow.acquire(): a free slot is taken even by an aborted request.
Acquire(r) ==
    /\ pc[r] = "linked"
    /\ \/ /\ inFlight < Limit
          /\ inFlight' = inFlight + 1
          /\ pc' = [pc EXCEPT ![r] = "slotted"]
          /\ UNCHANGED <<result, queue>>
       \/ /\ inFlight >= Limit /\ aborted[r]
          /\ Refuse({r})
          /\ UNCHANGED window
       \/ /\ inFlight >= Limit /\ ~aborted[r]
          /\ queue' = Append(queue, r)
          /\ pc' = [pc EXCEPT ![r] = "queued"]
          /\ UNCHANGED <<result, inFlight>>
    /\ UNCHANGED <<link, destroyed, signals, written, drain, late>>

\* attempt(): up to the write, and on to the await of the response.
Attempt(r) ==
    /\ pc[r] = "slotted"
    /\ \/ /\ aborted[r] \/ r \in Malformed
          /\ pc' = [pc EXCEPT ![r] = "finished"]
          /\ result' = [result EXCEPT ![r] = "unsent"]
          /\ UNCHANGED written
       \/ /\ ~aborted[r] /\ r \notin Malformed /\ destroyed
          /\ pc' = [pc EXCEPT ![r] = "finished"]
          /\ result' = [result EXCEPT ![r] = "unwritten"]
          /\ UNCHANGED written
       \/ /\ ~aborted[r] /\ r \notin Malformed /\ ~destroyed
          /\ pc' = [pc EXCEPT ![r] = "wire"]
          /\ written' = [written EXCEPT ![r] = @ + 1]
          /\ UNCHANGED result
    /\ UNCHANGED <<link, destroyed, signals, window, drain, late>>

\* Mutant: a slot that is handed over is given back as well.
ReleaseTwice(r) ==
    /\ pc[r] = "finished"
    /\ pc' = [p \in Requests |-> CASE p = r -> "released"
                                    [] queue # <<>> /\ p = Head(queue) -> "slotted"
                                    [] OTHER -> pc[p]]
    /\ queue' = IF queue = <<>> THEN queue ELSE Tail(queue)
    /\ inFlight' = inFlight - 1
    /\ UNCHANGED <<link, destroyed, result, signals, written, drain, late>>

\* Mutant: the slot is given back and the queue forgotten.
ReleaseToNobody(r) ==
    /\ pc[r] = "finished"
    /\ pc' = [pc EXCEPT ![r] = "released"]
    /\ inFlight' = inFlight - 1
    /\ UNCHANGED <<link, destroyed, result, signals, written, queue, drain, late>>

\* SendWindow.release(), from the finally(): the slot goes to the first in the
\* queue, or back to the window, and a window that empties wakes the drain.
Release(r) ==
    /\ pc[r] = "finished"
    /\ \/ /\ queue # <<>>
          /\ pc' = [pc EXCEPT ![r] = "released", ![Head(queue)] = "slotted"]
          /\ queue' = Tail(queue)
          /\ UNCHANGED <<inFlight, drain>>
       \/ /\ queue = <<>>
          /\ pc' = [pc EXCEPT ![r] = "released"]
          /\ inFlight' = inFlight - 1
          /\ drain' = IF inFlight = 1 /\ drain.at = "requests"
                      THEN [drain EXCEPT !.at = "checking", !.left = 0]
                      ELSE drain
          /\ UNCHANGED queue
    /\ UNCHANGED <<link, destroyed, result, signals, written, late>>

\* Mutant: what a lost link left unanswered is sent again.
retriesUnanswered(r) == result[r] \in {"unwritten", "unanswered"} /\ awaitsNextLink(link)

\* Mutant: the retry does not ask whether the link it failed on still counts as up.
retriesAtOnce(r) == result[r] = "unwritten"

retriesOnNextLink(r) == result[r] = "unwritten" /\ awaitsNextLink(link)

\* The loop of requestPastDrain() goes round, or returns.
Conclude(r) ==
    /\ pc[r] = "released"
    /\ IF retriesOnNextLink(r)
       THEN WaitForLink({r})
       ELSE IF result[r] = "unwritten"
       THEN Refuse({r})
       ELSE pc' = [pc EXCEPT ![r] = "done"] /\ UNCHANGED result
    /\ UNCHANGED <<link, destroyed, signals, written, window, drain, late>>

-----------------------------------------------------------------------------
(* What settles a request that waits.                                      *)

Settle(r, how) ==
    /\ pc' = [pc EXCEPT ![r] = "finished"]
    /\ result' = [result EXCEPT ![r] = how]

\* A response PDU, or one the codec refuses, names the request (deliver, settleRefused).
Answered(r) ==
    /\ Quiet /\ pc[r] = "wire" /\ ~destroyed
    /\ \E how \in {"answered", "unanswered"} : Settle(r, how)
    /\ UNCHANGED <<link, destroyed, signals, written, window, drain, late>>

ResponseTimeout(r) ==
    /\ Quiet /\ BudgetEnds /\ pc[r] = "wire"
    /\ Settle(r, "unanswered")
    /\ UNCHANGED <<link, destroyed, signals, written, window, drain, late>>

\* The deadline hold() set when the request was issued.  It is looked at where
\* the request waits for a link, now or the next time it does.
BudgetRunsOut(r) ==
    /\ Quiet /\ BudgetEnds /\ ~spent[r]
    /\ pc[r] \in {"holding", "queued", "wire"}
    /\ spent' = [spent EXCEPT ![r] = TRUE]
    /\ IF pc[r] = "holding" THEN Refuse({r}) ELSE UNCHANGED <<pc, result>>
    /\ UNCHANGED <<link, destroyed, aborted, written, window, drain, late>>

\* controller.abort(): whichever wait the request is in hears of it.  Several requests may
\* share a signal: its listeners run one after another.
Abort(r) ==
    /\ ~aborted[r] /\ pc[r] # "done"
    /\ aborted' = [aborted EXCEPT ![r] = TRUE]
    /\ \/ pc[r] = "holding" /\ Refuse({r}) /\ UNCHANGED window
       \/ /\ pc[r] = "queued" /\ Refuse({r})
          /\ queue' = Leave(queue, r) /\ UNCHANGED inFlight
       \/ pc[r] = "wire" /\ Settle(r, "unanswered") /\ UNCHANGED window
       \/ pc[r] \notin {"holding", "queued", "wire"} /\ UNCHANGED <<pc, result, window>>
    /\ UNCHANGED <<link, destroyed, spent, written, drain, late>>

-----------------------------------------------------------------------------
(* The link under the requests, and the drain.                             *)

\* linkLost(): the pending settle, and with `over` the waiters of the link do too.
LinkLost(over) ==
    /\ pc' = [r \in Requests |-> CASE pc[r] = "wire" -> "finished"
                                   [] pc[r] = "holding" /\ over -> "done"
                                   [] OTHER -> pc[r]]
    /\ result' = [r \in Requests |-> CASE pc[r] = "wire" -> "unanswered"
                                       [] pc[r] = "holding" /\ over -> "unsent"
                                       [] OTHER -> result[r]]

\* Session.end(): the drop and the end of the link in one turn.
Ends ==
    /\ link' = end(drop(link))
    /\ destroyed' = TRUE
    /\ LinkLost(TRUE)
    /\ UNCHANGED <<signals, written, window, late>>

\* The socket is gone and its `close` event is still to come.
SocketDies ==
    /\ isAttached(link) /\ ~destroyed
    /\ destroyed' = TRUE
    /\ UNCHANGED <<link, pc, result, signals, written, window, drain, late>>

\* Session.teardown(), on a `close` or `error` event, an idle link or an unreadable stream.
LinkDrops ==
    /\ Quiet /\ isAttached(link)
    /\ IF retrying(link)
       THEN /\ link' = drop(link)
            /\ destroyed' = TRUE
            /\ LinkLost(FALSE)
            /\ UNCHANGED <<signals, written, window, late>>
       ELSE Ends
    /\ UNCHANGED drain

LinkAttaches ==
    /\ Quiet /\ link.phase = "down" /\ retrying(link) /\ link.drops <= MaxLinks
    /\ link' = attach(link)
    /\ destroyed' = FALSE
    /\ UNCHANGED <<pc, result, signals, written, window, drain, late>>

\* The bind was answered: everything held goes out on the new link.
LinkOpens ==
    /\ Quiet /\ link.phase = "binding" /\ retrying(link) /\ ~destroyed
    /\ link' = open(link)
    /\ pc' = [r \in Requests |-> IF pc[r] = "holding" THEN "linked" ELSE pc[r]]
    /\ UNCHANGED <<destroyed, result, signals, written, window, drain, late>>

\* The peer unbinds, or a second close() comes with an aborted signal.
LinkEnds ==
    /\ Quiet /\ ~isOver(link)
    /\ Ends
    /\ UNCHANGED drain

\* close(): stop(), and with nothing to carry a request nothing to wait out.
Close ==
    /\ drain.at = "idle"
    /\ IF canCarry
       THEN /\ link' = stop(link)
            /\ drain' = [drain EXCEPT !.at = "messages"]
            /\ UNCHANGED <<destroyed, pc, result, signals, written, window, late>>
       ELSE /\ Ends
            /\ drain' = [drain EXCEPT !.at = "over", !.found = "clean"]

\* The wait for the messages ends, answered or not.  It is longer than the one
\* microtask in which a request already admitted takes its slot or its place.
DrainMessages ==
    /\ drain.at = "messages" /\ In({"linked"}) = {}
    /\ \E held \in BOOLEAN :
        drain' = [drain EXCEPT !.at = IF unfinished = 0 THEN "checking" ELSE "requests",
                               !.held = held]
    /\ UNCHANGED <<link, destroyed, pc, result, signals, written, window, late>>

\* shutdownTimeout, or the signal given to close().
DrainCut ==
    /\ Quiet /\ drain.at = "requests"
    /\ drain' = [drain EXCEPT !.at = "checking", !.left = unfinished]
    /\ UNCHANGED <<link, destroyed, pc, result, signals, written, window, late>>

\* A link that went before the drain was through makes an empty window say nothing.
DrainChecks ==
    /\ drain.at = "checking"
    /\ drain' = [drain EXCEPT !.at = "over",
                              !.found = IF canCarry /\ ~drain.held /\ drain.left = 0
                                        THEN "clean" ELSE "err"]
    /\ Ends

-----------------------------------------------------------------------------
Continue(r) == Acquire(r) \/ Attempt(r) \/ Release(r) \/ Conclude(r)

Next ==
    \/ \E rs \in Calls : Issue(rs)
    \/ \E r \in Requests :
        \/ Acquire(r) \/ Attempt(r) \/ Release(r) \/ Conclude(r)
        \/ Answered(r) \/ ResponseTimeout(r) \/ BudgetRunsOut(r) \/ Abort(r)
    \/ SocketDies \/ LinkDrops \/ LinkAttaches \/ LinkOpens \/ LinkEnds
    \/ Close \/ DrainMessages \/ DrainCut \/ DrainChecks

Spec == Init /\ [][Next]_vars

\* The engine runs every microtask, and a timer that is armed fires.  Nothing
\* is owed by the peer, the application or the link.
Fairness ==
    /\ \A r \in Requests :
        WF_vars(Continue(r)) /\ WF_vars(ResponseTimeout(r)) /\ WF_vars(BudgetRunsOut(r))
    /\ WF_vars(DrainMessages) /\ WF_vars(DrainChecks)

FairSpec == Spec /\ Fairness

-----------------------------------------------------------------------------
(* Properties                                                              *)

TypeOK ==
    /\ link \in Links /\ destroyed \in BOOLEAN
    /\ pc \in [Requests -> Places] /\ result \in [Requests -> Results]
    /\ aborted \in [Requests -> BOOLEAN] /\ spent \in [Requests -> BOOLEAN]
    /\ written \in [Requests -> Nat]
    /\ inFlight \in 0 .. Limit /\ queue \in Seq(Requests)
    /\ drain \in Drains /\ late \subseteq Requests

\* The window's count is the number of requests that hold a slot, never above
\* maxOutstanding: no abort, failed write or lost link leaks a slot or returns one
\* twice, which in time would stop the session or flood the peer (send-window.ts).
SlotsAccounted == inFlight = Cardinality(Holders) /\ inFlight <= Limit

\* A request waits for a slot only while all of them are taken, or nothing would
\* ever call release() for it (send-window.ts acquire, release).
QueuedOnlyBehindAFullWindow == In({"queued"}) # {} => inFlight = Limit

\* The waiters in the queue are the requests that wait there, each once: an abort that
\* races the hand-over of a slot can not leave a slot with a caller that has gone.
QueueIsTheQueued ==
    /\ \A i, j \in 1 .. Len(queue) : queue[i] = queue[j] => i = j
    /\ {queue[i] : i \in 1 .. Len(queue)} = In({"queued"})

\* A drain that reports a clean shutdown leaves no request behind in the window
\* or on the wire: each was answered, timed out or stopped by its caller, while
\* the link it was on still carried it (session.ts drain).
CleanDrainOwesNothing ==
    drain.at = "checking" /\ canCarry /\ ~drain.held /\ drain.left = 0
        => In({"linked", "queued", "slotted", "wire", "finished"}) = {}

\* How far a request is for its caller.
progressOf(r) ==
    CASE pc[r] = "unissued" -> "unasked"
      [] pc[r] = "done" /\ result[r] = "unsent" /\ written[r] = 0 -> "unsent"
      [] pc[r] \notin {"unissued", "done"} /\ written[r] = 0 ->
            IF r \in late \ Receipts THEN "barred" ELSE "asked"
      [] written[r] = 1 /\ result[r] = "none" -> "sent"
      [] written[r] = 1 /\ result[r] \in {"answered", "unanswered"} -> result[r]
      [] OTHER -> "broken"

Contract == INSTANCE SendContract WITH
    progress <- [r \in Requests |-> progressOf(r)],
    stopped <- link.stopped

\* Each caller is kept its promise (README.md, Sends and the link): a request goes out at
\* most once over all the links it waits for, "unsent" is said of those that never did and
\* of no other, and a request made after close() never reaches the wire, whether the link
\* was up, dead under an `up` link, or binding (outgoing-requests.ts, link-life.ts refusal).
KeepsContract == Contract!Spec

\* "resolving to an `err` that says what was lost" (README.md, Shutdown): a close()
\* that tears a request off the wire does not report a clean shutdown.
CloseReportsWhatItLost ==
    [][drain.found = "none" /\ drain'.found = "clean" => In({"wire"}) = {}]_vars
=============================================================================
