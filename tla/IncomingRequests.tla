--------------------------- MODULE IncomingRequests ---------------------------
(***************************************************************************)
(* What the peer asks of a session: IncomingRequests                       *)
(* (incoming-requests.ts) from the read that carries a request to its      *)
(* answer, and the messages the application holds meanwhile                *)
(* (held-messages.ts), whose drain close() waits for.                      *)
(*                                                                         *)
(* The requests of one read are handed over in one loop, each up to its    *)
(* first await.  "hooked" waits for the application's onRequest; "gated"   *)
(* and "collected" are microtasks, run before the next event.  Reassembly  *)
(* is its own module: here a segmented message is the segment that makes   *)
(* it whole.                                                               *)
(***************************************************************************)
EXTENDS LinkLife, Integers, FiniteSets

CONSTANTS
    Messages,       \* the requests the peer makes
    MayBe,          \* MayBe[m]: what each one may turn out to be
    SeqNr,          \* SeqNr[m]: the sequence number it carries, which a peer may use again
    None,           \* no message
    MaxHeld,        \* defaults.maxHeldMessages
    Listeners,      \* how many listen for `sms`
    Hooked,         \* the session has an onRequest
    ReadSize,       \* bound: how many requests one read carries
    MaxLinks        \* bound: how many links follow the first

Kinds == {"message", "segmented", "uncarried", "plain", "unbind"}

ASSUME MessagesAssumption ==
    /\ IsFiniteSet(Messages) /\ None \notin Messages
    /\ \A m \in Messages : MayBe[m] \subseteq Kinds
ASSUME HeldAssumption == MaxHeld \in Nat \ {0} /\ Listeners \in Nat
ASSUME HookAssumption == Hooked \in BOOLEAN
ASSUME BoundsAssumption == ReadSize \in Nat \ {0} /\ MaxLinks \in Nat

VARIABLES
    link,       \* LinkLife's state
    destroyed,  \* the socket is gone, its `close` event may be to come
    kind,       \* what each request is
    stage,      \* how far each request has come
    arrived,    \* the generation of the link it arrived on
    answeredOn, \* the generation of the link the session's answer, or sendResp()'s, was written to, or -1
    hookedOn,   \* the same of the answer the application's onRequest gives itself
    held,       \* HeldMessages.held: the message held for each sequence number
    working,    \* MessageHold.working: the listeners still at it
    releasing,  \* the messages with a setImmediate() that releases them
    excused,    \* history: the offered messages a drain need not wait for, whatever their listeners do
    drain       \* the wait of close()

vars == <<link, destroyed, kind, stage, arrived, answeredOn, hookedOn,
          held, working, releasing, excused, drain>>
holding == <<held, working, releasing, excused>>

SeqNrs == {SeqNr[m] : m \in Messages}
HeldMessages == {held[k] : k \in SeqNrs} \ {None}

Init ==
    /\ link = FirstLink /\ destroyed = FALSE
    /\ kind \in [Messages -> Kinds] /\ \A m \in Messages : kind[m] \in MayBe[m]
    /\ stage = [m \in Messages |-> "peer"]
    /\ arrived = [m \in Messages |-> 0]
    /\ answeredOn = [m \in Messages |-> -1]
    /\ hookedOn = [m \in Messages |-> -1]
    /\ held = [k \in SeqNrs |-> None]
    /\ working = [m \in Messages |-> Listeners]
    /\ releasing = {} /\ excused = {}
    /\ drain = "idle"

-----------------------------------------------------------------------------
full == Cardinality(HeldMessages) >= MaxHeld

isHeld(m) == held[SeqNr[m]] = m

\* Mutant: nobody asks which link the request came on.
lostLinkNever(m) == FALSE

lostLink(m) == link.drops # arrived[m]

\* Whether a write reaches a socket, and the answers written if it does.
CanWrite == isAttached(link) /\ ~destroyed
Answer(ms) ==
    answeredOn' = [m \in Messages |-> IF m \in ms /\ CanWrite THEN link.drops ELSE answeredOn[m]]

Quiet == \A m \in Messages : stage[m] \notin {"gated", "collected", "unbinding"}

\* Mutant: only a clear() wakes the drain.
WakeOnClearOnly(now) == UNCHANGED drain

\* HeldMessages.settle(): an empty map wakes the drain that waits on it.
Wake(now) ==
    drain' = IF drain = "waiting" /\ \A k \in SeqNrs : now[k] = None
             THEN "over"
             ELSE drain

\* Let go of some messages, whoever asked for it.
LetGo(ms) ==
    LET now == [k \in SeqNrs |-> IF held[k] \in ms THEN None ELSE held[k]]
    IN  held' = now /\ Wake(now)

-----------------------------------------------------------------------------
(* The peer's requests.                                                    *)

\* handle() past its hook, and route(): what carries a message goes on to the
\* bound, an unbind to its answer, and the rest is answered with its status.
Route(ms, garbled) ==
    LET messages == {m \in ms \ garbled : kind[m] \in {"message", "segmented"} /\ ~full}
        unbinds == {m \in ms \ garbled : kind[m] = "unbind"}
    IN  /\ stage' = [m \in Messages |-> CASE m \in messages -> "gated"
                                          [] m \in unbinds -> "unbinding"
                                          [] m \in ms \ (messages \cup unbinds) -> "handled"
                                          [] OTHER -> stage[m]]
        /\ Answer(ms \ messages)

\* handle() up to its hook.
Hook(ms, garbled) ==
    /\ stage' = [m \in Messages |-> CASE m \in garbled -> "handled"
                                      [] m \in ms \ garbled -> "hooked"
                                      [] OTHER -> stage[m]]
    /\ Answer(garbled)

\* One read of the socket: every request it completes starts before any goes on.
\* Those the codec refuses, `garbled`, the session answers itself, with no hook.
Read ==
    /\ Quiet /\ isAttached(link) /\ ~destroyed
    /\ \E ms \in SUBSET {m \in Messages : stage[m] = "peer"} : \E garbled \in SUBSET ms :
        /\ Cardinality(ms) \in 1 .. ReadSize
        /\ arrived' = [m \in Messages |-> IF m \in ms THEN link.drops ELSE arrived[m]]
        /\ IF Hooked THEN Hook(ms, garbled) ELSE Route(ms, garbled)
    /\ UNCHANGED <<link, destroyed, kind, hookedOn, holding, drain>>

\* onRequest answers with sendReturn(), on whatever socket there is by then, and keeps
\* the request from the session with true: nothing but the write is seen of it.
HookAnswers(m) ==
    /\ stage[m] = "hooked" /\ CanWrite
    /\ stage' = [stage EXCEPT ![m] = "handled"]
    /\ hookedOn' = [hookedOn EXCEPT ![m] = link.drops]
    /\ UNCHANGED <<link, destroyed, kind, arrived, answeredOn, holding, drain>>

\* onRequest resolves: it keeps the request and wrote nothing, or the link the request
\* came on has gone meanwhile, or the session routes it.
HookResolves(m) ==
    /\ stage[m] = "hooked"
    /\ \/ /\ stage' = [stage EXCEPT ![m] = "handled"]
          /\ UNCHANGED answeredOn
       \/ ~lostLink(m) /\ Route({m}, {})
    /\ UNCHANGED <<link, destroyed, kind, arrived, hookedOn, holding, drain>>

\* HeldMessages.offer(): the message is held, in the place of one that came on the
\* same sequence number, and let go at once if no listener takes it or one throws.
Offer(m) ==
    LET before == held[SeqNr[m]]
        now == [held EXCEPT ![SeqNr[m]] = m]
    IN  /\ stage' = [stage EXCEPT ![m] = "offered"]
        /\ \/ /\ Listeners > 0
              /\ held' = now
              /\ excused' = excused \cup ({before} \ {None})
              /\ UNCHANGED drain
           \/ LET none == [now EXCEPT ![SeqNr[m]] = None]
              IN  /\ held' = none /\ Wake(none)
                  /\ excused' = excused \cup ({before, m} \ {None})
        /\ UNCHANGED <<working, releasing>>

\* onMessage() after the await of refusedAtBound(), whose answer is not asked again.
OnMessage(m) ==
    /\ stage[m] = "gated"
    /\ \/ /\ kind[m] = "message"
          /\ Offer(m)
          /\ UNCHANGED answeredOn
       \/ /\ kind[m] = "segmented"
          /\ stage' = [stage EXCEPT ![m] = "collected"]
          /\ Answer({m})
          /\ UNCHANGED <<holding, drain>>
    /\ UNCHANGED <<link, destroyed, kind, arrived, hookedOn>>

\* The segment was answered, and the message it completed is offered.
OnWhole(m) ==
    /\ stage[m] = "collected"
    /\ Offer(m)
    /\ UNCHANGED <<link, destroyed, kind, arrived, answeredOn, hookedOn>>

-----------------------------------------------------------------------------
(* The application, and the end of a hold.                                 *)

\* sendResp(): on the link the message came on, and answered only if it was written.
\* A message whose segments were answered has nothing to write and only says so.
SendResp(m) ==
    /\ stage[m] = "offered" /\ m \notin releasing
    /\ \/ /\ kind[m] = "message" /\ ~lostLink(m) /\ CanWrite
          /\ Answer({m})
       \/ kind[m] = "segmented" /\ UNCHANGED answeredOn
    /\ releasing' = releasing \cup {m} /\ excused' = excused \cup {m}
    /\ UNCHANGED <<link, destroyed, kind, stage, arrived, hookedOn, held, working, drain>>

\* Mutant: a listener may give up more than once.
ListenerRejectsAgain(m) ==
    /\ stage[m] = "offered"
    /\ working' = [working EXCEPT ![m] = @ - 1]
    /\ releasing' = IF working[m] <= 1 THEN releasing \cup {m} ELSE releasing
    /\ UNCHANGED <<link, destroyed, kind, stage, arrived, answeredOn, hookedOn, held, excused, drain>>

\* Mutant: the first listener to fail gives up for the others.
ListenerRejectsForAll(m) ==
    /\ stage[m] = "offered" /\ working[m] > 0
    /\ working' = [working EXCEPT ![m] = @ - 1]
    /\ releasing' = releasing \cup {m}
    /\ UNCHANGED <<link, destroyed, kind, stage, arrived, answeredOn, hookedOn, held, excused, drain>>

\* Mutant: one listener is taken to be at it still.
ListenerRejectsNotLast(m) ==
    /\ stage[m] = "offered" /\ working[m] > 0
    /\ working' = [working EXCEPT ![m] = @ - 1]
    /\ UNCHANGED <<link, destroyed, kind, stage, arrived, answeredOn, hookedOn, held, releasing, excused, drain>>

\* One listener rejects; the last of them gives the message up.
ListenerRejects(m) ==
    /\ stage[m] = "offered" /\ working[m] > 0
    /\ working' = [working EXCEPT ![m] = @ - 1]
    /\ releasing' = IF working[m] = 1 THEN releasing \cup {m} ELSE releasing
    /\ UNCHANGED <<link, destroyed, kind, stage, arrived, answeredOn, hookedOn, held, excused, drain>>

\* Mutant: whatever is held on its sequence number by then is released.
ReleaseTurnByNumber(m) ==
    /\ Quiet /\ m \in releasing
    /\ releasing' = releasing \ {m}
    /\ LET now == [held EXCEPT ![SeqNr[m]] = None]
       IN  held' = now /\ Wake(now)
    /\ UNCHANGED <<link, destroyed, kind, stage, arrived, answeredOn, hookedOn, working, excused>>

\* The setImmediate() of answered().  It may come after the link, or after a later
\* message took the sequence number, and then has nothing to release.
ReleaseTurn(m) ==
    /\ Quiet /\ m \in releasing
    /\ releasing' = releasing \ {m}
    /\ IF isHeld(m) THEN LetGo({m}) ELSE UNCHANGED <<held, drain>>
    /\ UNCHANGED <<link, destroyed, kind, stage, arrived, answeredOn, hookedOn, working, excused>>

\* sweep(): five minutes without an answer.
Expires(m) ==
    /\ Quiet /\ isHeld(m)
    /\ LetGo({m}) /\ excused' = excused \cup {m}
    /\ UNCHANGED <<link, destroyed, kind, stage, arrived, answeredOn, hookedOn, working, releasing>>

-----------------------------------------------------------------------------
(* The link and the drain.                                                 *)

\* clear(): no answer to what is held correlates any more, and every waiter is woken.
Clear ==
    /\ held' = [k \in SeqNrs |-> None]
    /\ excused' = excused \cup HeldMessages
    /\ drain' = IF drain = "waiting" THEN "over" ELSE drain

SocketDies ==
    /\ isAttached(link) /\ ~destroyed
    /\ destroyed' = TRUE
    /\ UNCHANGED <<link, kind, stage, arrived, answeredOn, hookedOn, holding, drain>>

LinkDrops ==
    /\ Quiet /\ isAttached(link)
    /\ link' = IF retrying(link) THEN drop(link) ELSE end(drop(link))
    /\ destroyed' = TRUE
    /\ Clear
    /\ UNCHANGED <<kind, stage, arrived, answeredOn, hookedOn, working, releasing>>

LinkReturns ==
    /\ Quiet /\ link.phase = "down" /\ retrying(link) /\ link.drops <= MaxLinks
    /\ link' = open(attach(link))
    /\ destroyed' = FALSE
    /\ UNCHANGED <<kind, stage, arrived, answeredOn, hookedOn, holding, drain>>

\* close(): messages the application has not answered are waited for, if any.
Close ==
    /\ drain = "idle" /\ isUp(link) /\ ~destroyed
    /\ link' = stop(link)
    /\ drain' = IF HeldMessages = {} THEN "over"
                                     ELSE "waiting"
    /\ UNCHANGED <<destroyed, kind, stage, arrived, answeredOn, hookedOn, holding>>

\* Its time is up, or its signal aborts: whatever is left is what it found.
DrainCut ==
    /\ drain = "waiting"
    /\ drain' = "over"
    /\ UNCHANGED <<link, destroyed, kind, stage, arrived, answeredOn, hookedOn, holding>>

\* end(), once the drain is over, or in the turn that answered a peer's unbind.
Ends ==
    /\ \/ Quiet /\ drain = "over" /\ ~isOver(link)
       \/ \E m \in Messages : stage[m] = "unbinding"
    /\ link' = end(drop(link))
    /\ destroyed' = TRUE
    /\ stage' = [m \in Messages |-> IF stage[m] = "unbinding" THEN "handled" ELSE stage[m]]
    /\ Clear
    /\ UNCHANGED <<kind, arrived, answeredOn, hookedOn, working, releasing>>

-----------------------------------------------------------------------------
Next ==
    \/ Read
    \/ \E m \in Messages :
        \/ HookAnswers(m) \/ HookResolves(m) \/ OnMessage(m) \/ OnWhole(m)
        \/ SendResp(m) \/ ListenerRejects(m) \/ ReleaseTurn(m) \/ Expires(m)
    \/ SocketDies \/ LinkDrops \/ LinkReturns
    \/ Close \/ DrainCut \/ Ends

Spec == Init /\ [][Next]_vars

\* The engine runs microtasks and immediates, and Node reports the close of a dead
\* socket; each listener at work on a message answers it or fails, and owes no more once
\* all of them have failed.
Fairness ==
    /\ \A m \in Messages :
        /\ WF_vars(OnMessage(m) \/ OnWhole(m)) /\ WF_vars(ReleaseTurn(m))
        /\ WF_vars(working[m] > 0 /\ (SendResp(m) \/ ListenerRejects(m)))
    /\ WF_vars(Ends) /\ WF_vars(destroyed /\ LinkDrops)

FairSpec == Spec /\ Fairness

-----------------------------------------------------------------------------
(* Properties                                                              *)

TypeOK ==
    /\ link \in Links /\ destroyed \in BOOLEAN /\ kind \in [Messages -> Kinds]
    /\ stage \in [Messages -> {"peer", "hooked", "gated", "collected", "unbinding",
                               "offered", "handled"}]
    /\ arrived \in [Messages -> Nat]
    /\ answeredOn \in [Messages -> Nat \cup {-1}] /\ hookedOn \in [Messages -> Nat \cup {-1}]
    /\ held \in [SeqNrs -> Messages \cup {None}]
    /\ working \in [Messages -> 0 .. Listeners]
    /\ releasing \subseteq Messages /\ excused \subseteq Messages
    /\ drain \in {"idle", "waiting", "over"}

\* What the session answers by itself, and what sendResp() answers, goes out on the link
\* the request came on or not at all, however long the hook and the application take: on
\* another link the sequence number is another request's (incoming-requests.ts handle,
\* sms.ts sendResp).  An answer the hook writes itself is HookAnswersOnItsLink's.
AnsweredOnItsLink ==
    \A m \in Messages : answeredOn[m] \in {-1, arrived[m]}

\* "An answer belongs to the link the message arrived on [...].  Rejected: answering on
\* the new link" (docs/decisions.md), of the answers that a hook gives with sendReturn().
HookAnswersOnItsLink ==
    \A m \in Messages : hookedOn[m] \in {-1, arrived[m]}

\* A drain waits for a message as long as one of its listeners is at work on it and none
\* has answered, unless it expires, its link goes or its sequence number comes again:
\* neither a listener that fails beside others nor the release of another message lets it
\* go (held-messages.ts listenerGaveUp, release).
EveryOwedMessageIsHeld ==
    \A m \in Messages : stage[m] = "offered" /\ m \notin excused /\ working[m] > 0 => isHeld(m)

\* No wake-up is missed: close() never waits on a map that is already empty
\* (held-messages.ts settle, idle-waiters.ts wait).
NoDrainWaitsOnNothing == drain = "waiting" => HeldMessages # {}

\* "While a session holds 1000 messages you have not called sendResp() on, every new
\* message and segment is refused" (README.md, Bounds).
HeldIsBounded == Cardinality(HeldMessages) <= MaxHeld

\* A drain the application does its part for ends without its timeout, however its
\* listeners fail and whatever the peer still sends.
DrainEnds == (drain = "waiting") ~> (drain = "over")
=============================================================================
