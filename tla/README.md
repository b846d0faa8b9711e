# smpp-js, modelled and checked

This directory holds a formal model of [smpp-js](../src/README.md), a TypeScript implementation of
SMPP 3.4: TLA+ modules translated from `src/src/*.ts`, TLC configurations that check them on small
instances, and proofs that TLAPS checks for every instance. `PROJECT.json` lists the parts, the runs,
the mutants that show each property can fail, the source lines every definition stands for, the
hazards the properties are aimed at, and the findings.

## The system

A program holds **sessions**, one per SMPP link, made by an `SmppClient` that connects or an
`SmppServer` that accepts. A session is an event emitter around a socket. Everything runs on one
JavaScript thread: what is concurrent is the order of socket events, timers, promise continuations and
application calls, and every `await` is a place where any of them may come first.

| Part | State it keeps | Operations | Talks to |
| --- | --- | --- | --- |
| Link life (`link-life.ts`) | phase `binding / up / down / ended`, stopped, number of drops, requests waiting for a link | attach, open, drop, stop, end, hold | called by the session; wakes requests |
| Reconnect loop (`reconnect-loop.ts`) | timer, attempting, halted, delay | schedule, stop, run | calls `connect` and the session's `comeBackUp` |
| Transport (`pdu-transport.ts`, `pdu-framer.ts`) | the socket, the octets of an unfinished PDU | attach, write, read | hands PDUs and socket events to the session |
| Timers (`link-timers.ts`) | the timers of the enquire_link and of a silent link | reset, clear | started over by every chunk the transport reads; tear the link down |
| Session (`session.ts`) | the bind, the parts below | close, unbind, drain, end, teardown, onClose, comeBackUp | everything |
| Outgoing requests (`outgoing-requests.ts`, `send-window.ts`, `pending-requests.ts`) | slots in flight, queue for a slot, requests awaiting a response, sequence number | request, acquire, release, attempt, deliver, linkLost, drain | link life, transport |
| Incoming requests (`incoming-requests.ts`, `held-messages.ts`, `sms.ts`) | messages the application has not answered | handle, route, onMessage, offer, sendResp, release, sweep, drain | application listeners and hooks |
| Reassembly (`reassembly.ts`, `expiring-groups.ts`) | groups of segments with deadlines and weights | collect, sweep, clear, eviction at its bounds | incoming requests |
| Receipt merging (`dlr-merger.ts`) | merges awaiting the receipts of their parts | expect, collect, sweep, clear | `sendSms`, incoming receipts |
| Client (`client.ts`) | first connect and its attempts | client, bindOn, keepTrying | session, reconnect loop |
| Server (`server.ts`) | sessions, per-session bind | onConnection, authenticate, onBind, close | session, application hooks |
| Sending (`send-sms.ts`, `sms.ts`) | none of its own: it awaits all the segments of a message | submitSms, sendDlr | outgoing requests, one per segment |
| Codec (`pdu.ts`, `message.ts`, `defs/`), helpers | none | pure functions | |

What makes it hard, and what makes each part correct:

- **Session and link.** A socket can die, error, go idle or be unbound at any time, during a connect, a
  bind, a drain or a listener. Correct means: `disconnected`, `reconnected` and one last `close` as the
  README's events table has them; a retry is never lost and never runs over a live socket; a session
  told to end ends and keeps nothing open.
- **Outgoing requests.** A request waits for a link, for a slot and for an answer, and each wait can end
  by timeout, abort or the link. Correct means: no slot leaks, no waiter is stranded, nothing that may
  have reached the peer is sent twice, the outcome says whether it did, and a drain that reports a clean
  shutdown left nothing behind.
- **Incoming requests.** An application hook is awaited while the link may go; messages are held until
  answered and close() waits for them. Correct means: an answer goes out on the link its request came
  on, what is owed is held until its last listener is done with it, the bound is a bound, and the drain's
  wait always ends.
- **Sending.** Some segments of a message are answered, some refused, some lost with their link. Correct
  means: every send resolves, and its caller is told of all that the peer took or may have taken.
- **Transport and timers.** A read ends anywhere in a PDU and a socket dies anywhere in one; timers are
  started over, cleared and left to fire around the loss of the link they watch. Correct means: what the
  peer wrote on a socket is handed over once, in order, and nothing of an earlier one; a timer fires for the link it was armed
  on; a silent peer is dropped.
- **Reassembly, receipt merging.** Bounded stores with eviction: what was acknowledged is delivered or
  reported as lost, with the right count ; a merged report is told once its segments are reported, and
  once only.
- **Client, server.** A first connect that fails or is aborted at any of its awaits leaves nothing
  behind; the session handed over is one the server bound; a server's `close()` ends every session it
  had and resolves when no connection is left, those in a handshake when it was called included.

## Modules

| Module | Models | Kind |
| --- | --- | --- |
| `LinkLife` | `link-life.ts`, as operators on a link record | operators, shared by the specifications of session and requests |
| `SessionContract` | what the events table of the README promises | abstract specification |
| `SessionMethods` | the session's private methods (`stop`, `teardown`, `end`, `emitClose`, `onClose`), as operators on a session record | operators, shared by `SessionLife`, `Client` and `Server` |
| `SessionLife` | session, reconnect loop and socket: how links are lost, replaced and ended | specification; implements `SessionContract` |
| `SendContract` | what the README promises the caller of `send()`, request by request | abstract specification |
| `OutgoingRequests` | requests, window, waits and the drain for them | specification; implements `SendContract` |
| `Sending` | a message or its receipts in several segments, and what the peer makes of each | specification, extends `OutgoingRequests` |
| `IncomingRequests` | the peer's requests, held messages and the drain for them | specification |
| `PduFramer` | `pdu-framer.ts`, as operators on the chunks it keeps | operators |
| `Transport` | the stream over its sockets, the timers, and the link under both | specification |
| `ExpiringGroups` | `expiring-groups.ts`, as operators on a store | operators, shared by the two below |
| `Reassembly` | `reassembly.ts`: the segments of incomplete messages | specification |
| `ReceiptMerging` | `dlr-merger.ts` and the send that registers with it | specification |
| `Client` | one call of `client()`: first connect, bind, `keepTrying()`, abort | component of `Handshake` |
| `Server` | `SmppServer`: connections, binds, `close()` | component of `Handshake` |
| `Handshake` | the two with the wire between them, and peers that bind as they please | specification, composes `Client` and `Server` |
| `SessionLifeProofs`, `OutgoingRequestsProofs`, `IncomingRequestsProofs`, `TransportProofs`, `ReassemblyProofs`, `ReceiptMergingProofs`, `HandshakeProofs` | lemmas and theorems about the module each is named after; those about `Sending` are in `OutgoingRequestsProofs`, those about the operators of `ExpiringGroups` in `ReassemblyProofs`, from which `ReceiptMergingProofs` instantiates them | proofs |
| `SessionMethodsProofs` | what each method keeps of a session, with and without a reconnect loop: cited by `SessionLifeProofs` and, once for the client and once for the server, by `HandshakeProofs` | proofs |
| `MC*` | finite instances for TLC, where a `.cfg` cannot write the value of a constant | model checking |

### SessionLife

The variable `session` is one record of what the objects hold: `link` (LinkLife), `sock` (`open`;
`destroyed`, its `close` event still to come; `closed`), `timer` and `halted` and `attempt` (the
ReconnectLoop, and where `run()` is: awaiting `connect`, the `bind`, or what an `onConnected` awaits
`after` it) and how often each event was `heard`. Every method is an operator from the session before
to the session after, named as in the code (`Stop`, `Teardown`, `End`, `OnClose`, `Schedule`,
`EmitClose`, in `SessionMethods`; `ComeBackUp` here), and every event is an action composed of them:
`SocketDies`, `SocketError`, `SocketClosed`, `LinkGivenUp` (idle timer, unreadable stream), `PeerUnbinds`, `RetryTimer`,
`ConnectFails`, `ConnectOpens`, `BindAnswered`, `OnConnectedResolves`, `BindFails`, and the turns of
`close()` and `unbind()`: `Call`, `DrainOver`, `UnbindSettles`. A listener of `disconnected`, or one
reached from the incoming requests' `clear()`, may call `close()` inside the turn (`closes`).

`awaits`, chosen at the start, tells apart SmppClient's own `onConnected`, which returns with its bind's
answer, from one an application gives to a Session it builds itself, which may await more. Delays and backoff are
left out: a timer that is armed fires at any time. What a drain waits for is left to the two modules
below: here it ends at some time of its own.

### OutgoingRequests, SendContract

Each request is a coroutine and `pc` says at which await it is: `holding` for a link, `queued` for a
slot, on the `wire`, or in the microtask queue (`linked`, `slotted`, `finished`, `released`). Microtasks
run before the next event (`Quiet`), in any order, with application code between them. `inFlight` and
`queue` are the window's. The link changes as SessionLife has it change under SmppClient's
`onConnected`. `drain` is the one `close()`; `written` counts how often a request was put on a socket.
`late` is a history variable. `Calls` groups the requests one call of the application issues in one
turn: the segments of a message, the receipts for one, or a request of its own.

`SendContract` knows of a request only what its caller can: it was asked, or asked of a stopped session
(`barred`), went out once or never will, and what it came to says which. A turn moves any number of
requests, since a lost link settles all it carried. `OutgoingRequests` implements it under a refinement
mapping that reads a request's progress off its place, its outcome and `written`.

### Sending

Extends `OutgoingRequests` with `peer`: what the peer made of each segment, which it may read after the
link or the caller has gone. `accepted`, `unanswered` and `failed` are what the promise over all
segments comes to, and `NothingTakenUntold` compares them with `peer`.

### IncomingRequests

`stage` says how far each request of the peer has come, `held` is the map of HeldMessages keyed by
sequence number (a peer may use a number again), `releasing` the `setImmediate()` calls outstanding,
`drain` the wait of `close()`. `working` counts, as in the code, the listeners still at a message: one may
answer it while another fails, and only the last failure gives it up. `arrived` and `answeredOn` record
link generations: the one a request came on, and the one its answer was written to by the session itself
or by `sendResp()`, both of which the code ties to the first. `hookedOn` is the same for an `onRequest`
that answers by itself (`HookAnswers`): that is `sendReturn()`, which asks for no generation, so it is
kept apart and has a property and a run of its own, `incoming_hooked`. A listener that calls
`sendReturn()` in the place of `sendResp()` writes in the same way and, as the README says, leaves the
drain waiting: to the rest of this module it is a listener that has not answered. `excused` is a history
variable: the messages a drain need not wait for whatever their listeners do (answered, expired, dropped
with their link, replaced, or refused by the listeners at once). The requests of one read are handed over
in one loop, except those the codec refuses (`garbled`), which the session answers itself. The bound on
held messages is modelled as their number; its second half, in octets, is the same test on another sum.

### PduFramer, Transport

Octets are counted in units, `HeaderLength` of them to a header; a unit says which link, PDU and place in
it it comes from, and what the length of the header it may begin reads. So the framer's whole work is
modelled (chunks kept apart, `join`, `restOf`, refusal of a length), and a unit lost, repeated or left
over from another socket is visible. `sent` and `handed` are history: what the peer wrote on the link and
what the session was given of it. `Read` is one chunk of any size, with all it does in its turn: framing,
the `data` listener that may end the session, the timers, the unusable stream, the hand-over. `probe` and
`idle` hold the number of the link the timer was armed on, or 0, so a timer left over from an earlier
link shows.

### ExpiringGroups, Reassembly, ReceiptMerging

A store is a record of its entries in insertion order, the `total` kept step by step as the code keeps
it, and whether the sweeper's interval runs. A deadline is modelled as the time an entry has left, which
`Tick` counts down; a running interval may fire at any time. Operators that take entries out return what
is `left` and what was `taken`, as the code's `take*` methods do. They are told which entries go as a
set, and keep the order of the rest.

`Reassembly` has one action per operation: `Collect` (the whole of `collect()`: the sweep before it, the
refusals, an opened group and the one it pushes out, the octet cap, completion), `Sweep` and `Clear`.
A segment is its key, numbering and octets; the peer chooses all of them, and may send a part again with
other octets. `account` is history: per id, the parts the peer was answered for, the one it was refused if
the group went with it, and what became of them, which is what the properties compare with `onLost`.

`ReceiptMerging` follows the ids of sends. `Resolve` is the end of `sendSms()`, which registers its ids in a
session that has ended too, `Receipt` an incoming receipt, final or intermediate. `finished` is history, the memory of finished bases the code promises,
to compare `spent` with: for each base how long ago it was finished, and which others were since, so
that it drops out after `Timeout`, when there are `MaxGroups` of them, or at the session's end. `reports`
are the `messageDlr` events. An SMSC may report a segment before it has answered the whole send;
`FiresOnceAllReported` counts only the reports that come after: the code drops the earlier ones, see "Seen
while modelling".

### Client, Server, Handshake

`Client` has `call` (where `client()` is awaiting, whether its signal was aborted, what it resolved
with), `loop` (the ReconnectLoop of `keepTrying()`) and `esme`, the session made for each socket it
opened with the state of the `close()` it may have been given: every attempt makes a session, and a
failed one is closed by `bindOn()` without anybody having seen it. Their retries are armed and no more
here: what an armed retry does is `SessionLife`'s.

`Server` has `listening`, `smsc` (per connection: in its handshake, a session, failed; its session; in
`sessions`; bound; how many `authenticate()` are awaited; its `close()`) and `closers`, the calls of
`SmppServer.close()` with the snapshot each took. A connection is accepted first and becomes a session
when its TLS handshake is done; plain TCP is the case where the one follows the other at once.

Neither says what the other end does. `Handshake` conjoins their actions, one turn of one end at a time
or a message between them (`Connects`, `ReadsBind`, `AnswersBind`, `HearsAnswer`), with `wire`, what is
in flight on each connection. Each end hears of the other's hanging up by its own socket's `close`, at
some later time. What a drain waits for is left out: it ends when it likes.

## Runs

| Run | Bounds | Shows |
| --- | --- | --- |
| `session_life` | two `close()`, one `unbind()`, four faults, both kinds of `onConnected`, fair | `SessionContract` is implemented; no lost retry, no leaked socket; a link nobody replaces is followed by `close`; the end comes |
| `session_hand_wired` | one `close()`, one `unbind()`, three faults | finding: the retry can be lost when `onConnected` awaits past its bind |
| `outgoing` | a receipt of its own, a call of two requests one of which is malformed; one slot, two links | the window and its queue, clean drains, and `SendContract` |
| `sending` | one message of two segments, one slot, three links, fair | every send resolves and tells what the peer took |
| `outgoing_lost` | two requests, one slot, two links | finding: a shutdown that loses requests may report none |
| `incoming` | three requests, one a message or an unbind, one a segment that reuses a number; two held at most; two listeners; an awaited `onRequest`; two links; fair | answers, holds, drains |
| `incoming_bound` | three messages, one held at most, two per read | finding: the bound is exceeded within one read |
| `incoming_hooked` | as `incoming`, one listener, one held at most | finding: an `onRequest` that answers by itself may do so on another link |
| `stream` | three PDUs on each of two links, lengths 1 (unframable), 2 and 3 with a header of 2 and a maximum of 3, chunks of any size, fair | PDUs whole and in order, timers of their own link, silent peers dropped |
| `reassembly` | ten segments of four messages, one of them a part that comes again heavier; two groups, three octets, three ids; fair | what was answered is held, handed on or counted as lost; bounds; nothing waits for ever |
| `receipts` | five sends on four bases, one of them handed out again, two bases remembered | whole reports, each once |
| `handshake` | two attempts of one client that retries from the start, one stranger, one server `close()`, two pipelined binds, one fault (a lost link, an abort, a bind unanswered, ...), fair | nothing is left behind at either end; `close()` is complete |

**Why the bounds are enough.** Four faults are more than the longest chain one attempt goes through
(lose the link, lose the attempt's link in mid-bind, lose the next one, and once more while a call is
draining), and the proofs below drop the bound altogether, as they drop those of `outgoing`, `incoming`,
`reassembly`, `receipts` and the timers of `stream`. One slot and three requests give a holder, a waiter and a third that arrives
between a release and its hand-over; what a larger window adds is more of the same independent slots. Two
listeners are the least of which one can answer, or work on, when another has failed. Two
links are needed for a retry, three for a retry of a retry, which is why `sending` has them: its liveness
is about going round. A message of two segments is the least that can be answered in part. In `stream` a
PDU is as short as its header or one unit longer, so a read can end in a header, in a body, at an end, or
hold the end of one PDU, a whole one and the start of a third; a second link is where what the first left
behind would show. In `reassembly` messages of one, two and three parts contend for room for two, so that
a group can be pushed out by count, by octets, by its own arrival and by the clock; three ids let one of
those be followed by a fresh group; a part that alone fills the store can take the place of a lighter one. In `receipts` three mergeable bases contend for a memory of two, and
one of them comes back. In `handshake` the second attempt meets what the first left; a failed connect is
not counted as a fault, so the one fault is an abort or a lost link on top of the failure that made the
first attempt end, and the proofs drop that bound too.

**Fairness.** Only what Node and the library owe is assumed: a destroyed socket reports its `close`, an
armed timer fires, `connect()` settles (`connectTimeout`), a bind and an unbind settle
(`responseTimeout`), a drain ends (`shutdownTimeout`), microtasks run, time passes and a running
interval fires, the idle timer of a link fires, a TLS handshake ends (the `handshakeTimeout` of
Node). `Handshake` states it as one weak fairness of all that is owed: each of those events happens once to
a connection, so none of them can keep another from coming. In `Transport` weak fairness of
the idle timer is justified although every chunk starts it over: `silent` is stable and the PDUs of a link
are bounded, so the chunks run out. The peer, the application and the faults owe nothing, with one exception: `DrainEnds` assumes of every
listener at work on a message that it answers it or fails, since nothing else but the timeout ends that
wait. It owes nothing once all have failed: that the last failure is enough is the code's part.

**Mutants.** Every property has a definition in its module, marked `Mutant`, that changes one operator
the way a plausible bug would; with it, TLC finds the property violated.

## Proofs

Each is for every value of the constants: any number of calls, requests, messages, slots, links and
faults.

`SessionLifeProofs`, with or without a reconnect loop:

- `TypesHold`, `OverIsOver`, `ReplacesDeadSockets`: invariants of `session_life`;
- `DeadIsOver`: `DeadMeansOver`;
- `WakesUp`: `ComesBack`, which is of a session whose `onConnected` returns with its bind's answer. The run
  `session_hand_wired` shows what becomes of another;
- `ContractKept`: `SessionLife` implements `SessionContract`.

The invariants are not inductive. `Good(session)` strengthens them with what ties the loop to the link: a
retry is armed or running only while the link is not up, only over a socket that does not live, and only
with a loop that was not stopped; a link with nothing attached has no living socket; a bind in flight is
on a `binding` link. The last one is broken inside a turn, between the loss of the link and the failure
of the attempt that waits on it, so a method keeps the weaker `Sound` (`SessionMethodsProofs`) and only a
whole turn keeps `Good`. There is a lemma per method, a lemma per handler, and `GoodStep` puts them together. Each
handler's lemma also proves `Tells`, that its turn is one step of the contract or none, and `Buries`, what
it may leave behind a socket that closed.

`OutgoingRequestsProofs`:

- `CallersAreKeptTheirPromise`: `OutgoingRequests` implements `SendContract`;
- `QueueIsExact`, `WindowIsExact`, `NobodyWaitsBesideAFreeSlot`, `CleanMeansNothingOwed`, `TypesHold`: the
  invariants of `outgoing`.

Three invariants, each on top of the one before. `CInv` says what the place of a request tells of its
outcome and of `written`, and that the queue holds those that wait, each once. Its last conjunct is the
one that keeps a stopped session's requests off the wire: `request()` refuses them only while the link
can carry, so one issued late may get as far as a slot, but only over a socket that is dead and that no
other follows. `Counted` adds that `inFlight` is the number of holders, and full while anybody queues.
`Drained` adds what a drain relies on: once the messages are answered and the session told to stop,
nobody new is admitted, so the window it found empty stays empty until it reads the link.

And `NothingIsTakenUntold`, the invariant of `sending`, for sends of any number of segments.
On top of `CInv`, the peer has read only what was written, and an answer comes only of what it has read.

`IncomingRequestsProofs`: `AnswersKeepTheirLink`, `OwedIsHeld`, `NoMissedWakeUp`, `TypesHold`, the invariants
of `incoming`. The first is about what the session and `sendResp()` answer, for any hook and any
application; the same of an answer that the hook gives itself is false and is the finding of
`incoming_hooked`. It needs a strengthening: a request past its hook (`gated`) is still on its own link, or
the session is over, because the microtask runs before the link can change. So does the second: what is
about to be released was answered or otherwise excused, or has no listener at work on it
(`ReleasedWithReason`). That ties the `setImmediate()` to its reason, however many listeners there are.

`TransportProofs`, for any lengths and any cutting of the stream:

- `TimersAreTheLinks`: `TimersFollowTheLink`;
- `HandedAsItWasWritten`: `HandedAsWritten`.

The invariant of the second, `Framed`, relates three sequences: the PDUs the peer wrote on this link
(`pdusOf`), those handed over, and what the framer holds. What was handed over are the first PDUs
(`Heard`), and the framer of a link that is kept holds, cut into chunks somewhere, just the units that were
read behind them, which are less than the next PDU (`Waits`). It is needed because the property alone does
not say what the chunks are. Two layers of lemmas are under it, both about recursive functions. One is of
`FlattenSeq` and of the framer's operators on chunks: joining and cutting change where the chunks end and
not what they hold (`JoinHolds`, `RestHolds`). The other is of the rounds of `next()`: each keeps to the
stream (`Cut`), and either nothing is whole any more (`Done`) or it took at least a header's length
(`RoundGoesOn`), so that `length \div HeaderLength` rounds are enough (`NextCuts`).

`ReassemblyProofs`, for any segments, any timeout and any maxima:

- `StoreIsBounded`, `WeightIsKept`, `NothingAnsweredIsForgotten`, `WholeHasEveryPart`: invariants of
  `reassembly`;
- `EveryLossIsTold`: `LossIsTold`, whatever the peer sends again and with whatever octets. The count is of
  the parts that were answered and not refused since. A part that had been answered, came again and is
  refused as its group goes is not in it, see "Seen while modelling".

The invariant, `Sound`, reads the store and the history against each other. `Books`: an id is held by one
entry at most; a held entry has just the parts its account was answered for, lacks one, and weighs what it
retains (`Kept`); an account without an entry is settled, whole with every part or lost with the right
count (`Settled`); ids not given out yet are untouched, and none of a held group was refused. On top of it the two bounds. `Collect` breaks the
bounds inside its turn and `Trim` restores them, so every operation keeps `Books` and only the whole turn
`Sound`. The subtle step is the segment just placed whose own group is the one evicted: the parts in the
group are the answered ones and the refused one, whether or not that was answered before, and the count
takes one off them in both cases.

What a store does is proved first, of a store alone: taking entries leaves the rest in order
(`OnlyTakes`, `OnlySplits`, `OnlyOldest`), and the total follows them (`WeightAppend`, `TakeFacts`,
`ReweighFacts`). These are inductions over the entries. `only` and `weightOf` are recursive functions, and
the induction is the well-foundedness of `<` on the naturals, used as a minimal counterexample (`Least`,
`Inducts`); that such a function exists is proved too (`Recurs`).

`ReceiptMergingProofs`, for any sends, ids and bases, any timeout and maximum:

- `StoresAreBounded`, `ReportsHaveEverySegment`, `ReportedOnceComplete`: the invariants of `receipts`;
- `NoSecondReport`: `MergedOnce`, an action property.

`ReportedOnceComplete` is of `FiresOnceAllReported`, so of the receipts no earlier than the last answer.

The invariant has five parts. `Stored` says that the merger `Keeps` its stores within their bounds and
apart, and that whatever `finished` says must be remembered is in `spent`, with the time it has left and
none but the bases finished since behind it: that is why neither expiry nor `dropOldest` can forget it too
soon. `AllCollect` says that a group is that of one send which was taken and lacks a segment, `AllWhole`
that a report has them all, and `AllAwaited` that a send neither given up nor reported has its group, with
every segment reported so far in it. A turn is a chain of operations (sweep, drop the oldest, close, open
or fill), and most of them only take from the groups: `Shrinks` says how, and composes.

`HandshakeProofs`, for any number of attempts, connections, binds read together and calls of `close()`:

- `LeavesNothingBehind`, `HandsOverAccepted`, `ListsTheLive`, `ClosedIsEmpty`, `TypeCorrect`: the
  invariants of `handshake`.

`ClientInv` adds to `NothingLeftBehind` that every session the call made is `Sound`, that one whose hidden
`close()` began is stopped, that those to come are new, and where the loop may be while the call is
elsewhere (`Control`): an armed timer or a running attempt means `trying`, which is why no session is made
once the call has settled. `ServerInv` adds to `ListedIsLive` and `ClosedServerIsEmpty` what ties a session
to its socket: a connection in its handshake has an open one, so the listener cannot report its `close`
before that handshake is over; and a session whose socket has closed is over. What joins the two is that
an `ESME_ROK` on the wire was recorded, and that what is recorded stays.

The assumptions are those the modules state of their constants. Out of the prover's reach and only
model-checked: liveness (`StopEnds`, `KeepsTrying`, `EverySendResolves`, `DrainEnds`, `EveryGroupEnds`,
`SilentPeerIsDropped`, `DoomedSessionsEnd`). Every invariant and every action property of
a passing run is proved.

## Findings

- `session_hand_wired`, `session.ts:311`: `comeBackUp()` opens the link on the word of a bind that was
  answered before an await, without asking whether the socket lives. If it died meanwhile, the session is
  `up` on a closed socket for good.
- `incoming_bound`, `incoming-requests.ts:251`: the bound on held messages is checked before an await and
  the message held after it, so all the messages of one read pass together.
- `outgoing_lost`, `session.ts:328`: a `close()` between the death of the socket and its `close` event
  resolves without an `err` and loses the requests on the wire.
- `incoming_hooked`, `session.ts:196`: an `onRequest` that answers by itself after an await writes on the
  link there is by then, though the decisions say an answer belongs to the link its message came on.

### Seen while modelling

Not runs. Of the first two the repository's README says otherwise; TLC finds the traces described when
`FiresOnceAllReported` counts the earlier receipts too, and when a lost account with an answered part is
required to have been told of one. The others contradict no line of it, or a property for them would
repeat what the line says.

- Receipts that come before the whole send is answered find no merge (`session.ts:227` registers it after,
  `dlr-merger.ts:117` then drops them), so the merged report of that send never fires. `src/README.md:364`
  and `:494` say that `messageDlr` fires once every segment has a final report.
- When a segment takes the place of one already answered, since it came again or its reference number was
  used again, is longer, and makes its own group the one evicted for octets, the loss is told without it
  (`reassembly.ts:203` takes it for one that added a part). If the group held no other, nothing is told,
  and `src/README.md:185` says that such a message is. `LossIsTold` counts as the code does: the peer of a
  repeated segment still has the refused one. Where the number was used again it has not.
- Two binds read together are both authenticated and both answered `ESME_ROK` (`server.ts:213` reads
  `boundAs` before an await); one that comes after the answer gets `ESME_RALYBND`, which is what
  `test/session.test.ts:427` has.
- A connection whose TLS handshake ends after `SmppServer.close()` took its snapshot (`server.ts:125`)
  becomes a session that no call closes: `close()` waits for it until the peer leaves or the idle timer
  does. `ClosedServerIsEmpty` says that it does not resolve before.
- An abort of the server's signal after a `close()` has begun does not reach the sessions being drained:
  they have left `sessions`, so the abort's own `close()` finds none.
- PDUs that were whole in a read that also holds an unframable length are dropped with it
  (`pdu-framer.ts:36`), though their peer may wait for an answer.
- The PDUs of one read are handed over also when one of them ended the session (`pdu-transport.ts:80`), so
  an `sms` may come after `close`.
- Sequence numbers wrap, and `wait()` replaces the entry of a request still awaited under the same one
  (`pending-requests.ts:28`), whose timer then settles the newer request. It takes 2147483647 requests
  issued while one waits.
- With `responseTimeout` 0, a bind on a new socket to a peer that never writes is never given up: `attach()`
  arms no timer until data comes (`session.ts:318`), whereas the first connection is watched from the
  constructor.
- A comment in `link-life.ts` says that a `binding` link carries nothing but its bind, while `unbind()`
  sends its request on any attached link (`session.ts:238`).

The memory of finished bases is bounded by count and time by design, and `MergedOnce` is stated for
what that memory can hold: a base handed out again after it was forgotten is merged again.

## Plan

What is left:

- The listener's own errors in `Server`, and a bound peer's requests there, composed with
  `IncomingRequests`.

## Not modelled

The protocol tables and value codecs (`defs/`, `pdu.ts`, `udh.ts`, `dlr.ts`, `message.ts`), formatting,
logging, option checking and the splitting of a text into segments: pure functions on data, out of reach
of a model that abstracts data. So are the wording of a receipt and the ranking of its statuses. Backoff
delays: no property is about them. How sequence numbers are drawn: two requests meet on one only across a
wrap of 2147483647, which no bounded run that keeps the rest of the module reaches.
