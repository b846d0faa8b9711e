------------------------ MODULE IncomingRequestsProofs ------------------------
(***************************************************************************)
(* Proofs about IncomingRequests for any requests on any sequence numbers, *)
(* any bound, any number of listeners and of links.                        *)
(***************************************************************************)
EXTENDS IncomingRequests, TLAPS

-----------------------------------------------------------------------------
(* The link: what the operations of LinkLife do to its fields.             *)

\* attach() binds a link unless the session is over (link-life.ts).
LEMMA AttachLink ==
    ASSUME NEW l \in Links
    PROVE  /\ attach(l) \in Links /\ attach(l).stopped = l.stopped
           /\ attach(l).phase = IF l.phase = "ended" THEN "ended" ELSE "binding"
  BY DEF Links, Phases, attach, isOver

\* open() makes the link up, whatever it was.
LEMMA OpenLink ==
    ASSUME NEW l \in Links
    PROVE  open(l) \in Links /\ open(l).phase = "up" /\ open(l).stopped = l.stopped
  BY DEF Links, Phases, open

\* drop() takes an attached link down and leaves any other alone.
LEMMA DropLink ==
    ASSUME NEW l \in Links
    PROVE  /\ drop(l) \in Links /\ drop(l).stopped = l.stopped
           /\ drop(l).phase = IF l.phase \in {"binding", "up"} THEN "down" ELSE l.phase
<1>1. l.drops + 1 \in Nat
  BY DEF Links
<1>2. QED
  BY <1>1 DEF Links, Phases, drop, isAttached

\* stop() changes nothing but the flag.
LEMMA StopLink ==
    ASSUME NEW l \in Links
    PROVE  stop(l) \in Links /\ stop(l).phase = l.phase /\ stop(l).stopped = TRUE
  BY DEF Links, Phases, stop

\* end() is stopped as well.
LEMMA EndLink ==
    ASSUME NEW l \in Links
    PROVE  end(l) \in Links /\ end(l).phase = "ended" /\ end(l).stopped = TRUE
  BY DEF Links, Phases, end

-----------------------------------------------------------------------------
(* The invariant.                                                          *)

\* An answer goes out on the request's own link because a microtask that answers one runs
\* before the link can change, unless a peer's unbind ends the session first.
OnItsLink(m) ==
    /\ answeredOn[m] \in {-1, arrived[m]}
    /\ stage[m] = "peer" => answeredOn[m] = -1
    /\ stage[m] = "gated" => arrived[m] = link.drops \/ isOver(link)

\* What is about to be released was answered, or has no listener at work on it.
ReleasedWithReason ==
    \A m \in Messages : m \in releasing => m \in excused \/ working[m] = 0

HoldsAreRight == EveryOwedMessageIsHeld /\ NoDrainWaitsOnNothing /\ ReleasedWithReason

IInv ==
    /\ TypeOK
    /\ \A m \in Messages : OnItsLink(m)
    /\ HoldsAreRight

-----------------------------------------------------------------------------
(* The steps' parts.                                                       *)

\* Nothing has arrived and nothing is held.
LEMMA InitHolds == Init => IInv
<1>. SUFFICES ASSUME Init PROVE IInv
  OBVIOUS
<1>1. FirstLink \in Links
  BY DEF FirstLink, Links, Phases
<1>2. TypeOK
  <2>1. link \in Links /\ destroyed \in BOOLEAN /\ kind \in [Messages -> Kinds]
    BY <1>1 DEF Init
  <2>2. /\ stage \in [Messages -> {"peer", "hooked", "gated", "collected", "unbinding",
                                   "offered", "handled"}]
        /\ arrived \in [Messages -> Nat] /\ answeredOn \in [Messages -> Nat \cup {-1}]
        /\ hookedOn \in [Messages -> Nat \cup {-1}]
    BY DEF Init
  <2>3. held \in [SeqNrs -> Messages \cup {None}]
    BY DEF Init
  <2>4. working \in [Messages -> 0 .. Listeners]
    BY HeldAssumption DEF Init
  <2>5. releasing \subseteq Messages /\ excused \subseteq Messages /\ drain \in {"idle", "waiting", "over"}
    BY DEF Init
  <2>6. QED
    BY <2>1, <2>2, <2>3, <2>4, <2>5 DEF TypeOK
<1>3. \A m \in Messages : OnItsLink(m)
  BY DEF Init, OnItsLink
<1>4. HoldsAreRight
  BY DEF Init, HoldsAreRight, EveryOwedMessageIsHeld, NoDrainWaitsOnNothing, ReleasedWithReason
<1>5. QED
  BY <1>2, <1>3, <1>4 DEF IInv

\* A link that carries an answer is not over.
LEMMA CarriesNotOver ==
    ASSUME CanWrite PROVE ~isOver(link)
  BY DEF CanWrite, isAttached, isOver

\* An answer is noted with the link it went out on.
LEMMA AnswerTypes ==
    ASSUME TypeOK, NEW ms, Answer(ms)
    PROVE  answeredOn' \in [Messages -> Nat \cup {-1}]
  BY DEF TypeOK, Links, Answer

\* A sequence number whose message is let go is free, whatever the others hold.
LEMMA LetGoKeeps ==
    ASSUME IInv, NEW ms \in SUBSET Messages, LetGo(ms), stage' = stage, working' = working,
           releasing' \subseteq releasing, excused \subseteq excused',
           \A m \in ms : m \in excused' \/ working[m] = 0
    PROVE  /\ held' \in [SeqNrs -> Messages \cup {None}] /\ drain' \in {"idle", "waiting", "over"}
           /\ HoldsAreRight'
<1>1. held' = [k \in SeqNrs |-> IF held[k] \in ms THEN None ELSE held[k]] /\ Wake(held')
  BY DEF LetGo
<1>2. held' \in [SeqNrs -> Messages \cup {None}]
  BY <1>1 DEF IInv, TypeOK
<1>3. drain' \in {"idle", "waiting", "over"} /\ (drain' = "waiting" => HeldMessages' # {})
  BY <1>1, <1>2 DEF IInv, TypeOK, Wake, HeldMessages
<1>4. EveryOwedMessageIsHeld'
  <2>. SUFFICES ASSUME NEW m \in Messages, stage[m] = "offered", m \notin excused', working[m] > 0
                PROVE  held'[SeqNr[m]] = m
    BY DEF EveryOwedMessageIsHeld, isHeld
  <2>1. held[SeqNr[m]] = m /\ m \notin ms /\ SeqNr[m] \in SeqNrs
    BY DEF IInv, HoldsAreRight, EveryOwedMessageIsHeld, isHeld, SeqNrs
  <2>2. QED
    BY <1>1, <2>1
<1>5. ReleasedWithReason'
  BY DEF IInv, HoldsAreRight, ReleasedWithReason
<1>6. QED
  BY <1>2, <1>3, <1>4, <1>5 DEF HoldsAreRight, NoDrainWaitsOnNothing

\* A cleared map owes nothing, and nobody waits on it.
LEMMA ClearKeeps ==
    ASSUME IInv, Clear, UNCHANGED <<working, releasing>>,
           \A m \in Messages : stage'[m] = "offered" => stage[m] = "offered"
    PROVE  /\ held' \in [SeqNrs -> Messages \cup {None}] /\ excused' \subseteq Messages
           /\ drain' \in {"idle", "waiting", "over"} /\ HoldsAreRight'
<1>1. /\ held' \in [SeqNrs -> Messages \cup {None}] /\ drain' \in {"idle", "waiting", "over"}
      /\ drain' # "waiting"
  BY DEF IInv, TypeOK, Clear
<1>2. HeldMessages \subseteq Messages
  BY DEF IInv, TypeOK, HeldMessages
<1>3. excused' \subseteq Messages
  BY <1>2 DEF IInv, TypeOK, Clear
<1>4. ASSUME NEW m \in Messages, stage'[m] = "offered", m \notin excused', working[m] > 0
      PROVE  FALSE
  <2>1. held[SeqNr[m]] = m /\ m \notin HeldMessages /\ SeqNr[m] \in SeqNrs /\ m # None
    BY <1>4, MessagesAssumption DEF IInv, HoldsAreRight, Clear, EveryOwedMessageIsHeld, isHeld, SeqNrs
  <2>2. QED
    BY <2>1 DEF HeldMessages
<1>5. ReleasedWithReason'
  BY DEF IInv, HoldsAreRight, ReleasedWithReason, Clear
<1>6. QED
  BY <1>1, <1>3, <1>4, <1>5 DEF HoldsAreRight, EveryOwedMessageIsHeld, NoDrainWaitsOnNothing

\* A message takes the place of the one on its number.
LEMMA OfferKeeps ==
    ASSUME IInv, NEW m \in Messages, Offer(m)
    PROVE  /\ held' \in [SeqNrs -> Messages \cup {None}] /\ excused' \subseteq Messages
           /\ drain' \in {"idle", "waiting", "over"} /\ UNCHANGED <<working, releasing>>
           /\ stage' = [stage EXCEPT ![m] = "offered"] /\ HoldsAreRight'
<1> DEFINE before == held[SeqNr[m]]
<1>1. /\ stage' = [stage EXCEPT ![m] = "offered"] /\ UNCHANGED <<working, releasing>>
      /\ SeqNr[m] \in SeqNrs /\ before \in Messages \cup {None} /\ m # None
      /\ held \in [SeqNrs -> Messages \cup {None}]
  BY MessagesAssumption DEF Offer, SeqNrs, IInv, TypeOK
<1>9. excused \subseteq excused' => ReleasedWithReason'
  BY <1>1 DEF IInv, HoldsAreRight, ReleasedWithReason
<1>2. CASE /\ held' = [held EXCEPT ![SeqNr[m]] = m] /\ drain' = drain
           /\ excused' = excused \cup ({before} \ {None})
  <2>1. EveryOwedMessageIsHeld'
    <3>. SUFFICES ASSUME NEW q \in Messages, stage'[q] = "offered", q \notin excused', working'[q] > 0
                  PROVE  held'[SeqNr[q]] = q
      BY DEF EveryOwedMessageIsHeld, isHeld
    <3>1. SeqNr[q] \in SeqNrs
      BY DEF SeqNrs
    <3>2. CASE q = m
      BY <1>1, <1>2, <3>2
    <3>3. CASE q # m
      <4>1. stage[q] = "offered" /\ q \notin excused /\ q # before
        BY <1>1, <1>2, <3>3, MessagesAssumption DEF IInv, TypeOK
      <4>2. held[SeqNr[q]] = q
        BY <1>1, <4>1 DEF IInv, HoldsAreRight, EveryOwedMessageIsHeld, isHeld
      <4>3. SeqNr[q] # SeqNr[m]
        BY <4>1, <4>2
      <4>4. QED
        BY <1>1, <1>2, <3>1, <4>2, <4>3
    <3>4. QED
      BY <3>2, <3>3
  <2>2. held'[SeqNr[m]] = m
    BY <1>1, <1>2
  <2>3. NoDrainWaitsOnNothing'
    BY <1>1, <2>2 DEF NoDrainWaitsOnNothing, HeldMessages
  <2>4. QED
    BY <1>1, <1>9, <1>2, <2>1, <2>3 DEF IInv, TypeOK, HoldsAreRight
<1>3. CASE LET none == [[held EXCEPT ![SeqNr[m]] = m] EXCEPT ![SeqNr[m]] = None]
           IN  /\ held' = none /\ Wake(none)
               /\ excused' = excused \cup ({before, m} \ {None})
  <2>1. /\ held' = [held EXCEPT ![SeqNr[m]] = None] /\ Wake(held')
        /\ excused' = excused \cup ({before, m} \ {None})
    BY <1>1, <1>3
  <2>2. held' \in [SeqNrs -> Messages \cup {None}] /\ excused' \subseteq Messages
    BY <1>1, <2>1 DEF IInv, TypeOK
  <2>3. drain' \in {"idle", "waiting", "over"} /\ (drain' = "waiting" => HeldMessages' # {})
    BY <2>1, <2>2 DEF IInv, TypeOK, Wake, HeldMessages
  <2>4. EveryOwedMessageIsHeld'
    <3>. SUFFICES ASSUME NEW q \in Messages, stage'[q] = "offered", q \notin excused', working'[q] > 0
                  PROVE  held'[SeqNr[q]] = q
      BY DEF EveryOwedMessageIsHeld, isHeld
    <3>1. q # m /\ q # before /\ q \notin excused /\ SeqNr[q] \in SeqNrs
      BY <2>1, MessagesAssumption DEF SeqNrs
    <3>2. stage[q] = "offered"
      BY <1>1, <3>1 DEF IInv, TypeOK
    <3>3. held[SeqNr[q]] = q
      BY <1>1, <3>1, <3>2 DEF IInv, HoldsAreRight, EveryOwedMessageIsHeld, isHeld
    <3>4. SeqNr[q] # SeqNr[m]
      BY <3>1, <3>3
    <3>5. QED
      BY <1>1, <2>1, <3>1, <3>3, <3>4
  <2>5. QED
    BY <1>1, <1>9, <2>1, <2>2, <2>3, <2>4 DEF HoldsAreRight, NoDrainWaitsOnNothing
<1>4. QED
  BY <1>2, <1>3 DEF Offer

\* What is held, and who waits for it, are left alone.
LEMMA HoldsStay ==
    ASSUME IInv, UNCHANGED <<holding, drain>>,
           \A m \in Messages : stage'[m] = "offered" => stage[m] = "offered"
    PROVE  HoldsAreRight'
  BY DEF IInv, HoldsAreRight, EveryOwedMessageIsHeld, NoDrainWaitsOnNothing, ReleasedWithReason,
         HeldMessages, isHeld, holding

\* A request whose answer, stage and link are left alone.
LEMMA RestsOnItsLink ==
    ASSUME NEW m \in Messages, OnItsLink(m),
           answeredOn'[m] = answeredOn[m], arrived'[m] = arrived[m],
           stage'[m] \notin {"peer", "gated"} \/ stage'[m] = stage[m],
           link'.drops = link.drops \/ isOver(link)' \/ stage'[m] # "gated",
           isOver(link) => isOver(link)'
    PROVE  OnItsLink(m)'
  BY DEF OnItsLink

-----------------------------------------------------------------------------
(* The peer's requests.                                                    *)

Stages == {"peer", "hooked", "gated", "collected", "unbinding", "offered", "handled"}

\* The requests of one read, handed over in one turn: what each of them holds and answers.
LEMMA ReadKeeps ==
    ASSUME IInv, Read
    PROVE  IInv'
<1>1. PICK ms \in SUBSET {m \in Messages : stage[m] = "peer"}, garbled \in SUBSET Messages :
        /\ garbled \subseteq ms
        /\ arrived' = [m \in Messages |-> IF m \in ms THEN link.drops ELSE arrived[m]]
        /\ IF Hooked THEN Hook(ms, garbled) ELSE Route(ms, garbled)
  BY DEF Read
<1>2. UNCHANGED <<link, destroyed, kind, hookedOn, holding, drain>> /\ CanWrite
  BY DEF Read, CanWrite
<1>3. PICK answered \in SUBSET ms : Answer(answered)
  BY <1>1 DEF Hook, Route
<1>4. \A m \in Messages :
        /\ m \in ms => stage'[m] \in {"handled", "hooked", "gated", "unbinding"}
        /\ m \notin ms => stage'[m] = stage[m]
  <2>. SUFFICES ASSUME NEW m \in Messages
                PROVE  /\ m \in ms => stage'[m] \in {"handled", "hooked", "gated", "unbinding"}
                       /\ m \notin ms => stage'[m] = stage[m]
    OBVIOUS
  <2>1. CASE Hook(ms, garbled)
    <3>1. garbled \subseteq ms
      BY <1>1
    <3>2. stage' = [q \in Messages |-> CASE q \in garbled -> "handled"
                                          [] q \in ms \ garbled -> "hooked"
                                          [] OTHER -> stage[q]]
      BY <2>1 DEF Hook
    <3>3. QED
      BY <3>1, <3>2
  <2>2. CASE Route(ms, garbled)
    <3>. DEFINE messages == {q \in ms \ garbled : kind[q] \in {"message", "segmented"} /\ ~full}
                unbinds == {q \in ms \ garbled : kind[q] = "unbind"}
    <3>1. stage' = [q \in Messages |-> CASE q \in messages -> "gated"
                                          [] q \in unbinds -> "unbinding"
                                          [] q \in ms \ (messages \cup unbinds) -> "handled"
                                          [] OTHER -> stage[q]]
      BY <2>2 DEF Route
    <3>2. messages \subseteq ms /\ unbinds \subseteq ms /\ messages \cap unbinds = {}
      OBVIOUS
    <3>. HIDE DEF messages, unbinds
    <3>3. QED
      BY <3>1, <3>2
  <2>3. QED
    BY <1>1, <2>1, <2>2
<1>5. stage' \in [Messages -> Stages]
  <2>1. \E f : stage' = [m \in Messages |-> f[m]]
    <3>1. stage' = [m \in Messages |-> stage'[m]]
      BY <1>1 DEF Hook, Route
    <3>2. QED
      BY <3>1
  <2>2. \A m \in Messages : stage'[m] \in Stages
    BY <1>4 DEF IInv, TypeOK, Stages
  <2>3. QED
    BY <2>1, <2>2
<1>6. TypeOK'
  <2>1. answeredOn' \in [Messages -> Nat \cup {-1}]
    BY <1>3, AnswerTypes DEF IInv
  <2>2. arrived' \in [Messages -> Nat]
    BY <1>1 DEF IInv, TypeOK, Links
  <2>3. QED
    BY <1>2, <1>5, <2>1, <2>2 DEF IInv, TypeOK, Stages, holding
<1>7. ASSUME NEW m \in Messages PROVE OnItsLink(m)'
  <2>1. OnItsLink(m)
    BY DEF IInv
  <2>2. CASE m \in ms
    <3>1. stage[m] = "peer" /\ answeredOn[m] = -1 /\ arrived'[m] = link.drops
      BY <1>1, <2>1, <2>2 DEF OnItsLink
    <3>2. answeredOn'[m] \in {-1, link.drops}
      BY <1>3, <3>1 DEF Answer
    <3>3. QED
      BY <1>2, <1>4, <2>2, <3>1, <3>2 DEF OnItsLink
  <2>3. CASE m \notin ms
    <3>1. answeredOn'[m] = answeredOn[m] /\ arrived'[m] = arrived[m] /\ stage'[m] = stage[m]
      BY <1>1, <1>3, <1>4, <2>3 DEF Answer
    <3>2. QED
      BY <1>2, <2>1, <3>1, RestsOnItsLink
  <2>4. QED
    BY <2>2, <2>3
<1>8. \A m \in Messages : stage'[m] = "offered" => stage[m] = "offered"
  BY <1>4
<1>9. QED
  BY <1>2, <1>6, <1>7, <1>8, HoldsStay DEF IInv

\* An awaited onRequest ends, whatever has become of the link meanwhile.
LEMMA HookResolvesKeeps ==
    ASSUME IInv, NEW m \in Messages, HookResolves(m)
    PROVE  IInv'
<1>1. /\ UNCHANGED <<link, destroyed, kind, arrived, hookedOn, holding, drain>>
      /\ stage[m] = "hooked" /\ stage \in [Messages -> Stages]
  BY DEF HookResolves, IInv, TypeOK, Stages
<1>2. \/ answeredOn' = answeredOn
      \/ ~lostLink(m) /\ \E answered \in SUBSET {m} : Answer(answered)
  BY DEF HookResolves, Route
<1>3. /\ stage'[m] \in {"handled", "gated", "unbinding"}
      /\ stage'[m] = "gated" => ~lostLink(m)
      /\ \A q \in Messages : q # m => stage'[q] = stage[q]
      /\ stage' = [q \in Messages |-> stage'[q]]
  <2>1. CASE stage' = [stage EXCEPT ![m] = "handled"]
    BY <1>1, <2>1
  <2>2. CASE ~lostLink(m) /\ Route({m}, {})
    BY <1>1, <2>2 DEF Route
  <2>3. QED
    BY <2>1, <2>2 DEF HookResolves
<1>4. TypeOK'
  <2>1. answeredOn' \in [Messages -> Nat \cup {-1}]
    BY <1>2, AnswerTypes DEF IInv, TypeOK
  <2>2. \A q \in Messages : stage'[q] \in Stages
    BY <1>1, <1>3 DEF Stages
  <2>3. stage' \in [Messages -> Stages]
    BY <1>3, <2>2
  <2>4. QED
    BY <1>1, <2>1, <2>3 DEF IInv, TypeOK, Stages, holding
<1>5. ASSUME NEW q \in Messages PROVE OnItsLink(q)'
  <2>1. OnItsLink(q)
    BY DEF IInv
  <2>2. CASE q = m
    <3>1. answeredOn'[m] = answeredOn[m] \/ answeredOn'[m] = arrived[m]
      BY <1>2 DEF Answer, lostLink
    <3>2. QED
      BY <1>1, <1>3, <2>1, <2>2, <3>1 DEF OnItsLink, lostLink
  <2>3. CASE q # m
    <3>1. answeredOn'[q] = answeredOn[q]
      BY <1>2, <2>3 DEF Answer
    <3>2. QED
      BY <1>1, <1>3, <2>1, <2>3, <3>1, RestsOnItsLink
  <2>4. QED
    BY <2>2, <2>3
<1>6. \A q \in Messages : stage'[q] = "offered" => stage[q] = "offered"
  BY <1>3
<1>7. QED
  BY <1>1, <1>4, <1>5, <1>6, HoldsStay DEF IInv

\* A hook that answers by itself, on whatever link there is, leaves all else alone.
LEMMA HookAnswersKeeps ==
    ASSUME IInv, NEW m \in Messages, HookAnswers(m)
    PROVE  IInv'
<1>1. /\ UNCHANGED <<link, destroyed, kind, arrived, answeredOn, holding, drain>>
      /\ stage' = [stage EXCEPT ![m] = "handled"] /\ stage \in [Messages -> Stages]
      /\ hookedOn' = [hookedOn EXCEPT ![m] = link.drops] /\ link.drops \in Nat
  BY DEF HookAnswers, IInv, TypeOK, Stages, Links
<1>2. TypeOK'
  BY <1>1 DEF IInv, TypeOK, holding
<1>3. ASSUME NEW q \in Messages PROVE OnItsLink(q)'
  BY <1>1, RestsOnItsLink DEF IInv
<1>4. \A q \in Messages : stage'[q] = "offered" => stage[q] = "offered"
  BY <1>1
<1>5. QED
  BY <1>1, <1>2, <1>3, <1>4, HoldsStay DEF IInv

\* An offer answers nothing.
LEMMA OfferedKeeps ==
    ASSUME IInv, NEW m \in Messages, Offer(m),
           UNCHANGED <<link, destroyed, kind, arrived, answeredOn, hookedOn>>
    PROVE  IInv'
<1>1. /\ held' \in [SeqNrs -> Messages \cup {None}] /\ excused' \subseteq Messages
      /\ drain' \in {"idle", "waiting", "over"} /\ UNCHANGED <<working, releasing>>
      /\ stage' = [stage EXCEPT ![m] = "offered"] /\ HoldsAreRight'
  BY OfferKeeps
<1>2. TypeOK'
  BY <1>1 DEF IInv, TypeOK
<1>3. ASSUME NEW q \in Messages PROVE OnItsLink(q)'
  BY <1>1, RestsOnItsLink DEF IInv, TypeOK
<1>4. QED
  BY <1>1, <1>2, <1>3 DEF IInv

\* A message is offered to the application, held or refused.
LEMMA OnMessageKeeps ==
    ASSUME IInv, NEW m \in Messages, OnMessage(m)
    PROVE  IInv'
<1>1. CASE Offer(m) /\ UNCHANGED answeredOn
  BY <1>1, OfferedKeeps DEF OnMessage
<1>2. CASE stage' = [stage EXCEPT ![m] = "collected"] /\ Answer({m}) /\ UNCHANGED <<holding, drain>>
  <2>1. stage[m] = "gated" /\ UNCHANGED <<link, destroyed, kind, arrived, hookedOn>>
    BY DEF OnMessage
  <2>2. answeredOn' \in [Messages -> Nat \cup {-1}]
    BY <1>2, AnswerTypes DEF IInv
  <2>3. TypeOK'
    BY <1>2, <2>1, <2>2 DEF IInv, TypeOK, holding
  <2>4. ASSUME NEW q \in Messages PROVE OnItsLink(q)'
    <3>1. OnItsLink(q)
      BY DEF IInv
    <3>2. CASE q = m
      <4>1. answeredOn'[m] = answeredOn[m] \/ (CanWrite /\ answeredOn'[m] = link.drops)
        BY <1>2 DEF Answer
      <4>2. CanWrite => arrived[m] = link.drops
        BY <2>1, <3>1, <3>2, CarriesNotOver DEF OnItsLink
      <4>3. stage'[m] = "collected"
        BY <1>2 DEF IInv, TypeOK
      <4>4. QED
        BY <2>1, <3>1, <3>2, <4>1, <4>2, <4>3 DEF OnItsLink
    <3>3. CASE q # m
      <4>1. answeredOn'[q] = answeredOn[q] /\ stage'[q] = stage[q]
        BY <1>2, <3>3 DEF Answer, IInv, TypeOK
      <4>2. QED
        BY <2>1, <3>1, <4>1, RestsOnItsLink
    <3>4. QED
      BY <3>2, <3>3
  <2>5. \A q \in Messages : stage'[q] = "offered" => stage[q] = "offered"
    BY <1>2 DEF IInv, TypeOK
  <2>6. QED
    BY <1>2, <2>3, <2>4, <2>5, HoldsStay DEF IInv
<1>3. QED
  BY <1>1, <1>2 DEF OnMessage

-----------------------------------------------------------------------------
(* The application, and the end of a hold.                                 *)

\* The application answers, when it likes.
LEMMA SendRespKeeps ==
    ASSUME IInv, NEW m \in Messages, SendResp(m)
    PROVE  IInv'
<1>1. /\ stage[m] = "offered" /\ releasing' = releasing \cup {m} /\ excused' = excused \cup {m}
      /\ UNCHANGED <<link, destroyed, kind, stage, arrived, hookedOn, held, working, drain>>
      /\ answeredOn' = answeredOn \/ (~lostLink(m) /\ Answer({m}))
  BY DEF SendResp
<1>2. TypeOK'
  <2>1. answeredOn' \in [Messages -> Nat \cup {-1}]
    BY <1>1, AnswerTypes DEF IInv, TypeOK
  <2>2. QED
    BY <1>1, <2>1 DEF IInv, TypeOK
<1>3. ASSUME NEW q \in Messages PROVE OnItsLink(q)'
  <2>1. \/ answeredOn'[q] = answeredOn[q]
        \/ q = m /\ answeredOn'[q] = arrived[q]
    BY <1>1 DEF Answer, lostLink
  <2>2. QED
    BY <1>1, <2>1 DEF IInv, OnItsLink
<1>4. HoldsAreRight'
  BY <1>1 DEF IInv, HoldsAreRight, EveryOwedMessageIsHeld, NoDrainWaitsOnNothing, ReleasedWithReason,
              HeldMessages, isHeld
<1>5. QED
  BY <1>2, <1>3, <1>4 DEF IInv

\* A listener fails, and the last to fail lets the message go, in a turn of its own.
LEMMA ListenerRejectsKeeps ==
    ASSUME IInv, NEW m \in Messages, ListenerRejects(m)
    PROVE  IInv'
<1>1. /\ working[m] > 0 /\ working' = [working EXCEPT ![m] = @ - 1]
      /\ releasing' = IF working[m] = 1 THEN releasing \cup {m} ELSE releasing
      /\ UNCHANGED <<link, destroyed, kind, stage, arrived, answeredOn, hookedOn, held, excused, drain>>
  BY DEF ListenerRejects
<1>2. working[m] - 1 \in 0 .. Listeners
  BY <1>1, HeldAssumption DEF IInv, TypeOK
<1>3. TypeOK'
  BY <1>1, <1>2 DEF IInv, TypeOK
<1>4. \A q \in Messages : OnItsLink(q)'
  BY <1>1 DEF IInv, OnItsLink
<1>5. /\ working \in [Messages -> 0 .. Listeners] /\ working'[m] = working[m] - 1
      /\ \A q \in Messages : q # m => working'[q] = working[q]
  BY <1>1 DEF IInv, TypeOK
<1>6. EveryOwedMessageIsHeld'
  <2>. SUFFICES ASSUME NEW q \in Messages, stage'[q] = "offered", q \notin excused', working'[q] > 0
                PROVE  held'[SeqNr[q]] = q
    BY DEF EveryOwedMessageIsHeld, isHeld
  <2>1. stage[q] = "offered" /\ q \notin excused /\ working[q] > 0
    BY <1>1, <1>5
  <2>2. QED
    BY <1>1, <2>1 DEF IInv, HoldsAreRight, EveryOwedMessageIsHeld, isHeld
<1>7. ReleasedWithReason'
  <2>. SUFFICES ASSUME NEW q \in Messages, q \in releasing', q \notin excused PROVE working'[q] = 0
    BY <1>1 DEF ReleasedWithReason
  <2>1. CASE q = m
    <3>1. q \notin releasing
      BY <1>1, <2>1 DEF IInv, HoldsAreRight, ReleasedWithReason
    <3>2. working[m] = 1
      BY <1>1, <2>1, <3>1
    <3>3. QED
      BY <1>5, <2>1, <3>2
  <2>2. CASE q # m
    BY <1>1, <1>5, <2>2 DEF IInv, HoldsAreRight, ReleasedWithReason
  <2>3. QED
    BY <2>1, <2>2
<1>8. NoDrainWaitsOnNothing'
  BY <1>1 DEF IInv, HoldsAreRight, NoDrainWaitsOnNothing, HeldMessages
<1>9. QED
  BY <1>3, <1>4, <1>6, <1>7, <1>8 DEF IInv, HoldsAreRight

\* The two ends of a hold that are not the application's doing.
LEMMA LetsGoKeeps ==
    ASSUME IInv, NEW m \in Messages, LetGo({m}) \/ UNCHANGED <<held, drain>>,
           UNCHANGED <<link, destroyed, kind, stage, arrived, answeredOn, hookedOn, working>>,
           releasing' \subseteq releasing, excused' \in {excused, excused \cup {m}},
           m \in excused' \/ working[m] = 0
    PROVE  IInv'
<1>0. excused \subseteq excused' /\ excused' \subseteq Messages
  BY DEF IInv, TypeOK
<1>1. CASE LetGo({m})
  <2>1. /\ held' \in [SeqNrs -> Messages \cup {None}] /\ drain' \in {"idle", "waiting", "over"}
        /\ HoldsAreRight'
    <3>. DEFINE ms == {m}
    <3>1. ms \in SUBSET Messages /\ LetGo(ms) /\ \A q \in ms : q \in excused' \/ working[q] = 0
      BY <1>1
    <3>. HIDE DEF ms
    <3>2. QED
      BY <1>0, <3>1, LetGoKeeps
  <2>2. TypeOK' /\ \A q \in Messages : OnItsLink(q)'
    BY <1>0, <2>1 DEF IInv, TypeOK, OnItsLink
  <2>3. QED
    BY <2>1, <2>2 DEF IInv
<1>2. CASE UNCHANGED <<held, drain>>
  <2>1. TypeOK' /\ \A q \in Messages : OnItsLink(q)'
    BY <1>0, <1>2 DEF IInv, TypeOK, OnItsLink
  <2>2. HoldsAreRight'
    BY <1>0, <1>2 DEF IInv, HoldsAreRight, EveryOwedMessageIsHeld, NoDrainWaitsOnNothing,
                      ReleasedWithReason, HeldMessages, isHeld
  <2>3. QED
    BY <2>1, <2>2 DEF IInv
<1>3. QED
  BY <1>1, <1>2

-----------------------------------------------------------------------------
(* The link and the drain.                                                 *)

\* The link changes and every hold goes with it.
LEMMA ClearsKeeps ==
    ASSUME IInv, Clear, link' \in Links, destroyed' \in BOOLEAN,
           stage' \in [Messages -> Stages],
           UNCHANGED <<kind, arrived, answeredOn, hookedOn, working, releasing>>,
           \A m \in Messages : stage'[m] = stage[m] \/ stage'[m] = "handled",
           isOver(link)' \/ (~isOver(link) /\ \A m \in Messages : stage[m] # "gated")
    PROVE  IInv'
<1>1. /\ held' \in [SeqNrs -> Messages \cup {None}] /\ excused' \subseteq Messages
      /\ drain' \in {"idle", "waiting", "over"} /\ HoldsAreRight'
  BY ClearKeeps
<1>2. TypeOK'
  BY <1>1 DEF IInv, TypeOK, Stages
<1>3. ASSUME NEW q \in Messages PROVE OnItsLink(q)'
  <2>1. OnItsLink(q)
    BY DEF IInv
  <2>2. QED
    BY <2>1 DEF OnItsLink
<1>4. QED
  BY <1>1, <1>2, <1>3 DEF IInv

\* The link dies, is replaced, opens or ends.
LEMMA LinkKeeps ==
    ASSUME IInv, SocketDies \/ LinkDrops \/ LinkReturns \/ Ends
    PROVE  IInv'
<1>. link \in Links /\ stage \in [Messages -> Stages]
  BY DEF IInv, TypeOK, Stages
<1>1. CASE SocketDies
  <2>1. destroyed' = TRUE /\ UNCHANGED <<link, kind, stage, arrived, answeredOn, hookedOn, holding, drain>>
    BY <1>1 DEF SocketDies
  <2>2. TypeOK' /\ \A q \in Messages : OnItsLink(q)'
    BY <2>1 DEF IInv, TypeOK, OnItsLink, holding
  <2>3. QED
    BY <2>1, <2>2, HoldsStay DEF IInv
<1>2. CASE LinkDrops
  <2>1. /\ Clear /\ destroyed' = TRUE /\ isAttached(link)
        /\ UNCHANGED <<kind, stage, arrived, answeredOn, hookedOn, working, releasing>>
        /\ link' = drop(link) \/ link' = end(drop(link))
        /\ \A m \in Messages : stage[m] # "gated"
    BY <1>2 DEF LinkDrops, Quiet
  <2>2. drop(link) \in Links
    BY DropLink
  <2>3. link' \in Links /\ ~isOver(link)
    BY <2>1, <2>2, EndLink DEF isAttached, isOver
  <2>4. QED
    BY <2>1, <2>3, ClearsKeeps
<1>3. CASE LinkReturns
  <2>1. /\ link.phase = "down" /\ link' = open(attach(link)) /\ destroyed' = FALSE
        /\ UNCHANGED <<kind, stage, arrived, answeredOn, hookedOn, holding, drain>>
        /\ \A m \in Messages : stage[m] # "gated"
    BY <1>3 DEF LinkReturns, Quiet
  <2>2. attach(link) \in Links
    BY AttachLink
  <2>3. link' \in Links
    BY <2>1, <2>2, OpenLink
  <2>4. TypeOK' /\ \A q \in Messages : OnItsLink(q)'
    BY <2>1, <2>3 DEF IInv, TypeOK, OnItsLink, holding
  <2>5. QED
    BY <2>1, <2>4, HoldsStay DEF IInv
<1>4. CASE Ends
  <2>1. /\ Clear /\ destroyed' = TRUE /\ link' = end(drop(link))
        /\ UNCHANGED <<kind, arrived, answeredOn, hookedOn, working, releasing>>
        /\ stage' = [m \in Messages |-> IF stage[m] = "unbinding" THEN "handled" ELSE stage[m]]
    BY <1>4 DEF Ends
  <2>2. drop(link) \in Links
    BY DropLink
  <2>3. link' \in Links /\ isOver(link)'
    BY <2>1, <2>2, EndLink DEF isOver
  <2>4. /\ stage' \in [Messages -> Stages]
        /\ \A m \in Messages : stage'[m] = stage[m] \/ stage'[m] = "handled"
    BY <2>1 DEF Stages
  <2>5. QED
    BY <2>1, <2>3, <2>4, ClearsKeeps
<1>5. QED
  BY <1>1, <1>2, <1>3, <1>4

\* close() begins to wait, is woken or gives up.
LEMMA DrainKeeps ==
    ASSUME IInv, Close \/ DrainCut \/ UNCHANGED vars
    PROVE  IInv'
<1>1. link \in Links
  BY DEF IInv, TypeOK
<1>2. /\ UNCHANGED <<destroyed, kind, stage, arrived, answeredOn, hookedOn, holding>>
      /\ link' \in {link, stop(link)}
      /\ drain' \in {"idle", "waiting", "over"} /\ (drain' = "waiting" => HeldMessages # {})
  BY DEF IInv, HoldsAreRight, TypeOK, NoDrainWaitsOnNothing, Close, DrainCut, vars, holding
<1>3. link' \in Links /\ link'.drops = link.drops /\ (isOver(link) => isOver(link)')
  BY <1>1, <1>2, StopLink DEF stop, Links, isOver
<1>4. TypeOK' /\ \A q \in Messages : OnItsLink(q)'
  BY <1>2, <1>3 DEF IInv, TypeOK, OnItsLink, holding
<1>5. HoldsAreRight'
  BY <1>2 DEF IInv, HoldsAreRight, EveryOwedMessageIsHeld, NoDrainWaitsOnNothing, ReleasedWithReason,
              HeldMessages, isHeld, holding
<1>6. QED
  BY <1>4, <1>5 DEF IInv

-----------------------------------------------------------------------------
(* The invariant, and what follows.                                        *)

\* The invariant holds in every state.
LEMMA IncomingInvariant == Spec => []IInv
<1>1. Init => IInv
  BY InitHolds
<1>2. IInv /\ [Next]_vars => IInv'
  <2>. SUFFICES ASSUME IInv, [Next]_vars PROVE IInv'
    OBVIOUS
  <2>1. ASSUME NEW m \in Messages, OnWhole(m) PROVE IInv'
    BY <2>1, OfferedKeeps DEF OnWhole
  <2>2. ASSUME NEW m \in Messages, ReleaseTurn(m) PROVE IInv'
    <3>1. m \in excused \/ working[m] = 0
      BY <2>2 DEF ReleaseTurn, IInv, HoldsAreRight, ReleasedWithReason
    <3>2. QED
      BY <2>2, <3>1, LetsGoKeeps DEF ReleaseTurn
  <2>3. ASSUME NEW m \in Messages, Expires(m) PROVE IInv'
    BY <2>3, LetsGoKeeps DEF Expires
  <2>4. QED
    BY <2>1, <2>2, <2>3, ReadKeeps, HookAnswersKeeps, HookResolvesKeeps, OnMessageKeeps, SendRespKeeps,
       ListenerRejectsKeeps, LinkKeeps, DrainKeeps DEF Next
<1>3. QED
  BY <1>1, <1>2, PTL DEF Spec

\* An answer the session gives by itself, or sendResp() gives, goes out on the link its
\* request came on, or not at all, however long the hook or the application take and
\* whatever links come and go (incoming-requests.ts handle, sms.ts sendResp).  Of the
\* answers a hook writes itself it says nothing: they may go out on another link.
THEOREM AnswersKeepTheirLink == Spec => []AnsweredOnItsLink
<1>1. IInv => AnsweredOnItsLink
  BY DEF IInv, OnItsLink, AnsweredOnItsLink
<1>2. QED
  BY <1>1, IncomingInvariant, PTL

\* A message is held while one of its listeners works on it and none has answered,
\* whatever sequence numbers the peer uses again, however late a release comes and
\* whoever of the others fails (held-messages.ts offer, listenerGaveUp, release).
THEOREM OwedIsHeld == Spec => []EveryOwedMessageIsHeld
<1>1. IInv => EveryOwedMessageIsHeld
  BY DEF IInv, HoldsAreRight
<1>2. QED
  BY <1>1, IncomingInvariant, PTL

\* close() never waits on an empty map: no wake-up is missed (held-messages.ts settle,
\* idle-waiters.ts wait).
THEOREM NoMissedWakeUp == Spec => []NoDrainWaitsOnNothing
<1>1. IInv => NoDrainWaitsOnNothing
  BY DEF IInv, HoldsAreRight
<1>2. QED
  BY <1>1, IncomingInvariant, PTL

\* Every variable keeps its type (incoming-requests.ts, held-messages.ts).
THEOREM TypesHold == Spec => []TypeOK
<1>1. IInv => TypeOK
  BY DEF IInv
<1>2. QED
  BY <1>1, IncomingInvariant, PTL
=============================================================================
