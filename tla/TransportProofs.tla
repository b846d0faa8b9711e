---------------------------- MODULE TransportProofs ----------------------------
(***************************************************************************)
(* Proofs about Transport for any lengths, any number of PDUs and links.   *)
(***************************************************************************)
EXTENDS Transport, SequenceTheorems, FiniteSetTheorems, WellFoundedInduction, TLAPS

-----------------------------------------------------------------------------
(* The link: what the operations of LinkLife do to its fields.             *)

\* attach() binds a link unless the session is over (link-life.ts).
LEMMA AttachLink ==
    ASSUME NEW l \in Links
    PROVE  /\ attach(l) \in Links /\ attach(l).stopped = l.stopped
           /\ attach(l).phase = IF l.phase = "ended" THEN "ended" ELSE "binding"
  BY DEF Links, Phases, attach, isOver

\* open() makes the link up, whatever it was.
LEMMA OpenLink ==
    ASSUME NEW l \in Links
    PROVE  open(l) \in Links /\ open(l).phase = "up" /\ open(l).stopped = l.stopped
  BY DEF Links, Phases, open

\* drop() takes an attached link down and leaves any other alone.
LEMMA DropLink ==
    ASSUME NEW l \in Links
    PROVE  /\ drop(l) \in Links /\ drop(l).stopped = l.stopped
           /\ drop(l).phase = IF l.phase \in {"binding", "up"} THEN "down" ELSE l.phase
<1>1. l.drops + 1 \in Nat
  BY DEF Links
<1>2. QED
  BY <1>1 DEF Links, Phases, drop, isAttached

\* stop() changes nothing but the flag.
LEMMA StopLink ==
    ASSUME NEW l \in Links
    PROVE  stop(l) \in Links /\ stop(l).phase = l.phase /\ stop(l).stopped = TRUE
  BY DEF Links, Phases, stop

\* end() is stopped as well.
LEMMA EndLink ==
    ASSUME NEW l \in Links
    PROVE  end(l) \in Links /\ end(l).phase = "ended" /\ end(l).stopped = TRUE
  BY DEF Links, Phases, end

-----------------------------------------------------------------------------
(* The timers.                                                             *)

Watched == link \in Links /\ TimersFollowTheLink

\* A link that is kept, with timers that are cleared, or set for it as it now is.
LEMMA Cleared ==
    ASSUME link' \in Links, ~isUp(link'), probe' = 0, idle' = 0
    PROVE  Watched'
  BY DEF Watched, TimersFollowTheLink

\* The timers are started over for the link as it now is.
LEMMA StartedOver ==
    ASSUME link' \in Links, probe' = reset(link'), idle' = reset(link')
    PROVE  Watched'
  BY DEF Watched, TimersFollowTheLink, reset, isUp, isAttached

\* The link a session lost is down, one it ended is over: neither is up.
LEMMA DropsAndEnds ==
    ASSUME link \in Links
    PROVE  /\ drop(link) \in Links /\ (isAttached(link) => ~isUp(drop(link)))
           /\ end(drop(link)) \in Links /\ ~isUp(end(drop(link))) /\ ~isAttached(end(drop(link)))
<1>1. drop(link) \in Links /\ (isAttached(link) => drop(link).phase = "down")
  BY DropLink DEF isAttached
<1>2. end(drop(link)) \in Links /\ end(drop(link)).phase = "ended"
  BY <1>1, EndLink
<1>3. QED
  BY <1>1, <1>2 DEF isUp, isAttached

\* teardown() clears the timers of the link it lost.
LEMMA TeardownWatched ==
    ASSUME Watched, Teardown PROVE Watched'
<1>1. link' = drop(link) /\ link' \in Links /\ ~isUp(link') /\ probe' = 0 /\ idle' = 0
  BY DropsAndEnds DEF Watched, Teardown
<1>2. QED
  BY <1>1, Cleared

\* end() clears the timers of the link it ended.
LEMMA EndWatched ==
    ASSUME Watched, link' = end(drop(link)), probe' = 0, idle' = 0 PROVE Watched'
<1>1. link' \in Links /\ ~isUp(link')
  BY DropsAndEnds DEF Watched
<1>2. QED
  BY <1>1, Cleared

\* The timers are left on a link that keeps its number, and is up only if it was.
LEMMA TimersStay ==
    ASSUME Watched, UNCHANGED idle, probe' \in {probe, 0}, link' \in Links,
           isAttached(link) => isAttached(link') /\ number(link') = number(link),
           isUp(link') => isUp(link)
    PROVE  Watched'
  BY DEF Watched, TimersFollowTheLink, isUp, isAttached

\* A chunk starts the timers over, and what is read in it may end the link.
LEMMA ReadWatched ==
    ASSUME Watched, NEW count \in Nat, Read(count) PROVE Watched'
<1>1. CASE Teardown
  BY <1>1, TeardownWatched
<1>2. CASE probe' = reset(link) /\ idle' = reset(link) /\ link' = link
  BY <1>2, StartedOver DEF Watched
<1>3. CASE link' = end(drop(link)) /\ probe' = reset(link') /\ idle' = reset(link')
  BY <1>3, DropsAndEnds, StartedOver DEF Watched
<1>4. QED
  BY <1>1, <1>2, <1>3 DEF Read

\* The link is up again, under timers of its own, or the attempt failed.
LEMMA BindWatched ==
    ASSUME Watched, BindAnswered PROVE Watched'
<1>1. CASE Teardown
  BY <1>1, TeardownWatched
<1>2. CASE link' = open(link) /\ probe' = reset(link) /\ idle' = reset(link)
  <2>1. link' \in Links /\ link'.phase = "up" /\ link'.drops = link.drops /\ link.phase = "binding"
    BY <1>2, OpenLink DEF Watched, BindAnswered, open, Links
  <2>2. reset(link') = reset(link)
    BY <2>1 DEF reset, number, isAttached
  <2>3. QED
    BY <1>2, <2>1, <2>2, StartedOver
<1>3. QED
  BY <1>1, <1>2 DEF BindAnswered

\* A new socket is attached, and not up yet.
LEMMA AttachWatched ==
    ASSUME Watched, Attach PROVE Watched'
<1>1. link.phase = "down" /\ link' = attach(link) /\ UNCHANGED timers /\ link \in Links
  BY DEF Attach, Watched
<1>2. link' \in Links /\ link'.phase = "binding"
  BY <1>1, AttachLink
<1>3. ~isAttached(link) /\ ~isUp(link')
  BY <1>1, <1>2 DEF isAttached, isUp
<1>4. QED
  BY <1>1, <1>2, <1>3, TimersStay DEF timers

\* What a stop, a write, a dying socket and a probe leave alone.
LEMMA OthersWatched ==
    ASSUME Watched, \/ Stop \/ PeerWrites \/ PeerFallsSilent \/ SocketDies
                    \/ ProbeFires \/ UNCHANGED vars
    PROVE  Watched'
<1>1. link' \in {link, stop(link)} /\ UNCHANGED idle /\ probe' \in {probe, 0} /\ link \in Links
  BY DEF Watched, Stop, PeerWrites, PeerFallsSilent, SocketDies, ProbeFires, vars, timers
<1>2. link' \in Links /\ link'.phase = link.phase /\ link'.drops = link.drops
  BY <1>1, StopLink DEF stop, Links
<1>3. number(link') = number(link) /\ (isAttached(link) <=> isAttached(link')) /\ (isUp(link') <=> isUp(link))
  BY <1>2 DEF number, isAttached, isUp
<1>4. QED
  BY <1>1, <1>2, <1>3, TimersStay

\* The socket closes, and the link goes with it.
LEMMA SocketClosedWatched ==
    ASSUME Watched, SocketClosed PROVE Watched'
<1>1. CASE link' = end(drop(link)) /\ probe' = 0 /\ idle' = 0
  BY <1>1, EndWatched
<1>2. CASE isAttached(link) /\ link' = drop(link) /\ probe' = 0 /\ idle' = 0
  BY <1>2, DropsAndEnds, Cleared DEF Watched
<1>3. CASE UNCHANGED <<link, timers>>
  BY <1>3 DEF Watched, TimersFollowTheLink, timers
<1>4. QED
  BY <1>1, <1>2, <1>3 DEF SocketClosed

\* A timer never outlives the link it was armed on, so none left over tears a later link
\* down, and a link in use is always watched, whatever was read off which socket, stopped,
\* ended or replaced meanwhile (link-timers.ts, session.ts resetTimers, teardown, comeBackUp).
THEOREM TimersAreTheLinks == Spec => []TimersFollowTheLink
<1>1. Init => Watched
  <2>. SUFFICES ASSUME Init PROVE Watched
    OBVIOUS
  <2>1. link \in Links /\ isAttached(link) /\ number(link) = 1
    BY DEF Init, FirstLink, Links, Phases, isAttached, number
  <2>2. QED
    BY <2>1 DEF Init, Watched, TimersFollowTheLink
<1>2. Watched /\ [Next]_vars => Watched'
  <2>. SUFFICES ASSUME Watched, [Next]_vars PROVE Watched'
    OBVIOUS
  <2>1. CASE \E count \in 1 .. Len(stream) : Read(count)
    <3>1. PICK count \in 1 .. Len(stream) : Read(count)
      BY <2>1
    <3>2. count \in Nat
      BY <3>1
    <3>3. QED
      BY <3>1, <3>2, ReadWatched
  <2>2. CASE IdleFires \/ BindFails
    BY <2>2, TeardownWatched DEF IdleFires, BindFails
  <2>3. CASE Ends
    BY <2>3, EndWatched DEF Ends, End
  <2>4. QED
    BY <2>1, <2>2, <2>3, BindWatched, AttachWatched, OthersWatched, SocketClosedWatched DEF Next
<1>3. Watched => TimersFollowTheLink
  BY DEF Watched
<1>4. QED
  BY <1>1, <1>2, <1>3, PTL DEF Spec

-----------------------------------------------------------------------------
(* Recursion and induction on the naturals.                                *)

\* Some natural numbers have a least one.
LEMMA Least ==
    ASSUME NEW T, T \subseteq Nat, T # {}
    PROVE  \E n \in T : \A m \in T : n <= m
<1>1. PICK n \in T : \A m \in T : ~(<<m, n>> \in OpToRel(<, Nat))
  BY NatLessThanWellFounded, WFMin
<1>2. \A m \in T : ~(m < n)
  BY <1>1 DEF OpToRel
<1>3. QED
  BY <1>2

\* Induction over the naturals, of a set of them.
LEMMA Inducts ==
    ASSUME NEW Good, 0 \in Good, \A n \in Nat : n \in Good => n + 1 \in Good
    PROVE  Nat \subseteq Good
<1>. SUFFICES ASSUME NEW k \in Nat, k \notin Good PROVE FALSE
  OBVIOUS
<1>. DEFINE Bad == {n \in Nat : n \notin Good}
<1>1. Bad \subseteq Nat /\ Bad # {}
  OBVIOUS
<1>2. PICK x \in Bad : \A y \in Bad : x <= y
  <2>. HIDE DEF Bad
  <2>1. QED
    BY <1>1, Least
<1>3. x # 0 /\ x \in Nat /\ x - 1 \in Nat
  OBVIOUS
<1>4. x - 1 \notin Bad
  BY <1>2, <1>3
<1>5. QED
  BY <1>3, <1>4

\* A function on the naturals up to N that starts at base and goes on by step.
Steps(f, N, V, base, step) ==
    f \in [0 .. N -> V] /\ f[0] = base /\ \A n \in 1 .. N : f[n] = step[<<n, f[n - 1]>>]

\* There is one.
LEMMA Recurs ==
    ASSUME NEW N \in Nat, NEW V, NEW base \in V, NEW step \in [(1 .. N) \X V -> V]
    PROVE  \E f : Steps(f, N, V, base, step)
<1>. DEFINE Is(f, n) == f[0] = base /\ \A m \in 1 .. n : f[m] = step[<<m, f[m - 1]>>]
            Good == {n \in Nat : n <= N => \E f \in [0 .. n -> V] : Is(f, n)}
<1>. \A n \in 1 .. N, v \in V : step[<<n, v>>] \in V
  OBVIOUS
<1>1. 0 \in Good
  <2>. DEFINE f == [m \in 0 .. 0 |-> base]
  <2>1. f \in [0 .. 0 -> V] /\ Is(f, 0)
    OBVIOUS
  <2>2. QED
    BY <2>1
<1>2. ASSUME NEW n \in Nat, n \in Good PROVE n + 1 \in Good
  <2>. SUFFICES ASSUME n + 1 <= N PROVE \E f \in [0 .. n + 1 -> V] : Is(f, n + 1)
    OBVIOUS
  <2>1. PICK g \in [0 .. n -> V] : Is(g, n)
    BY <1>2
  <2>. DEFINE f == [m \in 0 .. n + 1 |-> IF m = n + 1 THEN step[<<m, g[n]>>] ELSE g[m]]
  <2>2. f \in [0 .. n + 1 -> V]
    BY <2>1
  <2>3. ASSUME NEW m \in 1 .. n + 1 PROVE f[m] = step[<<m, f[m - 1]>>]
    <3>1. CASE m = n + 1
      <4>1. f[m] = step[<<m, g[n]>>] /\ f[n] = g[n] /\ m - 1 = n
        BY <3>1
      <4>2. QED
        BY <4>1
    <3>2. CASE m # n + 1
      <4>1. f[m] = g[m] /\ m \in 1 .. n
        BY <3>2
      <4>2. g[m] = step[<<m, g[m - 1]>>]
        BY <2>1, <4>1
      <4>3. f[m - 1] = g[m - 1]
        BY <4>1
      <4>4. QED
        BY <4>1, <4>2, <4>3
    <3>3. QED
      BY <3>1, <3>2
  <2>4. f[0] = base
    BY <2>1
  <2>5. QED
    BY <2>2, <2>3, <2>4
<1>3. N \in Good
  <2>. HIDE DEF Good
  <2>. QED
    BY <1>1, <1>2, Inducts
<1>4. QED
  BY <1>3 DEF Steps

-----------------------------------------------------------------------------
(* Sequences of sequences, one after the other.                            *)

\* f[n] is the first n of ss, flattened.
Flat(ss, f) ==
    /\ f[0] = <<>>
    /\ \A n \in 1 .. Len(ss) : f[n] = f[n - 1] \o ss[n]

\* FlattenSeq() puts them together one by one.
LEMMA FlattenRecurs ==
    ASSUME NEW E, NEW ss \in Seq(Seq(E))
    PROVE  \E f \in [0 .. Len(ss) -> Seq(E)] : Flat(ss, f) /\ FlattenSeq(ss) = f[Len(ss)]
<1>. DEFINE N == Len(ss)
            Is(g) == g = [i \in 1 .. N |-> IF i = 1 THEN ss[i] ELSE g[i - 1] \o ss[i]]
            step == [p \in (1 .. N) \X Seq(E) |-> p[2] \o ss[p[1]]]
<1>1. N \in Nat /\ \A n \in 1 .. N : ss[n] \in Seq(E)
  OBVIOUS
<1>2. <<>> \in Seq(E)
  OBVIOUS
<1>3. \A n \in 1 .. N, v \in Seq(E) : step[<<n, v>>] = v \o ss[n]
  OBVIOUS
<1>4. step \in [(1 .. N) \X Seq(E) -> Seq(E)]
  <2>1. \A n \in 1 .. N, v \in Seq(E) : v \o ss[n] \in Seq(E)
    BY <1>1, ConcatProperties
  <2>2. QED
    BY <2>1
<1>. HIDE DEF step
<1>5. PICK f \in [0 .. N -> Seq(E)] : f[0] = <<>> /\ \A n \in 1 .. N : f[n] = step[<<n, f[n - 1]>>]
  <2>. DEFINE V == Seq(E)
              base == <<>>
  <2>. HIDE DEF N
  <2>1. N \in Nat /\ base \in V /\ step \in [(1 .. N) \X V -> V]
    BY <1>1, <1>2, <1>4
  <2>. HIDE DEF V, base
  <2>2. \E g : Steps(g, N, V, base, step)
    BY <2>1, Recurs
  <2>3. QED
    BY <2>2 DEF V, base, Steps
<1>. HIDE DEF N
<1>6. \A n \in 1 .. N : n - 1 \in 0 .. N /\ n \in 0 .. N
  BY <1>1
<1>7. \A n \in 0 .. N : f[n] \in Seq(E)
  BY <1>5
<1>8. \A n \in 1 .. N : f[n] = f[n - 1] \o ss[n]
  BY <1>3, <1>5, <1>6, <1>7
<1>9. Flat(ss, f)
  BY <1>5, <1>8 DEF Flat, N
<1>10. FlattenSeq(ss) = f[N]
  <2>1. CASE N = 0
    <3>1. ss = <<>>
      BY <2>1 DEF N
    <3>2. FlattenSeq(ss) = ss
      BY <2>1 DEF FlattenSeq, N
    <3>3. QED
      BY <1>5, <2>1, <3>1, <3>2
  <2>2. CASE N # 0
    <3>. DEFINE h == [i \in 1 .. N |-> f[i]]
                g == CHOOSE g : Is(g)
    <3>1. Is(h)
      <4>1. ASSUME NEW i \in 1 .. N PROVE h[i] = IF i = 1 THEN ss[i] ELSE h[i - 1] \o ss[i]
        <5>1. CASE i = 1
          <6>1. 1 - 1 = 0 /\ 1 \in 1 .. N
            BY <5>1
          <6>2. f[1] = <<>> \o ss[1] /\ ss[1] \in Seq(E)
            BY <1>1, <1>5, <1>8, <6>1
          <6>3. QED
            BY <5>1, <6>2, ConcatEmptySeq
        <5>2. CASE i # 1
          <6>1. i - 1 \in 1 .. N
            BY <1>1, <5>2
          <6>2. QED
            BY <1>8, <5>2, <6>1
        <5>3. QED
          BY <5>1, <5>2
      <4>2. QED
        BY <4>1
    <3>2. Is(g)
      BY <3>1
    <3>3. FlattenSeq(ss) = g[N]
      BY <2>2 DEF FlattenSeq, N
    <3>. HIDE DEF g
    <3>4. \A i \in 1 .. N : g[i] = IF i = 1 THEN ss[i] ELSE g[i - 1] \o ss[i]
      BY <3>2
    <3>5. \A i \in 1 .. N : h[i] = f[i]
      OBVIOUS
    <3>6. \A i \in 1 .. N : f[i] = IF i = 1 THEN ss[i] ELSE f[i - 1] \o ss[i]
      <4>1. \A i \in 1 .. N : h[i] = IF i = 1 THEN ss[i] ELSE h[i - 1] \o ss[i]
        BY <3>1
      <4>2. \A i \in 1 .. N : i # 1 => i - 1 \in 1 .. N
        BY <1>1
      <4>. HIDE DEF h
      <4>3. QED
        BY <3>5, <4>1, <4>2
    <3>. DEFINE Good == {n \in Nat : n \in 1 .. N => g[n] = f[n]}
    <3>7. 0 \in Good
      OBVIOUS
    <3>8. ASSUME NEW n \in Nat, n \in Good PROVE n + 1 \in Good
      <4>. SUFFICES ASSUME n + 1 \in 1 .. N PROVE g[n + 1] = f[n + 1]
        OBVIOUS
      <4>1. CASE n = 0
        BY <3>4, <3>6, <4>1
      <4>2. CASE n # 0
        <5>1. n \in 1 .. N /\ (n + 1) - 1 = n /\ n + 1 # 1
          BY <1>1, <4>2
        <5>2. g[n] = f[n]
          BY <3>8, <5>1
        <5>3. g[n + 1] = g[n] \o ss[n + 1] /\ f[n + 1] = f[n] \o ss[n + 1]
          BY <3>4, <3>6, <5>1
        <5>4. QED
          BY <5>2, <5>3
      <4>3. QED
        BY <4>1, <4>2
    <3>9. Nat \subseteq Good
      <4>. HIDE DEF Good
      <4>. QED
        BY <3>7, <3>8, Inducts
    <3>10. QED
      BY <1>1, <2>2, <3>3, <3>9
  <2>3. QED
    BY <2>1, <2>2
<1>11. QED
  BY <1>9, <1>10 DEF N

\* There is but one way to.
LEMMA FlattenIs ==
    ASSUME NEW E, NEW ss \in Seq(Seq(E)), NEW g, Flat(ss, g)
    PROVE  FlattenSeq(ss) = g[Len(ss)]
<1>. DEFINE N == Len(ss)
            Good(f) == {n \in Nat : n <= N => g[n] = f[n]}
<1>1. PICK f \in [0 .. N -> Seq(E)] : Flat(ss, f) /\ FlattenSeq(ss) = f[N]
  BY FlattenRecurs
<1>2. N \in Nat
  OBVIOUS
<1>. HIDE DEF N
<1>3. \A n \in 1 .. N : f[n] = f[n - 1] \o ss[n] /\ g[n] = g[n - 1] \o ss[n]
  BY <1>1 DEF Flat, N
<1>4. 0 \in Good(f)
  BY <1>1 DEF Flat
<1>5. ASSUME NEW n \in Nat, n \in Good(f) PROVE n + 1 \in Good(f)
  <2>. SUFFICES ASSUME n + 1 <= N PROVE g[n + 1] = f[n + 1]
    OBVIOUS
  <2>1. n + 1 \in 1 .. N /\ (n + 1) - 1 = n /\ g[n] = f[n]
    BY <1>2, <1>5
  <2>2. QED
    BY <1>3, <2>1
<1>6. Nat \subseteq Good(f)
  <2>. DEFINE S == Good(f)
  <2>1. 0 \in S /\ \A n \in Nat : n \in S => n + 1 \in S
    BY <1>4, <1>5
  <2>. HIDE DEF S
  <2>2. Nat \subseteq S
    BY <2>1, Inducts
  <2>3. QED
    BY <2>2 DEF S
<1>7. g[N] = f[N]
  BY <1>2, <1>6
<1>8. QED
  BY <1>1, <1>7 DEF N

\* What is flattened is a sequence, and nothing is nothing.
LEMMA FlattenType ==
    ASSUME NEW E, NEW ss \in Seq(Seq(E))
    PROVE  FlattenSeq(ss) \in Seq(E) /\ (ss = <<>> => FlattenSeq(ss) = <<>>)
<1>1. PICK f \in [0 .. Len(ss) -> Seq(E)] : Flat(ss, f) /\ FlattenSeq(ss) = f[Len(ss)]
  BY FlattenRecurs
<1>2. Len(ss) \in 0 .. Len(ss)
  OBVIOUS
<1>3. ss = <<>> => Len(ss) = 0
  OBVIOUS
<1>4. QED
  BY <1>1, <1>2, <1>3 DEF Flat

\* One sequence is itself.
LEMMA FlattenOne ==
    ASSUME NEW E, NEW s \in Seq(E)
    PROVE  FlattenSeq(<<s>>) = s
<1>. DEFINE g == [n \in 0 .. 1 |-> IF n = 0 THEN <<>> ELSE s]
            ss == <<s>>
<1>1. ss \in Seq(Seq(E)) /\ Len(ss) = 1 /\ ss[1] = s
  OBVIOUS
<1>2. g[0] = <<>> /\ g[1] = s
  OBVIOUS
<1>3. <<>> \o s = s
  BY ConcatEmptySeq
<1>. HIDE DEF g, ss
<1>4. \A n \in 1 .. 1 : n = 1 /\ n - 1 = 0
  OBVIOUS
<1>5. Flat(ss, g)
  BY <1>1, <1>2, <1>3, <1>4 DEF Flat
<1>6. FlattenSeq(ss) = g[1]
  BY <1>1, <1>5, FlattenIs
<1>7. QED
  BY <1>2, <1>6 DEF ss

\* One more goes behind the others.
LEMMA FlattenAppend ==
    ASSUME NEW E, NEW ss \in Seq(Seq(E)), NEW s \in Seq(E)
    PROVE  FlattenSeq(Append(ss, s)) = FlattenSeq(ss) \o s
<1>. DEFINE N == Len(ss)
            more == Append(ss, s)
<1>1. PICK f \in [0 .. N -> Seq(E)] : Flat(ss, f) /\ FlattenSeq(ss) = f[N]
  BY FlattenRecurs
<1>. DEFINE g == [n \in 0 .. N + 1 |-> IF n = N + 1 THEN f[N] \o s ELSE f[n]]
<1>2. N \in Nat /\ more \in Seq(Seq(E)) /\ Len(more) = N + 1 /\ more[N + 1] = s
  OBVIOUS
<1>3. \A n \in 1 .. N : more[n] = ss[n]
  OBVIOUS
<1>4. \A n \in 1 .. N : f[n] = f[n - 1] \o ss[n]
  BY <1>1 DEF Flat
<1>. HIDE DEF N, more
<1>5. g[N + 1] = f[N] \o s /\ \A n \in 0 .. N : g[n] = f[n]
  BY <1>2
<1>. HIDE DEF g
<1>6. ASSUME NEW n \in 1 .. N + 1 PROVE g[n] = g[n - 1] \o more[n]
  <2>1. CASE n = N + 1
    <3>1. n - 1 = N /\ N \in 0 .. N
      BY <1>2, <2>1
    <3>2. QED
      BY <1>2, <1>5, <2>1, <3>1
  <2>2. CASE n # N + 1
    <3>1. n \in 1 .. N /\ n \in 0 .. N /\ n - 1 \in 0 .. N
      BY <1>2, <2>2
    <3>2. QED
      BY <1>3, <1>4, <1>5, <3>1
  <2>3. QED
    BY <2>1, <2>2
<1>7. g[0] = <<>>
  BY <1>1, <1>2, <1>5 DEF Flat
<1>8. Flat(more, g)
  BY <1>2, <1>6, <1>7 DEF Flat
<1>9. FlattenSeq(more) = g[N + 1]
  BY <1>2, <1>8, FlattenIs
<1>10. QED
  BY <1>1, <1>5, <1>9 DEF more

\* The first goes ahead of the others.
LEMMA FlattenHead ==
    ASSUME NEW E, NEW ss \in Seq(Seq(E)), ss # <<>>
    PROVE  FlattenSeq(ss) = Head(ss) \o FlattenSeq(Tail(ss))
<1>. DEFINE h == Head(ss)
            t == Tail(ss)
            N == Len(t)
<1>1. /\ h \in Seq(E) /\ t \in Seq(Seq(E)) /\ N \in Nat /\ Len(ss) = N + 1 /\ h = ss[1]
      /\ \A n \in 1 .. N : t[n] = ss[n + 1] /\ t[n] \in Seq(E)
  OBVIOUS
<1>. HIDE DEF h, t
<1>2. PICK f \in [0 .. N -> Seq(E)] : Flat(t, f) /\ FlattenSeq(t) = f[N]
  BY <1>1, FlattenRecurs
<1>. DEFINE g == [n \in 0 .. N + 1 |-> IF n = 0 THEN <<>> ELSE h \o f[n - 1]]
<1>3. f[0] = <<>> /\ \A n \in 1 .. N : f[n] = f[n - 1] \o t[n]
  BY <1>2 DEF Flat
<1>. HIDE DEF N
<1>4. g[0] = <<>> /\ \A n \in 1 .. N + 1 : g[n] = h \o f[n - 1]
  <2>1. 0 \in 0 .. N + 1 /\ \A n \in 1 .. N + 1 : n \in 0 .. N + 1 /\ n # 0
    BY <1>1
  <2>2. QED
    BY <2>1
<1>. HIDE DEF g
<1>5. ASSUME NEW n \in 1 .. N + 1 PROVE g[n] = g[n - 1] \o ss[n]
  <2>1. CASE n = 1
    <3>1. n - 1 = 0
      BY <2>1
    <3>2. g[n] = h \o <<>> /\ g[n - 1] = <<>> /\ ss[n] = h
      BY <1>1, <1>3, <1>4, <2>1, <3>1
    <3>3. h \o <<>> = h /\ <<>> \o h = h
      BY <1>1, ConcatEmptySeq
    <3>4. QED
      BY <3>2, <3>3
  <2>2. CASE n # 1
    <3>. DEFINE m == n - 1
    <3>1. m \in 1 .. N /\ m \in 1 .. N + 1 /\ m - 1 \in 0 .. N /\ m + 1 = n
      BY <1>1, <2>2
    <3>. HIDE DEF m
    <3>2. n - 1 = m
      BY DEF m
    <3>3. g[n] = h \o f[m] /\ g[m] = h \o f[m - 1]
      BY <1>4, <3>1, <3>2
    <3>4. f[m] = f[m - 1] \o t[m] /\ t[m] = ss[n] /\ t[m] \in Seq(E) /\ f[m - 1] \in Seq(E)
      BY <1>1, <1>2, <1>3, <3>1
    <3>5. (h \o f[m - 1]) \o t[m] = h \o (f[m - 1] \o t[m])
      <4>1. ASSUME NEW b \in Seq(E), NEW c \in Seq(E) PROVE (h \o b) \o c = h \o (b \o c)
        <5>1. h \in Seq(E)
          BY <1>1
        <5>2. QED
          BY <5>1
      <4>2. QED
        BY <3>4, <4>1
    <3>6. QED
      BY <3>2, <3>3, <3>4, <3>5
  <2>3. QED
    BY <2>1, <2>2
<1>6. Flat(ss, g)
  BY <1>1, <1>4, <1>5 DEF Flat
<1>7. FlattenSeq(ss) = g[N + 1]
  BY <1>1, <1>6, FlattenIs
<1>8. g[N + 1] = h \o f[N]
  <2>1. N + 1 \in 1 .. N + 1 /\ (N + 1) - 1 = N
    BY <1>1
  <2>2. QED
    BY <1>4, <2>1
<1>9. QED
  BY <1>2, <1>7, <1>8 DEF h, t

-----------------------------------------------------------------------------
(* What a framer holds.                                                    *)

Units == [link : Nat, pdu : Nat, at : Nat, says : Nat]
Framers == [chunks : Seq(Seq(Units)), length : Nat]

\* The chunks of a framer are `units`, cut somewhere.
Holds(fr, units) ==
    fr \in Framers /\ FlattenSeq(fr.chunks) = units /\ fr.length = Len(units)

\* A framer starts with nothing.
LEMMA EmptyHolds == Holds(EmptyFramer, <<>>)
<1>. DEFINE ss == <<>>
<1>1. ss \in Seq(Seq(Units)) /\ ss = <<>>
  OBVIOUS
<1>. HIDE DEF ss
<1>2. FlattenSeq(ss) = <<>>
  BY <1>1, FlattenType
<1>3. FlattenSeq(<<>>) = <<>>
  BY <1>1, <1>2
<1>4. <<>> \in Seq(Seq(Units)) /\ Len(<<>>) = 0 /\ 0 \in Nat
  OBVIOUS
<1>5. QED
  BY <1>3, <1>4 DEF Holds, EmptyFramer, Framers

\* What is held is units.
LEMMA HeldUnits ==
    ASSUME NEW fr, NEW units, Holds(fr, units)
    PROVE  units \in Seq(Units) /\ Len(units) \in Nat
<1>1. units \in Seq(Units)
  BY FlattenType DEF Holds, Framers
<1>2. QED
  BY <1>1

\* A chunk is behind what was held.
LEMMA PushHolds ==
    ASSUME NEW fr, NEW units, Holds(fr, units), NEW chunk \in Seq(Units)
    PROVE  Holds(push(fr, chunk), units \o chunk)
<1>1. fr.chunks \in Seq(Seq(Units)) /\ FlattenSeq(fr.chunks) = units /\ fr.length = Len(units)
  BY DEF Holds, Framers
<1>2. units \in Seq(Units)
  BY HeldUnits
<1>3. FlattenSeq(Append(fr.chunks, chunk)) = units \o chunk
  BY <1>1, FlattenAppend
<1>4. Append(fr.chunks, chunk) \in Seq(Seq(Units)) /\ Len(units \o chunk) = Len(units) + Len(chunk)
  BY <1>1, <1>2
<1>5. Len(units) + Len(chunk) \in Nat
  BY <1>2
<1>6. QED
  BY <1>1, <1>3, <1>4, <1>5 DEF Holds, Framers, push

\* join() brings the first units into one chunk, and changes nothing of what is held.
LEMMA JoinHolds ==
    ASSUME NEW fr, NEW units, Holds(fr, units), NEW wanted \in Nat, 1 <= wanted, wanted <= Len(units)
    PROVE  /\ Holds(join(fr, wanted), units)
           /\ join(fr, wanted).chunks # <<>>
           /\ Len(Head(join(fr, wanted).chunks)) >= wanted
           /\ \A i \in 1 .. wanted : Head(join(fr, wanted).chunks)[i] = units[i]
<1>1. fr \in Framers /\ FlattenSeq(fr.chunks) = units /\ fr.length = Len(units)
  BY DEF Holds
<1>2. units \in Seq(Units)
  BY HeldUnits
<1>3. CASE fr.chunks # <<>> /\ Len(Head(fr.chunks)) >= wanted
  <2>. DEFINE h == Head(fr.chunks)
              t == Tail(fr.chunks)
  <2>1. join(fr, wanted) = fr
    BY <1>3 DEF join
  <2>2. fr.chunks \in Seq(Seq(Units))
    BY <1>1 DEF Framers
  <2>3. h \in Seq(Units) /\ t \in Seq(Seq(Units))
    BY <1>3, <2>2
  <2>4. units = h \o FlattenSeq(t)
    BY <1>1, <1>3, <2>2, FlattenHead
  <2>5. FlattenSeq(t) \in Seq(Units)
    BY <2>3, FlattenType
  <2>. HIDE DEF h, t
  <2>6. \A i \in 1 .. Len(h) : units[i] = h[i]
    BY <2>3, <2>4, <2>5
  <2>7. \A i \in 1 .. wanted : i \in 1 .. Len(h)
    BY <1>3, <2>3 DEF h
  <2>8. QED
    BY <1>3, <2>1, <2>6, <2>7 DEF h
<1>4. CASE ~(fr.chunks # <<>> /\ Len(Head(fr.chunks)) >= wanted)
  <2>. DEFINE one == <<FlattenSeq(fr.chunks)>>
  <2>1. join(fr, wanted) = [fr EXCEPT !.chunks = one]
    BY <1>4 DEF join
  <2>2. one \in Seq(Seq(Units)) /\ one # <<>> /\ Head(one) = units
    BY <1>1, <1>2
  <2>3. FlattenSeq(one) = units
    BY <1>1, <1>2, FlattenOne
  <2>. HIDE DEF one
  <2>4. /\ join(fr, wanted) \in Framers
        /\ join(fr, wanted).chunks = one /\ join(fr, wanted).length = Len(units)
    BY <1>1, <2>1, <2>2 DEF Framers
  <2>5. QED
    BY <2>2, <2>3, <2>4 DEF Holds
<1>5. QED
  BY <1>3, <1>4

\* What restOf() leaves is all but what was cut off.
LEMMA RestHolds ==
    ASSUME NEW fr, NEW units, Holds(fr, units), fr.chunks # <<>>,
           NEW cut \in Nat, cut <= Len(Head(fr.chunks))
    PROVE  Holds([chunks |-> restOf(fr.chunks, cut), length |-> fr.length - cut],
                 SubSeq(units, cut + 1, Len(units)))
<1>. DEFINE h == Head(fr.chunks)
            t == Tail(fr.chunks)
            flat == FlattenSeq(t)
            rest == SubSeq(h, cut + 1, Len(h))
            left == restOf(fr.chunks, cut)
            after == SubSeq(units, cut + 1, Len(units))
<1>1. fr.chunks \in Seq(Seq(Units)) /\ FlattenSeq(fr.chunks) = units /\ fr.length = Len(units)
  BY DEF Holds, Framers
<1>2. h \in Seq(Units) /\ t \in Seq(Seq(Units))
  BY <1>1
<1>3. units = h \o flat
  BY <1>1, FlattenHead
<1>4. flat \in Seq(Units)
  BY <1>2, FlattenType
<1>5. left = IF rest = <<>> THEN t ELSE <<rest>> \o t
  BY DEF restOf
<1>6. cut <= Len(h)
  OBVIOUS
<1>. HIDE DEF h, t, flat, left
<1>7. /\ rest \in Seq(Units) /\ Len(rest) = Len(h) - cut
      /\ \A i \in 1 .. Len(h) - cut : rest[i] = h[cut + i]
  BY <1>2, <1>6
<1>8. /\ units \in Seq(Units) /\ Len(units) = Len(h) + Len(flat)
      /\ \A i \in 1 .. Len(h) + Len(flat) : units[i] = IF i <= Len(h) THEN h[i] ELSE flat[i - Len(h)]
  BY <1>2, <1>3, <1>4
<1>9. /\ after \in Seq(Units) /\ Len(after) = Len(units) - cut
      /\ \A i \in 1 .. Len(units) - cut : after[i] = units[cut + i]
  <2>1. /\ Len(h) \in Nat /\ Len(flat) \in Nat /\ Len(units) \in Nat
        /\ Len(units) = Len(h) + Len(flat) /\ units \in Seq(Units)
    BY <1>2, <1>4, <1>8
  <2>2. cut <= Len(units)
    BY <1>6, <2>1
  <2>3. QED
    <3>. HIDE DEF after
    <3>1. ASSUME NEW s \in Seq(Units), NEW c \in Nat, c <= Len(s)
          PROVE  /\ SubSeq(s, c + 1, Len(s)) \in Seq(Units) /\ Len(SubSeq(s, c + 1, Len(s))) = Len(s) - c
                 /\ \A i \in 1 .. Len(s) - c : SubSeq(s, c + 1, Len(s))[i] = s[c + i]
      <4>. DEFINE m == c + 1
                  n == Len(s)
      <4>1. m \in Int /\ n \in Int /\ n \in Nat /\ \A i \in m .. n : s[i] \in Units
        OBVIOUS
      <4>2. m = c + 1 /\ n = Len(s)
        OBVIOUS
      <4>. HIDE DEF m, n
      <4>3. /\ SubSeq(s, m, n) \in Seq(Units)
            /\ Len(SubSeq(s, m, n)) = IF m <= n THEN n - m + 1 ELSE 0
            /\ \A i \in 1 .. n - m + 1 : SubSeq(s, m, n)[i] = s[m + i - 1]
        BY <4>1, SubSeqProperties
      <4>4. n - m + 1 = n - c /\ (~(m <= n) => n - c = 0) /\ \A i \in 1 .. n - c : m + i - 1 = c + i
        <5>1. n \in Nat /\ m = c + 1 /\ c <= n
          BY <3>1, <4>1, <4>2
        <5>2. QED
          BY <5>1
      <4>5. QED
        BY <4>2, <4>3, <4>4
    <3>2. QED
      BY <2>1, <2>2, <3>1 DEF after
<1>. HIDE DEF rest, after
<1>10. after = rest \o flat
  <2>1. /\ rest \o flat \in Seq(Units) /\ Len(rest \o flat) = Len(rest) + Len(flat)
        /\ \A i \in 1 .. Len(rest) + Len(flat) :
             (rest \o flat)[i] = IF i <= Len(rest) THEN rest[i] ELSE flat[i - Len(rest)]
    <3>1. rest \in Seq(Units) /\ flat \in Seq(Units)
      BY <1>4, <1>7
    <3>2. QED
      BY <3>1, ConcatProperties
  <2>2. Len(after) = Len(rest \o flat)
    BY <1>2, <1>4, <1>7, <1>8, <1>9, <2>1
  <2>3. ASSUME NEW i \in 1 .. Len(after) PROVE after[i] = (rest \o flat)[i]
    <3>1. /\ Len(h) \in Nat /\ Len(flat) \in Nat /\ Len(rest) = Len(h) - cut
          /\ Len(after) = Len(h) + Len(flat) - cut /\ i \in Nat /\ 1 <= i
      BY <1>2, <1>4, <1>7, <1>8, <1>9
    <3>2. after[i] = units[cut + i] /\ cut + i \in 1 .. Len(h) + Len(flat) /\ i \in 1 .. Len(rest) + Len(flat)
      BY <1>6, <1>8, <1>9, <3>1
    <3>3. CASE i <= Len(rest)
      <4>1. cut + i <= Len(h) /\ i \in 1 .. Len(h) - cut
        BY <3>1, <3>3
      <4>2. QED
        BY <1>7, <1>8, <2>1, <3>2, <3>3, <4>1
    <3>4. CASE i > Len(rest)
      <4>1. ~(cut + i <= Len(h)) /\ ~(i <= Len(rest)) /\ (cut + i) - Len(h) = i - Len(rest)
        BY <3>1, <3>4
      <4>2. QED
        BY <1>8, <2>1, <3>2, <4>1
    <3>5. QED
      BY <3>1, <3>3, <3>4
  <2>4. QED
    BY <1>9, <2>1, <2>2, <2>3, SeqEqual
<1>11. left \in Seq(Seq(Units)) /\ FlattenSeq(left) = rest \o flat
  <2>1. CASE rest = <<>>
    <3>1. left = t /\ rest \o flat = flat
      BY <1>4, <1>5, <2>1, ConcatEmptySeq
    <3>2. QED
      BY <1>2, <3>1 DEF flat
  <2>2. CASE rest # <<>>
    <3>1. left = <<rest>> \o t
      BY <1>5, <2>2
    <3>2. left \in Seq(Seq(Units)) /\ left # <<>> /\ Head(left) = rest /\ Tail(left) = t
      BY <1>2, <1>7, <3>1
    <3>3. QED
      BY <3>2, FlattenHead DEF flat
  <2>3. QED
    BY <2>1, <2>2
<1>12. fr.length - cut \in Nat /\ fr.length - cut = Len(after)
  BY <1>1, <1>2, <1>4, <1>6, <1>8, <1>9
<1>13. Holds([chunks |-> left, length |-> fr.length - cut], after)
  BY <1>10, <1>11, <1>12 DEF Holds, Framers
<1>14. QED
  BY <1>13 DEF left, after

-----------------------------------------------------------------------------
(* One round of next(): what it cuts off, of what is held.                 *)

Founds == [framer : Framers, pdus : Seq(Seq(Units)), err : BOOLEAN]

\* A round with less than a header to go by, or after an error, is none.
LEMMA NoRound ==
    ASSUME NEW found, NEW units, Holds(found.framer, units), found.err \/ Len(units) < HeaderLength
    PROVE  Round(found) = found
  BY DEF Holds, Round

\* The header that a round goes by is the first unit's.
LEMMA HeadedHolds ==
    ASSUME NEW fr, NEW units, Holds(fr, units), HeaderLength <= Len(units)
    PROVE  /\ Holds(join(fr, HeaderLength), units)
           /\ Head(Head(join(fr, HeaderLength).chunks)) = units[1]
           /\ units[1] \in Units
<1>1. HeaderLength \in Nat /\ 1 <= HeaderLength
  BY LengthsAssumption
<1>. DEFINE first == join(fr, HeaderLength).chunks
            h == Head(first)
<1>2. /\ Holds(join(fr, HeaderLength), units) /\ first # <<>>
      /\ Len(h) >= HeaderLength /\ \A i \in 1 .. HeaderLength : h[i] = units[i]
  BY <1>1, JoinHolds
<1>3. first \in Seq(Seq(Units))
  BY <1>2 DEF Holds, Framers
<1>4. h \in Seq(Units)
  BY <1>2, <1>3
<1>5. units \in Seq(Units)
  BY HeldUnits
<1>. HIDE DEF h
<1>6. 1 \in 1 .. HeaderLength /\ h # <<>> /\ 1 \in 1 .. Len(units)
  BY <1>1, <1>2, <1>4, <1>5
<1>7. Head(h) = h[1]
  BY <1>4, <1>6
<1>8. QED
  BY <1>2, <1>5, <1>6, <1>7 DEF h

\* What a round makes of a header: an error, nothing yet, or the PDU and the rest.
LEMMA RoundIs ==
    ASSUME NEW found \in Founds, NEW units, Holds(found.framer, units),
           ~found.err, HeaderLength <= Len(units),
           NEW says, says = units[1].says
    PROVE  /\ Round(found) \in Founds
           /\ framingRefusal(says) => Round(found).err /\ Round(found).pdus = <<>>
           /\ ~framingRefusal(says) /\ Len(units) < says =>
                /\ ~Round(found).err /\ Round(found).pdus = found.pdus
                /\ Holds(Round(found).framer, units)
           /\ ~framingRefusal(says) /\ says <= Len(units) =>
                /\ ~Round(found).err
                /\ Round(found).pdus = Append(found.pdus, SubSeq(units, 1, says))
                /\ Holds(Round(found).framer, SubSeq(units, says + 1, Len(units)))
<1>. DEFINE headed == join(found.framer, HeaderLength)
            joined == join(headed, says)
            left == [chunks |-> restOf(joined.chunks, says), length |-> joined.length - says]
            pdu == SubSeq(Head(joined.chunks), 1, says)
<1>1. found.framer \in Framers /\ found.pdus \in Seq(Seq(Units)) /\ found.err = FALSE
  BY DEF Founds
<1>2. found.framer.length = Len(units) /\ units \in Seq(Units) /\ Len(units) \in Nat
  BY HeldUnits DEF Holds
<1>3. /\ Holds(headed, units) /\ headed \in Framers /\ headed.length = Len(units)
      /\ Head(Head(headed.chunks)).says = says /\ says \in Nat
  BY HeadedHolds DEF Units, Holds
<1>4. HeaderLength \in Nat /\ 1 <= HeaderLength /\ ~(found.framer.length < HeaderLength)
  BY <1>2, LengthsAssumption
<1>5. Round(found) =
        CASE framingRefusal(says) -> [found EXCEPT !.framer = headed, !.pdus = <<>>, !.err = TRUE]
          [] ~framingRefusal(says) /\ headed.length < says -> [found EXCEPT !.framer = headed]
          [] OTHER -> [found EXCEPT !.framer = left, !.pdus = Append(found.pdus, pdu)]
  BY <1>3, <1>4 DEF Round
<1>. HIDE DEF headed, joined, left, pdu
<1>6. CASE framingRefusal(says)
  <2>1. Round(found) = [found EXCEPT !.framer = headed, !.pdus = <<>>, !.err = TRUE]
    BY <1>5, <1>6
  <2>2. <<>> \in Seq(Seq(Units))
    OBVIOUS
  <2>3. /\ Round(found) \in Founds /\ Round(found).err = TRUE
        /\ Round(found).pdus = <<>>
    BY <1>1, <1>3, <2>1, <2>2 DEF Founds
  <2>4. QED
    BY <1>6, <2>3
<1>7. CASE ~framingRefusal(says) /\ Len(units) < says
  <2>1. Round(found) = [found EXCEPT !.framer = headed]
    BY <1>3, <1>5, <1>7
  <2>2. /\ Round(found) \in Founds /\ Round(found).err = FALSE
        /\ Round(found).pdus = found.pdus /\ Round(found).framer = headed
    BY <1>1, <1>3, <2>1 DEF Founds
  <2>3. ~(says <= Len(units))
    BY <1>2, <1>3, <1>7
  <2>4. QED
    BY <1>3, <1>7, <2>2, <2>3
<1>8. CASE ~framingRefusal(says) /\ says <= Len(units)
  <2>1. ~(Len(units) < says) /\ 1 <= says
    BY <1>2, <1>3, <1>4, <1>8 DEF framingRefusal
  <2>2. Round(found) = [found EXCEPT !.framer = left, !.pdus = Append(found.pdus, pdu)]
    BY <1>3, <1>5, <1>8, <2>1
  <2>3. /\ Holds(joined, units) /\ joined.chunks # <<>> /\ Len(Head(joined.chunks)) >= says
        /\ \A i \in 1 .. says : Head(joined.chunks)[i] = units[i]
    BY <1>3, <1>8, <2>1, JoinHolds DEF joined
  <2>. DEFINE h == Head(joined.chunks)
  <2>4. joined \in Framers /\ h \in Seq(Units) /\ Len(h) \in Nat
    BY <2>3 DEF Holds, Framers
  <2>. HIDE DEF h
  <2>5. says <= Len(h) /\ \A i \in 1 .. says : h[i] = units[i]
    BY <1>3, <2>3, <2>4 DEF h
  <2>6. Holds(left, SubSeq(units, says + 1, Len(units)))
    BY <1>3, <2>3, <2>5, RestHolds DEF left, h
  <2>7. pdu \in Seq(Units) /\ pdu = SubSeq(units, 1, says)
    <3>1. /\ SubSeq(h, 1, says) \in Seq(Units) /\ Len(SubSeq(h, 1, says)) = says
          /\ \A i \in 1 .. says : SubSeq(h, 1, says)[i] = h[i]
      BY <1>3, <2>1, <2>4, <2>5
    <3>2. /\ SubSeq(units, 1, says) \in Seq(Units) /\ Len(SubSeq(units, 1, says)) = says
          /\ \A i \in 1 .. says : SubSeq(units, 1, says)[i] = units[i]
      BY <1>2, <1>3, <1>8, <2>1
    <3>3. SubSeq(h, 1, says) = SubSeq(units, 1, says)
      BY <2>5, <3>1, <3>2, SeqEqual
    <3>4. QED
      BY <3>1, <3>3 DEF pdu, h
  <2>8. left \in Framers /\ Append(found.pdus, pdu) \in Seq(Seq(Units))
    BY <1>1, <2>6, <2>7 DEF Holds
  <2>9. /\ Round(found) \in Founds /\ Round(found).err = FALSE
        /\ Round(found).pdus = Append(found.pdus, pdu) /\ Round(found).framer = left
    BY <1>1, <2>2, <2>8 DEF Founds
  <2>10. QED
    BY <1>8, <2>1, <2>6, <2>7, <2>9
<1>9. QED
  BY <1>2, <1>3, <1>6, <1>7, <1>8

-----------------------------------------------------------------------------
(* A stream: PDUs one after the other.                                     *)

\* The units of the first n.
First(ss, n) == FlattenSeq([m \in 1 .. n |-> ss[m]])

\* Where the n-th ends.
endOf(ss, n) == Len(First(ss, n))

\* They are put together one by one.
LEMMA FirstRecurs ==
    ASSUME NEW E, NEW ss \in Seq(Seq(E))
    PROVE  /\ First(ss, 0) = <<>> /\ First(ss, Len(ss)) = FlattenSeq(ss)
           /\ \A n \in 0 .. Len(ss) : First(ss, n) \in Seq(E)
           /\ \A n \in 1 .. Len(ss) : First(ss, n) = First(ss, n - 1) \o ss[n]
<1>. DEFINE N == Len(ss)
            some(n) == [m \in 1 .. n |-> ss[m]]
<1>1. N \in Nat /\ ss = some(N) /\ \A n \in 1 .. N : ss[n] \in Seq(E)
  OBVIOUS
<1>2. \A n \in 0 .. N : some(n) \in Seq(Seq(E)) /\ Len(some(n)) = n
  <2>1. \A n \in 0 .. N : \A m \in 1 .. n : m \in 1 .. N
    BY <1>1
  <2>. HIDE DEF N
  <2>2. ASSUME NEW n \in 0 .. N PROVE some(n) \in Seq(Seq(E)) /\ Len(some(n)) = n
    <3>1. n \in Nat /\ some(n) \in [1 .. n -> Seq(E)]
      BY <1>1, <2>1
    <3>2. QED
      BY <3>1
  <2>3. QED
    BY <2>2
<1>3. \A n \in 1 .. N : some(n) = Append(some(n - 1), ss[n])
  <2>1. ASSUME NEW n \in 1 .. N PROVE some(n) = Append(some(n - 1), ss[n])
    <3>. DEFINE more == Append(some(n - 1), ss[n])
    <3>1. n - 1 \in 0 .. N /\ n \in 0 .. N /\ n \in Nat
      BY <1>1
    <3>2. some(n - 1) \in Seq(Seq(E)) /\ Len(some(n - 1)) = n - 1 /\ some(n) \in Seq(Seq(E)) /\ Len(some(n)) = n
      BY <1>2, <3>1
    <3>3. \A m \in 1 .. n - 1 : some(n - 1)[m] = ss[m]
      OBVIOUS
    <3>4. \A m \in 1 .. n : some(n)[m] = ss[m]
      OBVIOUS
    <3>5. ss[n] \in Seq(E)
      BY <1>1
    <3>. HIDE DEF some, N
    <3>6. more \in Seq(Seq(E)) /\ Len(more) = n /\ \A m \in 1 .. n : more[m] = ss[m]
      BY <3>1, <3>2, <3>3, <3>5
    <3>7. QED
      <4>1. \A m \in 1 .. n : more[m] = some(n)[m]
        BY <3>4, <3>6
      <4>. HIDE DEF more
      <4>2. more = some(n)
        BY <3>2, <3>6, <4>1, SeqEqual
      <4>3. QED
        BY <4>2 DEF more
  <2>2. QED
    BY <2>1
<1>4. \A n \in 0 .. N : First(ss, n) = FlattenSeq(some(n))
  BY DEF First
<1>. HIDE DEF N, some
<1>5. \A n \in 0 .. N : First(ss, n) \in Seq(E)
  BY <1>2, <1>4, FlattenType
<1>6. First(ss, 0) = <<>>
  <2>1. 0 \in 0 .. N
    BY <1>1
  <2>2. some(0) \in Seq(Seq(E)) /\ some(0) = <<>>
    BY <1>2, <2>1
  <2>3. QED
    BY <1>4, <2>1, <2>2, FlattenType
<1>7. ASSUME NEW n \in 1 .. N PROVE First(ss, n) = First(ss, n - 1) \o ss[n]
  <2>1. n - 1 \in 0 .. N /\ n \in 0 .. N
    BY <1>1
  <2>2. some(n - 1) \in Seq(Seq(E)) /\ ss[n] \in Seq(E) /\ some(n) = Append(some(n - 1), ss[n])
    BY <1>1, <1>2, <1>3, <2>1
  <2>3. FlattenSeq(Append(some(n - 1), ss[n])) = FlattenSeq(some(n - 1)) \o ss[n]
    BY <2>2, FlattenAppend
  <2>4. QED
    BY <1>4, <2>1, <2>2, <2>3
<1>8. First(ss, N) = FlattenSeq(ss)
  <2>1. N \in 0 .. N
    BY <1>1
  <2>2. QED
    BY <1>1, <1>4, <2>1
<1>9. QED
  BY <1>5, <1>6, <1>7, <1>8 DEF N

\* What a PDU ends is where the one before it ended, and the length of its own.
LEMMA EndRecurs ==
    ASSUME NEW E, NEW ss \in Seq(Seq(E))
    PROVE  /\ endOf(ss, 0) = 0 /\ endOf(ss, Len(ss)) = Len(FlattenSeq(ss))
           /\ \A n \in 0 .. Len(ss) : endOf(ss, n) \in Nat
           /\ \A n \in 1 .. Len(ss) : endOf(ss, n) = endOf(ss, n - 1) + Len(ss[n])
<1>. DEFINE N == Len(ss)
<1>1. N \in Nat /\ \A n \in 1 .. N : ss[n] \in Seq(E) /\ Len(ss[n]) \in Nat
  OBVIOUS
<1>2. /\ First(ss, 0) = <<>> /\ First(ss, N) = FlattenSeq(ss)
      /\ \A n \in 0 .. N : First(ss, n) \in Seq(E)
      /\ \A n \in 1 .. N : First(ss, n) = First(ss, n - 1) \o ss[n]
  BY FirstRecurs
<1>. HIDE DEF N
<1>3. \A n \in 0 .. N : endOf(ss, n) \in Nat
  BY <1>2 DEF endOf
<1>4. ASSUME NEW n \in 1 .. N PROVE endOf(ss, n) = endOf(ss, n - 1) + Len(ss[n])
  <2>1. n - 1 \in 0 .. N
    BY <1>1
  <2>2. First(ss, n - 1) \in Seq(E) /\ ss[n] \in Seq(E) /\ First(ss, n) = First(ss, n - 1) \o ss[n]
    BY <1>1, <1>2, <2>1
  <2>3. Len(First(ss, n - 1) \o ss[n]) = Len(First(ss, n - 1)) + Len(ss[n])
    BY <2>2, ConcatProperties
  <2>4. QED
    BY <2>2, <2>3 DEF endOf
<1>5. endOf(ss, 0) = 0 /\ endOf(ss, N) = Len(FlattenSeq(ss))
  BY <1>2 DEF endOf
<1>6. QED
  BY <1>3, <1>4, <1>5 DEF N

\* The first PDUs stay as they are whatever comes behind them.
LEMMA FirstStays ==
    ASSUME NEW E, NEW ss \in Seq(Seq(E)), NEW n \in 0 .. Len(ss), NEW p \in n .. Len(ss)
    PROVE  /\ endOf(ss, n) <= endOf(ss, p)
           /\ \A i \in 1 .. endOf(ss, n) : First(ss, p)[i] = First(ss, n)[i]
<1>. DEFINE N == Len(ss)
            Good == {q \in Nat : q \in n .. N =>
                       /\ endOf(ss, n) <= endOf(ss, q)
                       /\ \A i \in 1 .. endOf(ss, n) : First(ss, q)[i] = First(ss, n)[i]}
<1>1. N \in Nat /\ n \in Nat /\ \A q \in 1 .. N : ss[q] \in Seq(E) /\ Len(ss[q]) \in Nat
  OBVIOUS
<1>2. /\ \A q \in 0 .. N : First(ss, q) \in Seq(E)
      /\ \A q \in 1 .. N : First(ss, q) = First(ss, q - 1) \o ss[q]
  BY FirstRecurs
<1>3. /\ \A q \in 0 .. N : endOf(ss, q) \in Nat
      /\ \A q \in 1 .. N : endOf(ss, q) = endOf(ss, q - 1) + Len(ss[q])
  BY EndRecurs
<1>4. n \in 0 .. N /\ p \in n .. N
  OBVIOUS
<1>. HIDE DEF N
<1>5. 0 \in Good
  <2>. SUFFICES ASSUME 0 \in n .. N
                PROVE  /\ endOf(ss, n) <= endOf(ss, 0)
                       /\ \A i \in 1 .. endOf(ss, n) : First(ss, 0)[i] = First(ss, n)[i]
    OBVIOUS
  <2>1. n = 0
    BY <1>1
  <2>2. endOf(ss, n) \in Nat
    BY <1>3, <1>4
  <2>3. QED
    BY <2>1, <2>2
<1>6. ASSUME NEW q \in Nat, q \in Good PROVE q + 1 \in Good
  <2>. SUFFICES ASSUME q + 1 \in n .. N
                PROVE  /\ endOf(ss, n) <= endOf(ss, q + 1)
                       /\ \A i \in 1 .. endOf(ss, n) : First(ss, q + 1)[i] = First(ss, n)[i]
    OBVIOUS
  <2>1. CASE q + 1 = n
    BY <1>3, <1>4, <2>1
  <2>2. CASE q + 1 # n
    <3>1. q \in n .. N /\ q \in 0 .. N /\ q + 1 \in 1 .. N /\ (q + 1) - 1 = q
      BY <1>1, <2>2
    <3>2. endOf(ss, n) <= endOf(ss, q) /\ \A i \in 1 .. endOf(ss, n) : First(ss, q)[i] = First(ss, n)[i]
      BY <1>6, <3>1
    <3>3. /\ First(ss, q + 1) = First(ss, q) \o ss[q + 1] /\ First(ss, q) \in Seq(E) /\ ss[q + 1] \in Seq(E)
          /\ endOf(ss, q + 1) = endOf(ss, q) + Len(ss[q + 1]) /\ Len(ss[q + 1]) \in Nat
          /\ endOf(ss, q) \in Nat /\ endOf(ss, n) \in Nat
      BY <1>1, <1>2, <1>3, <1>4, <3>1
    <3>4. \A i \in 1 .. endOf(ss, q) : First(ss, q + 1)[i] = First(ss, q)[i]
      <4>1. ASSUME NEW s \in Seq(E), NEW t \in Seq(E), NEW i \in 1 .. Len(s) PROVE (s \o t)[i] = s[i]
        BY <4>1
      <4>2. QED
        BY <3>3, <4>1 DEF endOf
    <3>5. \A i \in 1 .. endOf(ss, n) : i \in 1 .. endOf(ss, q)
      BY <3>2, <3>3
    <3>6. QED
      BY <3>2, <3>3, <3>4, <3>5
  <2>3. QED
    BY <2>1, <2>2
<1>7. Nat \subseteq Good
  <2>. HIDE DEF Good
  <2>1. QED
    BY <1>5, <1>6, Inducts
<1>8. p \in Nat
  BY <1>1, <1>4
<1>9. QED
  BY <1>4, <1>7, <1>8

\* Each PDU is in the stream, where it ought to be.
LEMMA InStream ==
    ASSUME NEW E, NEW ss \in Seq(Seq(E)), NEW n \in 1 .. Len(ss)
    PROVE  /\ endOf(ss, n) = endOf(ss, n - 1) + Len(ss[n])
           /\ endOf(ss, n - 1) \in Nat /\ endOf(ss, n) <= Len(FlattenSeq(ss))
           /\ \A i \in 1 .. Len(ss[n]) : FlattenSeq(ss)[endOf(ss, n - 1) + i] = ss[n][i]
<1>. DEFINE N == Len(ss)
            s == First(ss, n - 1)
            e == endOf(ss, n - 1)
<1>1. N \in Nat /\ n \in 0 .. N /\ n - 1 \in 0 .. N /\ N \in n .. N /\ ss[n] \in Seq(E) /\ Len(ss[n]) \in Nat
  OBVIOUS
<1>2. s \in Seq(E) /\ First(ss, n) = s \o ss[n] /\ First(ss, N) = FlattenSeq(ss)
  BY <1>1, FirstRecurs
<1>3. e \in Nat /\ endOf(ss, n) = e + Len(ss[n]) /\ endOf(ss, N) = Len(FlattenSeq(ss))
  BY <1>1, EndRecurs
<1>4. endOf(ss, n) <= endOf(ss, N) /\ \A i \in 1 .. endOf(ss, n) : First(ss, N)[i] = First(ss, n)[i]
  BY <1>1, FirstStays
<1>5. e = Len(s)
  BY DEF endOf
<1>. HIDE DEF N, s, e
<1>6. ASSUME NEW i \in 1 .. Len(ss[n]) PROVE FlattenSeq(ss)[e + i] = ss[n][i]
  <2>1. e + i \in 1 .. endOf(ss, n)
    BY <1>1, <1>3
  <2>2. FlattenSeq(ss)[e + i] = (s \o ss[n])[e + i]
    BY <1>2, <1>4, <2>1
  <2>3. ASSUME NEW a \in Seq(E), NEW b \in Seq(E), NEW j \in 1 .. Len(b) PROVE (a \o b)[Len(a) + j] = b[j]
    BY <2>3
  <2>4. QED
    BY <1>1, <1>2, <1>5, <2>2, <2>3
<1>7. QED
  BY <1>3, <1>4, <1>6 DEF e

-----------------------------------------------------------------------------
(* The rounds of next() over a stream.                                     *)

\* PDUs a peer can write: as long as their header says, or but a header.
Written(ss) ==
    /\ ss \in Seq(Seq(Units))
    /\ \A n \in 1 .. Len(ss) :
         Len(ss[n]) = IF framingRefusal(ss[n][1].says) THEN HeaderLength ELSE ss[n][1].says

\* Of the first g units of the stream, those behind PDU N were looked at.
Rest(ss, n, g) == SubSeq(FlattenSeq(ss), endOf(ss, n) + 1, g)

\* What was found are the PDUs behind the N-th, and the framer holds what is left.
Cut(found, ss, N, g) ==
    /\ found \in Founds
    /\ IF found.err THEN found.pdus = <<>>
       ELSE /\ N + Len(found.pdus) <= Len(ss)
            /\ endOf(ss, N + Len(found.pdus)) <= g
            /\ \A i \in 1 .. Len(found.pdus) : found.pdus[i] = ss[N + i]
            /\ Holds(found.framer, Rest(ss, N + Len(found.pdus), g))

\* No PDU is whole any more.
Done(found, ss, N, g) ==
    found.err \/ LET k == N + Len(found.pdus) IN k = Len(ss) \/ g < endOf(ss, k + 1)

\* A PDU has a header.
LEMMA PdusHaveHeaders ==
    ASSUME NEW ss, Written(ss), NEW n \in 1 .. Len(ss)
    PROVE  /\ ss[n] \in Seq(Units) /\ Len(ss[n]) \in Nat /\ HeaderLength <= Len(ss[n])
           /\ ss[n][1] \in Units /\ ss[n][1].says \in Nat
<1>1. HeaderLength \in Nat /\ 1 <= HeaderLength
  BY LengthsAssumption
<1>2. ss[n] \in Seq(Units) /\ Len(ss[n]) = IF framingRefusal(ss[n][1].says) THEN HeaderLength ELSE ss[n][1].says
  BY DEF Written
<1>3. Len(ss[n]) \in Nat
  BY <1>2
<1>4. HeaderLength <= Len(ss[n])
  <2>1. CASE framingRefusal(ss[n][1].says)
    BY <1>1, <1>2, <2>1
  <2>2. CASE ~framingRefusal(ss[n][1].says)
    <3>1. Len(ss[n]) = ss[n][1].says /\ ~(ss[n][1].says < HeaderLength)
      BY <1>2, <2>2 DEF framingRefusal
    <3>2. QED
      BY <1>1, <1>3, <3>1
  <2>3. QED
    BY <2>1, <2>2
<1>5. ss[n][1] \in Units
  BY <1>1, <1>2, <1>3, <1>4
<1>6. QED
  BY <1>2, <1>3, <1>4, <1>5 DEF Units

\* What is left behind a PDU, and what behind the next.
LEMMA RestIs ==
    ASSUME NEW ss, Written(ss), NEW n \in 0 .. Len(ss), NEW g \in Nat,
           endOf(ss, n) <= g, g <= Len(FlattenSeq(ss))
    PROVE  /\ Rest(ss, n, g) \in Seq(Units) /\ Len(Rest(ss, n, g)) = g - endOf(ss, n)
           /\ endOf(ss, n) \in Nat
           /\ \A i \in 1 .. g - endOf(ss, n) : Rest(ss, n, g)[i] = FlattenSeq(ss)[endOf(ss, n) + i]
<1>. DEFINE e == endOf(ss, n)
            s == FlattenSeq(ss)
            m == e + 1
<1>1. ss \in Seq(Seq(Units))
  BY DEF Written
<1>2. e \in Nat /\ s \in Seq(Units) /\ Len(s) \in Nat /\ e <= g /\ g <= Len(s)
  <2>1. s \in Seq(Units)
    BY <1>1, FlattenType
  <2>2. e \in Nat
    BY <1>1, EndRecurs
  <2>. HIDE DEF e, s
  <2>3. Len(s) \in Nat
    BY <2>1
  <2>4. QED
    BY <2>1, <2>2, <2>3 DEF e, s
<1>. HIDE DEF e, s
<1>3. m \in Int /\ g \in Int /\ m = e + 1 /\ \A i \in m .. g : s[i] \in Units
  BY <1>2
<1>. HIDE DEF m
<1>4. /\ SubSeq(s, m, g) \in Seq(Units)
      /\ Len(SubSeq(s, m, g)) = IF m <= g THEN g - m + 1 ELSE 0
      /\ \A i \in 1 .. g - m + 1 : SubSeq(s, m, g)[i] = s[m + i - 1]
  BY <1>3, SubSeqProperties
<1>5. g - m + 1 = g - e /\ (~(m <= g) => g - e = 0) /\ \A i \in 1 .. g - e : m + i - 1 = e + i
  BY <1>2, <1>3
<1>6. Rest(ss, n, g) = SubSeq(s, m, g)
  BY DEF Rest, m, e, s
<1>7. QED
  BY <1>2, <1>4, <1>5, <1>6 DEF e, s

\* With a header's worth of units or more, the rest begins with the next PDU.
LEMMA RestBegins ==
    ASSUME NEW ss, Written(ss), NEW n \in 0 .. Len(ss), NEW g \in Nat,
           endOf(ss, n) <= g, g <= Len(FlattenSeq(ss)), HeaderLength <= Len(Rest(ss, n, g))
    PROVE  /\ n + 1 \in 1 .. Len(ss)
           /\ Rest(ss, n, g)[1] = ss[n + 1][1]
           /\ endOf(ss, n + 1) = endOf(ss, n) + Len(ss[n + 1])
           /\ endOf(ss, n + 1) \in Nat
<1>. DEFINE e == endOf(ss, n)
<1>1. Len(Rest(ss, n, g)) = g - e /\ e \in Nat /\ \A i \in 1 .. g - e : Rest(ss, n, g)[i] = FlattenSeq(ss)[e + i]
  BY RestIs
<1>2. HeaderLength \in Nat /\ 1 <= HeaderLength /\ ss \in Seq(Seq(Units))
  BY LengthsAssumption DEF Written
<1>3. endOf(ss, Len(ss)) = Len(FlattenSeq(ss))
  BY <1>2, EndRecurs
<1>4. e < g /\ e <= g /\ Len(ss) \in Nat
  BY <1>1, <1>2
<1>5. n # Len(ss)
  BY <1>1, <1>3, <1>4
<1>6. n + 1 \in 1 .. Len(ss) /\ (n + 1) - 1 = n
  BY <1>4, <1>5
<1>7. /\ endOf(ss, n + 1) = e + Len(ss[n + 1])
      /\ \A i \in 1 .. Len(ss[n + 1]) : FlattenSeq(ss)[e + i] = ss[n + 1][i]
  BY <1>2, <1>6, InStream
<1>8. Len(ss[n + 1]) \in Nat /\ HeaderLength <= Len(ss[n + 1])
  BY <1>6, PdusHaveHeaders
<1>9. 1 \in 1 .. Len(ss[n + 1]) /\ 1 \in 1 .. g - e
  BY <1>1, <1>2, <1>4, <1>8
<1>10. e + Len(ss[n + 1]) \in Nat
  BY <1>1, <1>8
<1>. HIDE DEF e
<1>11. Rest(ss, n, g)[1] = ss[n + 1][1]
  <2>1. Rest(ss, n, g)[1] = FlattenSeq(ss)[e + 1]
    BY <1>1, <1>9
  <2>2. FlattenSeq(ss)[e + 1] = ss[n + 1][1]
    BY <1>7, <1>9
  <2>3. QED
    BY <2>1, <2>2
<1>12. QED
  BY <1>6, <1>7, <1>10, <1>11 DEF e

\* A whole PDU is cut off the rest, and leaves the rest behind it.
LEMMA RestSplits ==
    ASSUME NEW ss, Written(ss), NEW n \in 0 .. Len(ss), NEW g \in Nat,
           n + 1 \in 1 .. Len(ss), endOf(ss, n + 1) <= g, g <= Len(FlattenSeq(ss))
    PROVE  /\ SubSeq(Rest(ss, n, g), 1, Len(ss[n + 1])) = ss[n + 1]
           /\ SubSeq(Rest(ss, n, g), Len(ss[n + 1]) + 1, Len(Rest(ss, n, g))) = Rest(ss, n + 1, g)
<1>. DEFINE e == endOf(ss, n)
            u == Rest(ss, n, g)
            s == FlattenSeq(ss)
            p == ss[n + 1]
            z == Len(p)
            r == Rest(ss, n + 1, g)
<1>1. ss \in Seq(Seq(Units)) /\ (n + 1) - 1 = n /\ n + 1 \in 0 .. Len(ss)
  BY DEF Written
<1>2. endOf(ss, n + 1) = e + z /\ e \in Nat /\ \A i \in 1 .. z : s[e + i] = p[i]
  BY <1>1, InStream
<1>3. p \in Seq(Units) /\ z \in Nat
  BY PdusHaveHeaders
<1>4. e <= g /\ g <= Len(s)
  BY <1>2, <1>3
<1>5. u \in Seq(Units) /\ Len(u) = g - e /\ \A i \in 1 .. g - e : u[i] = s[e + i]
  BY <1>4, RestIs
<1>6. /\ r \in Seq(Units) /\ Len(r) = g - (e + z)
      /\ \A i \in 1 .. g - (e + z) : r[i] = s[(e + z) + i]
  <2>1. endOf(ss, n + 1) <= g
    OBVIOUS
  <2>. DEFINE m == n + 1
  <2>2. m \in 0 .. Len(ss) /\ endOf(ss, m) <= g
    BY <1>1
  <2>. HIDE DEF m
  <2>3. /\ Rest(ss, m, g) \in Seq(Units) /\ Len(Rest(ss, m, g)) = g - endOf(ss, m)
        /\ \A i \in 1 .. g - endOf(ss, m) : Rest(ss, m, g)[i] = FlattenSeq(ss)[endOf(ss, m) + i]
    BY <2>2, RestIs
  <2>4. QED
    BY <1>2, <2>3 DEF m
<1>7. z <= g - e
  BY <1>2, <1>3
<1>. HIDE DEF e, u, s, p, r
<1>8. SubSeq(u, 1, z) = p
  <2>1. /\ SubSeq(u, 1, z) \in Seq(Units) /\ Len(SubSeq(u, 1, z)) = z
        /\ \A i \in 1 .. z : SubSeq(u, 1, z)[i] = u[i]
    BY <1>3, <1>5, <1>7
  <2>2. \A i \in 1 .. z : u[i] = p[i]
    BY <1>2, <1>3, <1>5, <1>7
  <2>3. QED
    BY <1>3, <2>1, <2>2, SeqEqual
<1>9. SubSeq(u, z + 1, Len(u)) = r
  <2>1. Len(u) \in Nat /\ z <= Len(u) /\ Len(r) = Len(u) - z
    BY <1>2, <1>3, <1>5, <1>6, <1>7
  <2>. DEFINE m == z + 1
              v == Len(u)
  <2>2. m \in Int /\ v \in Int /\ m = z + 1 /\ v \in Nat /\ \A i \in m .. v : u[i] \in Units
    BY <1>3, <1>5, <2>1
  <2>3. v = Len(u)
    OBVIOUS
  <2>. HIDE DEF m, v, z
  <2>4. /\ SubSeq(u, m, v) \in Seq(Units)
        /\ Len(SubSeq(u, m, v)) = IF m <= v THEN v - m + 1 ELSE 0
        /\ \A i \in 1 .. v - m + 1 : SubSeq(u, m, v)[i] = u[m + i - 1]
    BY <2>2, SubSeqProperties
  <2>5. z \in Nat /\ v - m + 1 = v - z /\ (~(m <= v) => v - z = 0) /\ \A i \in 1 .. v - z : m + i - 1 = z + i
    BY <1>3, <2>1, <2>2, <2>3
  <2>6. SubSeq(u, m, v) \in Seq(Units) /\ Len(SubSeq(u, m, v)) = v - z /\ \A i \in 1 .. v - z : SubSeq(u, m, v)[i] = u[z + i]
    BY <2>4, <2>5
  <2>7. ASSUME NEW i \in 1 .. v - z PROVE u[z + i] = r[i]
    <3>1. z + i \in 1 .. g - e /\ i \in 1 .. g - (e + z) /\ e + (z + i) = (e + z) + i
      BY <1>2, <1>5, <2>2, <2>3, <2>5
    <3>2. u[z + i] = s[e + (z + i)] /\ r[i] = s[(e + z) + i]
      BY <1>5, <1>6, <3>1
    <3>3. QED
      BY <3>1, <3>2
  <2>8. SubSeq(u, m, v) = r
    <3>1. Len(SubSeq(u, m, v)) = Len(r) /\ \A i \in 1 .. Len(SubSeq(u, m, v)) : SubSeq(u, m, v)[i] = r[i]
      BY <2>1, <2>3, <2>6, <2>7
    <3>2. QED
      BY <1>6, <2>6, <3>1, SeqEqual
  <2>9. QED
    BY <2>2, <2>3, <2>8
<1>10. QED
  BY <1>8, <1>9 DEF u, p, r, z

\* A round keeps to the stream, and cuts a header's worth of it unless none is whole.
LEMMA RoundGoesOn ==
    ASSUME NEW ss, Written(ss), NEW N \in 0 .. Len(ss), NEW g \in Nat, g <= Len(FlattenSeq(ss)),
           NEW found, Cut(found, ss, N, g)
    PROVE  /\ Cut(Round(found), ss, N, g)
           /\ \/ Done(Round(found), ss, N, g)
              \/ ~Done(found, ss, N, g) /\ Round(found).framer.length + HeaderLength <= found.framer.length
<1>. DEFINE k == N + Len(found.pdus)
            u == Rest(ss, k, g)
            round == Round(found)
<1>1. found \in Founds /\ found.pdus \in Seq(Seq(Units)) /\ Len(found.pdus) \in Nat
  <2>1. found \in Founds /\ found.pdus \in Seq(Seq(Units))
    BY DEF Cut, Founds
  <2>2. QED
    BY <2>1
<1>2. CASE found.err
  <2>1. Holds(EmptyFramer, <<>>)
    BY EmptyHolds
  <2>2. Round(found) = found
    BY <1>2 DEF Round
  <2>3. Done(found, ss, N, g)
    BY <1>2 DEF Done
  <2>4. QED
    BY <2>2, <2>3
<1>3. CASE ~found.err
  <2>1. /\ k <= Len(ss) /\ endOf(ss, k) <= g /\ Holds(found.framer, u)
        /\ \A i \in 1 .. Len(found.pdus) : found.pdus[i] = ss[N + i]
    BY <1>3 DEF Cut
  <2>2. k \in 0 .. Len(ss) /\ k \in Nat /\ Len(ss) \in Nat /\ ss \in Seq(Seq(Units))
    <3>1. ss \in Seq(Seq(Units)) /\ N \in Nat /\ k <= Len(ss)
      BY <2>1 DEF Written
    <3>2. Len(ss) \in Nat
      BY <3>1
    <3>3. QED
      BY <1>1, <3>1, <3>2
  <2>3. u \in Seq(Units) /\ Len(u) = g - endOf(ss, k) /\ endOf(ss, k) \in Nat /\ found.framer.length = Len(u)
    <3>. HIDE DEF k
    <3>1. u \in Seq(Units) /\ Len(u) = g - endOf(ss, k) /\ endOf(ss, k) \in Nat
      BY <2>1, <2>2, RestIs
    <3>2. QED
      BY <2>1, <3>1 DEF Holds
  <2>4. HeaderLength \in Nat /\ 1 <= HeaderLength
    BY LengthsAssumption
  <2>5. Len(u) \in Nat
    BY <2>3
  <2>6. CASE Len(u) < HeaderLength
    <3>. HIDE DEF k, u
    <3>1. Round(found) = found
      BY <2>1, <2>6, NoRound
    <3>2. k = Len(ss) \/ g < endOf(ss, k + 1)
      <4>. SUFFICES ASSUME k # Len(ss) PROVE g < endOf(ss, k + 1)
        OBVIOUS
      <4>. DEFINE n == k + 1
      <4>1. n \in 1 .. Len(ss) /\ n - 1 = k
        BY <2>2
      <4>. HIDE DEF n
      <4>2. endOf(ss, n) = endOf(ss, k) + Len(ss[n])
        BY <2>2, <4>1, InStream
      <4>3. Len(ss[n]) \in Nat /\ HeaderLength <= Len(ss[n])
        BY <4>1, PdusHaveHeaders
      <4>4. g < endOf(ss, n)
        BY <2>3, <2>4, <2>6, <4>2, <4>3
      <4>5. QED
        BY <4>4 DEF n
    <3>3. Done(found, ss, N, g)
      BY <3>2 DEF Done, k
    <3>4. QED
      BY <3>1, <3>3
  <2>7. CASE HeaderLength <= Len(u)
    <3>. DEFINE n == k + 1
                says == u[1].says
    <3>1. /\ n \in 1 .. Len(ss) /\ u[1] = ss[n][1] /\ endOf(ss, n) = endOf(ss, k) + Len(ss[n])
          /\ endOf(ss, n) \in Nat
      <4>. HIDE DEF k
      <4>1. HeaderLength <= Len(Rest(ss, k, g))
        BY <2>7
      <4>2. QED
        BY <2>1, <2>2, <4>1, RestBegins
    <3>. HIDE DEF k, u
    <3>2. Len(ss[n]) = (IF framingRefusal(says) THEN HeaderLength ELSE says) /\ Len(ss[n]) \in Nat
      <4>1. Len(ss[n]) = IF framingRefusal(ss[n][1].says) THEN HeaderLength ELSE ss[n][1].says
        BY <3>1 DEF Written
      <4>2. Len(ss[n]) \in Nat
        BY <3>1, PdusHaveHeaders
      <4>3. QED
        BY <3>1, <4>1, <4>2
    <3>. HIDE DEF says
    <3>3. /\ round \in Founds
          /\ framingRefusal(says) => round.err /\ round.pdus = <<>>
          /\ ~framingRefusal(says) /\ Len(u) < says =>
               /\ ~round.err /\ round.pdus = found.pdus
               /\ Holds(round.framer, u)
          /\ ~framingRefusal(says) /\ says <= Len(u) =>
               /\ ~round.err
               /\ round.pdus = Append(found.pdus, SubSeq(u, 1, says))
               /\ Holds(round.framer, SubSeq(u, says + 1, Len(u)))
      <4>1. says = u[1].says
        BY DEF says
      <4>2. QED
        BY <1>1, <1>3, <2>1, <2>7, <4>1, RoundIs
    <3>. HIDE DEF round
    <3>4. CASE framingRefusal(says)
      <4>1. Cut(round, ss, N, g) /\ Done(round, ss, N, g)
        BY <3>3, <3>4 DEF Cut, Done
      <4>2. QED
        BY <4>1 DEF round
    <3>5. CASE ~framingRefusal(says) /\ Len(u) < says
      <4>1. Cut(round, ss, N, g)
        BY <2>1, <3>3, <3>5 DEF Cut, k, u
      <4>2. g < endOf(ss, n)
        BY <2>3, <3>1, <3>2, <3>5
      <4>3. Done(round, ss, N, g)
        BY <3>3, <3>5, <4>2 DEF Done, k
      <4>4. QED
        BY <4>1, <4>3 DEF round
    <3>6. CASE ~framingRefusal(says) /\ says <= Len(u)
      <4>1. Len(ss[n]) = says /\ endOf(ss, n) <= g
        BY <2>3, <3>1, <3>2, <3>6
      <4>2. n \in 0 .. Len(ss) /\ k + 1 \in 1 .. Len(ss) /\ endOf(ss, k + 1) <= g /\ n = k + 1
        BY <2>2, <3>1, <4>1
      <4>3. /\ SubSeq(Rest(ss, k, g), 1, Len(ss[k + 1])) = ss[k + 1]
            /\ SubSeq(Rest(ss, k, g), Len(ss[k + 1]) + 1, Len(Rest(ss, k, g))) = Rest(ss, k + 1, g)
        BY <2>2, <4>2, RestSplits
      <4>4. SubSeq(u, 1, says) = ss[n] /\ SubSeq(u, says + 1, Len(u)) = Rest(ss, n, g)
        BY <4>1, <4>3 DEF u
      <4>. HIDE DEF n
      <4>5. ~round.err /\ round.pdus = Append(found.pdus, ss[n]) /\ Holds(round.framer, Rest(ss, n, g))
        BY <3>3, <3>6, <4>4
      <4>6. ss[n] \in Seq(Units)
        BY <3>1, PdusHaveHeaders
      <4>7. /\ Len(round.pdus) = Len(found.pdus) + 1 /\ round.pdus[Len(found.pdus) + 1] = ss[n]
            /\ \A i \in 1 .. Len(found.pdus) : round.pdus[i] = found.pdus[i]
        BY <1>1, <4>5, <4>6
      <4>8. N + Len(round.pdus) = n /\ N + (Len(found.pdus) + 1) = n
        BY <1>1, <4>2, <4>7 DEF k
      <4>9. \A i \in 1 .. Len(round.pdus) : round.pdus[i] = ss[N + i]
        <5>1. ASSUME NEW i \in 1 .. Len(found.pdus) + 1 PROVE round.pdus[i] = ss[N + i]
          <6>1. CASE i = Len(found.pdus) + 1
            BY <4>7, <4>8, <6>1
          <6>2. CASE i # Len(found.pdus) + 1
            <7>1. i \in 1 .. Len(found.pdus)
              BY <1>1, <6>2
            <7>2. QED
              BY <2>1, <4>7, <7>1
          <6>3. QED
            BY <6>1, <6>2
        <5>2. QED
          BY <4>7, <5>1
      <4>10. Cut(round, ss, N, g)
        <5>1. n <= Len(ss)
          BY <2>2, <3>1
        <5>2. /\ N + Len(round.pdus) <= Len(ss) /\ endOf(ss, N + Len(round.pdus)) <= g
              /\ Holds(round.framer, Rest(ss, N + Len(round.pdus), g))
          BY <4>1, <4>5, <4>8, <5>1
        <5>3. round \in Founds /\ ~round.err
          BY <3>3, <4>5
        <5>. HIDE DEF round
        <5>4. QED
          BY <4>9, <5>2, <5>3 DEF Cut
      <4>11. ~Done(found, ss, N, g)
        <5>1. k # Len(ss) /\ ~(g < endOf(ss, k + 1))
          BY <2>2, <3>1, <4>1, <4>2
        <5>2. QED
          BY <1>3, <5>1 DEF Done, k
      <4>12. round.framer.length + HeaderLength <= found.framer.length
        <5>1. round.framer.length = Len(Rest(ss, n, g))
          BY <4>5 DEF Holds
        <5>2. Len(Rest(ss, n, g)) = g - endOf(ss, n)
          BY <4>1, <4>2, RestIs
        <5>3. HeaderLength <= Len(ss[n])
          BY <3>1, PdusHaveHeaders
        <5>4. ASSUME NEW a \in Nat, NEW b \in Nat, NEW c \in Nat, c = a + b, HeaderLength <= b
              PROVE  (g - c) + HeaderLength <= g - a
          BY <2>4, <5>4
        <5>5. (g - endOf(ss, n)) + HeaderLength <= g - endOf(ss, k)
          BY <2>3, <3>1, <3>2, <5>3, <5>4
        <5>6. QED
          BY <2>3, <5>1, <5>2, <5>5
      <4>13. QED
        BY <4>10, <4>11, <4>12 DEF round
    <3>7. Len(u) < says \/ says <= Len(u)
      <4>1. says \in Nat
        <5>1. ss[n][1].says \in Nat
          BY <3>1, PdusHaveHeaders
        <5>2. QED
          BY <3>1, <5>1 DEF says
      <4>2. QED
        BY <2>5, <4>1
    <3>8. QED
      BY <3>4, <3>5, <3>6, <3>7
  <2>8. QED
    BY <2>4, <2>5, <2>6, <2>7
<1>4. QED
  BY <1>2, <1>3

\* The rounds of next() are as many as it takes: what it returns keeps to the stream, and
\* no PDU is whole any more.
LEMMA NextCuts ==
    ASSUME NEW ss, Written(ss), NEW N \in 0 .. Len(ss), NEW g \in Nat, g <= Len(FlattenSeq(ss)),
           NEW fr, endOf(ss, N) <= g, Holds(fr, Rest(ss, N, g))
    PROVE  Cut(next(fr), ss, N, g) /\ Done(next(fr), ss, N, g)
<1>. DEFINE L == fr.length
            H == HeaderLength
            base == [framer |-> fr, pdus |-> <<>>, err |-> FALSE]
            Is(r) == r = [n \in 0 .. L |-> IF n = 0 THEN base ELSE Round(r[n - 1])]
            rounds == CHOOSE r : Is(r)
            V == {found \in Founds : Cut(found, ss, N, g)}
            step == [p \in (1 .. L) \X V |-> Round(p[2])]
<1>1. H \in Nat /\ 1 <= H
  BY LengthsAssumption
<1>2. fr \in Framers /\ L \in Nat
  BY DEF Holds, Framers
<1>3. base \in V
  <2>1. <<>> \in Seq(Seq(Units)) /\ Len(<<>>) = 0
    OBVIOUS
  <2>2. base \in Founds
    BY <1>2, <2>1 DEF Founds
  <2>3. ss \in Seq(Seq(Units)) /\ N \in Nat /\ N + 0 = N /\ N <= Len(ss)
    <3>1. ss \in Seq(Seq(Units))
      BY DEF Written
    <3>2. Len(ss) \in Nat
      BY <3>1
    <3>3. QED
      BY <3>1, <3>2
  <2>4. base.framer = fr /\ base.pdus = <<>> /\ base.err = FALSE /\ N + Len(base.pdus) = N
    BY <2>1, <2>3
  <2>. HIDE DEF base
  <2>5. \A i \in 1 .. Len(base.pdus) : base.pdus[i] = ss[N + i]
    BY <2>1, <2>4
  <2>6. Cut(base, ss, N, g)
    BY <2>2, <2>3, <2>4, <2>5 DEF Cut
  <2>7. QED
    BY <2>2, <2>6
<1>4. \A n \in 1 .. L, v \in V : step[<<n, v>>] = Round(v)
  OBVIOUS
<1>5. \A v \in V : Round(v) \in V
  <2>1. ASSUME NEW v \in V PROVE Round(v) \in V
    <3>1. Cut(v, ss, N, g)
      OBVIOUS
    <3>2. Cut(Round(v), ss, N, g)
      BY <3>1, RoundGoesOn
    <3>3. QED
      BY <3>2 DEF Cut
  <2>2. QED
    BY <2>1
<1>6. step \in [(1 .. L) \X V -> V]
  <2>. HIDE DEF V
  <2>1. QED
    BY <1>5
<1>7. next(fr) = rounds[L \div H]
  BY DEF next
<1>. HIDE DEF step, V, base, L, H
<1>8. PICK f : Steps(f, L, V, base, step)
  BY <1>2, <1>3, <1>6, Recurs
<1>9. f \in [0 .. L -> V] /\ f[0] = base /\ \A n \in 1 .. L : f[n] = step[<<n, f[n - 1]>>]
  BY <1>8 DEF Steps
<1>10. \A n \in 1 .. L : n - 1 \in 0 .. L /\ n \in 0 .. L
  BY <1>2
<1>11. \A n \in 1 .. L : f[n] = Round(f[n - 1])
  BY <1>4, <1>9, <1>10
<1>12. Is(f)
  <2>1. \A n \in 0 .. L : f[n] = IF n = 0 THEN base ELSE Round(f[n - 1])
    <3>1. \A n \in 0 .. L : n # 0 => n \in 1 .. L
      BY <1>2
    <3>2. QED
      BY <1>9, <1>11, <3>1
  <2>2. QED
    BY <1>9, <2>1
<1>13. Is(rounds)
  BY <1>12
<1>. HIDE DEF rounds
<1>14. \A n \in 0 .. L : rounds[n] = IF n = 0 THEN base ELSE Round(rounds[n - 1])
  BY <1>13
<1>15. rounds[0] = base /\ \A n \in 1 .. L : rounds[n] = Round(rounds[n - 1])
  <2>1. 0 \in 0 .. L /\ \A n \in 1 .. L : n \in 0 .. L /\ n # 0
    BY <1>2
  <2>2. QED
    BY <1>14, <2>1
<1>. DEFINE GetsOn(n) == /\ rounds[n] \in V
                         /\ \/ Done(rounds[n], ss, N, g)
                            \/ n * H + rounds[n].framer.length <= L
            Good == {n \in Nat : n <= L => GetsOn(n)}
<1>16. 0 \in Good
  <2>1. rounds[0] \in V /\ rounds[0].framer.length = L
    BY <1>3, <1>15 DEF base, L
  <2>2. 0 * H + L <= L
    BY <1>1, <1>2
  <2>3. QED
    BY <2>1, <2>2
<1>17. ASSUME NEW n \in Nat, n \in Good PROVE n + 1 \in Good
  <2>. SUFFICES ASSUME n + 1 <= L PROVE GetsOn(n + 1)
    OBVIOUS
  <2>. DEFINE was == rounds[n]
              is == rounds[n + 1]
  <2>1. n + 1 \in 1 .. L /\ (n + 1) - 1 = n /\ n <= L
    BY <1>2
  <2>2. GetsOn(n) /\ is = Round(was)
    <3>1. GetsOn(n)
      BY <1>17, <2>1
    <3>2. rounds[n + 1] = Round(rounds[(n + 1) - 1])
      BY <1>15, <2>1
    <3>3. QED
      BY <2>1, <3>1, <3>2
  <2>3. Cut(was, ss, N, g) /\ was \in V
    BY <2>2 DEF V
  <2>4. is \in V
    BY <1>5, <2>2, <2>3
  <2>5. \/ Done(is, ss, N, g)
        \/ ~Done(was, ss, N, g) /\ is.framer.length + H <= was.framer.length
    BY <2>2, <2>3, RoundGoesOn DEF H
  <2>6. CASE Done(is, ss, N, g)
    BY <2>4, <2>6
  <2>7. CASE ~Done(was, ss, N, g) /\ is.framer.length + H <= was.framer.length
    <3>1. n * H + was.framer.length <= L
      BY <2>2, <2>7
    <3>2. is.framer.length \in Nat /\ was.framer.length \in Nat
      BY <2>3, <2>4 DEF V, Founds, Framers
    <3>3. n * H \in Nat /\ (n + 1) * H = n * H + H
      BY <1>1
    <3>. HIDE DEF is, was
    <3>4. (n + 1) * H + is.framer.length <= L
      <4>1. ASSUME NEW a \in Nat, NEW x \in Nat, NEW y \in Nat, x + H <= y, a + y <= L
            PROVE  (a + H) + x <= L
        BY <1>1, <1>2, <4>1
      <4>. DEFINE a == n * H
      <4>2. a \in Nat /\ a + was.framer.length <= L /\ (n + 1) * H = a + H
        BY <3>1, <3>3
      <4>. HIDE DEF a
      <4>3. (a + H) + is.framer.length <= L
        BY <2>7, <3>2, <4>1, <4>2
      <4>4. QED
        BY <4>2, <4>3
    <3>5. QED
      BY <2>4, <3>4 DEF is
  <2>8. QED
    BY <2>5, <2>6, <2>7
<1>18. Nat \subseteq Good
  <2>. HIDE DEF Good
  <2>1. QED
    BY <1>16, <1>17, Inducts
<1>. DEFINE q == L \div H
            last == rounds[q]
<1>19. q \in Nat /\ q <= L /\ L < q * H + H /\ q * H \in Nat
  <2>1. L \in Nat /\ H \in Nat /\ 1 <= H
    BY <1>1, <1>2
  <2>2. L \div H \in Nat
    BY <2>1
  <2>3. L < (L \div H) * H + H
    BY <2>1, SMTT(30)
  <2>4. L \div H <= L
    BY <2>1
  <2>5. q * H \in Nat
    BY <2>1, <2>2
  <2>6. QED
    BY <2>2, <2>3, <2>4, <2>5
<1>20. GetsOn(q)
  <2>. HIDE DEF q
  <2>1. QED
    BY <1>18, <1>19
<1>. HIDE DEF q
<1>21. Cut(last, ss, N, g) /\ last \in Founds
  BY <1>20 DEF V
<1>22. Done(last, ss, N, g)
  <2>. SUFFICES ASSUME ~Done(last, ss, N, g) PROVE FALSE
    OBVIOUS
  <2>. DEFINE k == N + Len(last.pdus)
  <2>1. q * H + last.framer.length <= L
    BY <1>20
  <2>2. ~last.err /\ k # Len(ss) /\ ~(g < endOf(ss, k + 1))
    BY DEF Done
  <2>3. k <= Len(ss) /\ endOf(ss, k) <= g /\ Holds(last.framer, Rest(ss, k, g))
    BY <1>21, <2>2 DEF Cut
  <2>4. ss \in Seq(Seq(Units)) /\ last.pdus \in Seq(Seq(Units))
    BY <1>21 DEF Written, Founds
  <2>5. k \in 0 .. Len(ss) /\ k + 1 \in 1 .. Len(ss) /\ (k + 1) - 1 = k
    <3>1. Len(ss) \in Nat /\ Len(last.pdus) \in Nat /\ N \in Nat
      BY <2>4
    <3>2. QED
      BY <2>2, <2>3, <3>1
  <2>. HIDE DEF k
  <2>. DEFINE n == k + 1
  <2>6. n \in 1 .. Len(ss) /\ n - 1 = k /\ ~(g < endOf(ss, n))
    BY <2>2, <2>5
  <2>. HIDE DEF n
  <2>7. endOf(ss, n) = endOf(ss, k) + Len(ss[n])
    BY <2>4, <2>6, InStream
  <2>8. Len(ss[n]) \in Nat /\ H <= Len(ss[n])
    BY <2>6, PdusHaveHeaders DEF H
  <2>9. Len(Rest(ss, k, g)) = g - endOf(ss, k) /\ endOf(ss, k) \in Nat
    BY <2>3, <2>5, RestIs
  <2>10. last.framer.length = Len(Rest(ss, k, g)) /\ last.framer.length \in Nat
    BY <2>3 DEF Holds, Framers
  <2>. HIDE DEF last
  <2>11. H <= last.framer.length
    BY <1>1, <2>6, <2>7, <2>8, <2>9, <2>10
  <2>12. QED
    BY <1>1, <1>2, <1>19, <2>1, <2>10, <2>11
<1>23. next(fr) = last
  BY <1>7 DEF q
<1>24. QED
  BY <1>21, <1>22, <1>23

-----------------------------------------------------------------------------
(* The PDUs a peer wrote, and what of them was read and handed over.       *)

Sends == Seq([length : Nat, readable : BOOLEAN])
Parsed == [units : Seq(Units), readable : BOOLEAN]

\* unitsOf() of the n-th of the PDUs s, on the link of that number; and all of them.
unitsIn(num, s, n) ==
    [i \in 1 .. size(s[n]) |-> [link |-> num, pdu |-> n, at |-> i, says |-> s[n].length]]

pdusOf(num, s) == [n \in DOMAIN s |-> unitsIn(num, s, n)]

\* Of the PDUs ss, written as s, g units were read, and h handed over.
Heard(ss, s, g, h) ==
    /\ g \in Nat /\ g <= Len(FlattenSeq(ss))
    /\ h \in Seq(Parsed) /\ Len(h) <= Len(ss) /\ endOf(ss, Len(h)) <= g
    /\ \A n \in 1 .. Len(h) : h[n] = [units |-> ss[n], readable |-> s[n].readable]

\* The framer holds what is behind the n-th, and that is no whole PDU.
Waits(ss, g, fr, n) ==
    Holds(fr, Rest(ss, n, g)) /\ (n = Len(ss) \/ g < endOf(ss, n + 1))

\* What a PDU is in units.
LEMMA UnitsAre ==
    ASSUME NEW num \in Nat, NEW s \in Sends, NEW n \in 1 .. Len(s)
    PROVE  /\ unitsIn(num, s, n) \in Seq(Units) /\ Len(unitsIn(num, s, n)) = size(s[n])
           /\ unitsIn(num, s, n)[1].pdu = n /\ unitsIn(num, s, n)[1].says = s[n].length
<1>1. s[n] \in [length : Nat, readable : BOOLEAN]
  <2>. DEFINE E == [length : Nat, readable : BOOLEAN]
  <2>1. s \in Seq(E)
    BY DEF Sends
  <2>. HIDE DEF E
  <2>2. s[n] \in E
    BY <2>1
  <2>3. QED
    BY <2>2 DEF E
<1>2. s[n].length \in Nat
  BY <1>1
<1>3. size(s[n]) \in Nat /\ 1 <= size(s[n])
  <2>1. HeaderLength \in Nat /\ 1 <= HeaderLength
    BY LengthsAssumption
  <2>2. CASE framingRefusal(s[n].length)
    BY <2>1, <2>2 DEF size
  <2>3. CASE ~framingRefusal(s[n].length)
    BY <1>2, <2>1, <2>3 DEF size, framingRefusal
  <2>4. QED
    BY <2>2, <2>3
<1>4. \A i \in 1 .. size(s[n]) : [link |-> num, pdu |-> n, at |-> i, says |-> s[n].length] \in Units
  <2>1. n \in Nat /\ \A i \in 1 .. size(s[n]) : i \in Nat
    BY <1>3
  <2>2. QED
    BY <1>2, <2>1 DEF Units
<1>5. unitsIn(num, s, n) \in [1 .. size(s[n]) -> Units]
  BY <1>4 DEF unitsIn
<1>6. unitsIn(num, s, n) \in Seq(Units) /\ Len(unitsIn(num, s, n)) = size(s[n])
  BY <1>3, <1>5
<1>7. 1 \in 1 .. size(s[n])
  BY <1>3
<1>8. unitsIn(num, s, n)[1] = [link |-> num, pdu |-> n, at |-> 1, says |-> s[n].length]
  BY <1>7 DEF unitsIn
<1>9. QED
  BY <1>6, <1>8

\* The PDUs are written as their headers say.
LEMMA PdusWritten ==
    ASSUME NEW num \in Nat, NEW s \in Sends
    PROVE  /\ Written(pdusOf(num, s)) /\ Len(pdusOf(num, s)) = Len(s)
           /\ \A n \in 1 .. Len(s) : pdusOf(num, s)[n] = unitsIn(num, s, n) /\ pdusOf(num, s)[n][1].pdu = n
<1>. DEFINE ss == pdusOf(num, s)
            N == Len(s)
<1>1. N \in Nat /\ DOMAIN s = 1 .. N
  BY DEF Sends
<1>2. \A n \in 1 .. N : ss[n] = unitsIn(num, s, n)
  BY <1>1 DEF pdusOf
<1>3. ss \in [1 .. N -> Seq(Units)]
  <2>1. \A n \in 1 .. N : unitsIn(num, s, n) \in Seq(Units)
    BY UnitsAre
  <2>2. QED
    BY <1>1, <2>1 DEF pdusOf
<1>4. ss \in Seq(Seq(Units)) /\ Len(ss) = N
  BY <1>1, <1>3
<1>5. ASSUME NEW n \in 1 .. N
      PROVE  /\ Len(ss[n]) = IF framingRefusal(ss[n][1].says) THEN HeaderLength ELSE ss[n][1].says
             /\ ss[n][1].pdu = n
  <2>1. Len(unitsIn(num, s, n)) = size(s[n]) /\ unitsIn(num, s, n)[1].pdu = n /\ unitsIn(num, s, n)[1].says = s[n].length
    BY UnitsAre
  <2>2. QED
    BY <1>2, <2>1 DEF size
<1>6. QED
  <2>. HIDE DEF ss, N
  <2>1. Written(ss)
    BY <1>4, <1>5 DEF Written
  <2>2. QED
    BY <1>2, <1>4, <1>5, <2>1 DEF ss, N

\* A PDU more changes nothing of those before it.
LEMMA PdusGrow ==
    ASSUME NEW num \in Nat, NEW s \in Sends, NEW x \in [length : Nat, readable : BOOLEAN],
           NEW g \in Nat, g <= Len(FlattenSeq(pdusOf(num, s)))
    PROVE  /\ Append(s, x) \in Sends
           /\ Len(FlattenSeq(pdusOf(num, s))) <= Len(FlattenSeq(pdusOf(num, Append(s, x))))
           /\ \A n \in 1 .. Len(s) : pdusOf(num, Append(s, x))[n] = pdusOf(num, s)[n]
           /\ \A n \in 0 .. Len(s) :
                /\ endOf(pdusOf(num, Append(s, x)), n) = endOf(pdusOf(num, s), n)
                /\ endOf(pdusOf(num, s), n) <= g =>
                     Rest(pdusOf(num, Append(s, x)), n, g) = Rest(pdusOf(num, s), n, g)
<1>. DEFINE more == Append(s, x)
            ss == pdusOf(num, s)
            mm == pdusOf(num, more)
            N == Len(s)
<1>1. N \in Nat /\ more \in Sends /\ Len(more) = N + 1 /\ \A n \in 1 .. N : more[n] = s[n]
  BY DEF Sends
<1>2. /\ Written(ss) /\ Len(ss) = N
      /\ \A n \in 1 .. N : ss[n] = unitsIn(num, s, n)
  BY PdusWritten
<1>3. /\ Written(mm) /\ Len(mm) = N + 1
      /\ \A n \in 1 .. N + 1 : mm[n] = unitsIn(num, more, n)
  <2>. HIDE DEF more
  <2>1. /\ Written(mm) /\ Len(mm) = Len(more)
        /\ \A n \in 1 .. Len(more) : mm[n] = unitsIn(num, more, n)
    BY <1>1, PdusWritten
  <2>2. QED
    BY <1>1, <2>1
<1>4. \A n \in 1 .. N : mm[n] = ss[n]
  <2>1. ASSUME NEW n \in 1 .. N PROVE mm[n] = ss[n]
    <3>1. n \in 1 .. N + 1 /\ more[n] = s[n]
      BY <1>1
    <3>. HIDE DEF more, ss, mm
    <3>2. unitsIn(num, more, n) = unitsIn(num, s, n)
      BY <3>1 DEF unitsIn
    <3>3. QED
      BY <1>2, <1>3, <3>1, <3>2
  <2>2. QED
    BY <2>1
<1>5. ss \in Seq(Seq(Units)) /\ mm \in Seq(Seq(Units))
  BY <1>2, <1>3 DEF Written
<1>. HIDE DEF more, ss, mm, N
<1>6. \A n \in 0 .. N : First(mm, n) = First(ss, n)
  <2>1. ASSUME NEW n \in 0 .. N PROVE First(mm, n) = First(ss, n)
    <3>1. \A m \in 1 .. n : m \in 1 .. N
      BY <1>1
    <3>2. [m \in 1 .. n |-> mm[m]] = [m \in 1 .. n |-> ss[m]]
      BY <1>4, <3>1
    <3>3. QED
      BY <3>2 DEF First
  <2>2. QED
    BY <2>1
<1>7. \A n \in 0 .. N : endOf(mm, n) = endOf(ss, n)
  BY <1>6 DEF endOf
<1>8. /\ N \in 0 .. Len(ss) /\ N \in 0 .. Len(mm) /\ Len(mm) \in N .. Len(mm)
  BY <1>1, <1>2, <1>3
<1>9. First(ss, N) = FlattenSeq(ss) /\ First(mm, Len(mm)) = FlattenSeq(mm)
  BY <1>2, <1>5, FirstRecurs
<1>10. /\ endOf(mm, N) <= endOf(mm, Len(mm))
       /\ \A i \in 1 .. endOf(mm, N) : First(mm, Len(mm))[i] = First(mm, N)[i]
  BY <1>5, <1>8, FirstStays
<1>11. N \in 0 .. N
  BY <1>1
<1>12. /\ Len(FlattenSeq(ss)) <= Len(FlattenSeq(mm))
       /\ \A i \in 1 .. Len(FlattenSeq(ss)) : FlattenSeq(mm)[i] = FlattenSeq(ss)[i]
  BY <1>6, <1>9, <1>10, <1>11 DEF endOf
<1>13. FlattenSeq(ss) \in Seq(Units) /\ FlattenSeq(mm) \in Seq(Units)
  BY <1>5, FlattenType
<1>14. g <= Len(FlattenSeq(ss)) /\ g <= Len(FlattenSeq(mm))
  <2>1. g <= Len(FlattenSeq(ss)) /\ Len(FlattenSeq(ss)) \in Nat /\ Len(FlattenSeq(mm)) \in Nat
    BY <1>13 DEF ss
  <2>2. QED
    BY <1>12, <2>1
<1>15. ASSUME NEW n \in 0 .. N, endOf(ss, n) <= g PROVE Rest(mm, n, g) = Rest(ss, n, g)
  <2>. DEFINE e == endOf(ss, n)
              u == Rest(ss, n, g)
              v == Rest(mm, n, g)
  <2>1. n \in 0 .. Len(ss) /\ n \in 0 .. Len(mm) /\ endOf(mm, n) = e /\ endOf(mm, n) <= g
    BY <1>1, <1>2, <1>3, <1>7, <1>15
  <2>2. u \in Seq(Units) /\ Len(u) = g - e /\ e \in Nat /\ \A i \in 1 .. g - e : u[i] = FlattenSeq(ss)[e + i]
    BY <1>2, <1>14, <1>15, <2>1, RestIs
  <2>3. v \in Seq(Units) /\ Len(v) = g - e /\ \A i \in 1 .. g - e : v[i] = FlattenSeq(mm)[e + i]
    <3>1. /\ v \in Seq(Units) /\ Len(v) = g - endOf(mm, n)
          /\ \A i \in 1 .. g - endOf(mm, n) : v[i] = FlattenSeq(mm)[endOf(mm, n) + i]
      BY <1>3, <1>14, <2>1, RestIs
    <3>2. QED
      BY <2>1, <3>1
  <2>. HIDE DEF e, u, v
  <2>4. ASSUME NEW i \in 1 .. Len(v) PROVE v[i] = u[i]
    <3>1. i \in 1 .. g - e /\ e + i \in 1 .. g
      BY <2>2, <2>3
    <3>2. e + i \in 1 .. Len(FlattenSeq(ss))
      <4>1. Len(FlattenSeq(ss)) \in Nat
        BY <1>13
      <4>2. QED
        BY <1>14, <3>1, <4>1
    <3>3. QED
      BY <1>12, <2>2, <2>3, <3>1, <3>2
  <2>5. v = u
    BY <2>2, <2>3, <2>4, SeqEqual
  <2>6. QED
    BY <2>5 DEF u, v
<1>16. QED
  BY <1>1, <1>4, <1>7, <1>12, <1>15 DEF more, ss, mm, N

\* The links' numbers, and which operations leave them alone.
LEMMA Numbers ==
    ASSUME NEW l \in Links
    PROVE  /\ number(l) \in Nat
           /\ drop(l) \in Links /\ number(drop(l)) = number(l) /\ ~isAttached(drop(l))
           /\ end(drop(l)) \in Links /\ number(end(drop(l))) = number(l) /\ ~isAttached(end(drop(l)))
           /\ stop(l) \in Links /\ number(stop(l)) = number(l) /\ isAttached(stop(l)) = isAttached(l)
           /\ open(l) \in Links /\ isAttached(open(l))
           /\ isAttached(l) => number(open(l)) = number(l)
<1>1. l.drops \in Nat /\ l.drops + 1 \in Nat /\ l.phase \in Phases
  BY DEF Links
<1>2. number(l) \in Nat
  BY <1>1 DEF number
<1>3. drop(l) \in Links /\ end(drop(l)) \in Links /\ stop(l) \in Links /\ open(l) \in Links
  BY DropLink, EndLink, StopLink, OpenLink
<1>4. number(drop(l)) = number(l) /\ ~isAttached(drop(l))
  <2>1. CASE isAttached(l)
    <3>1. drop(l).phase = "down" /\ drop(l).drops = l.drops + 1
      BY <1>1, <2>1 DEF drop, Links
    <3>2. QED
      BY <2>1, <3>1 DEF number, isAttached
  <2>2. CASE ~isAttached(l)
    BY <2>2 DEF drop
  <2>3. QED
    BY <2>1, <2>2
<1>5. number(end(drop(l))) = number(l) /\ ~isAttached(end(drop(l)))
  <2>1. end(drop(l)).phase = "ended" /\ end(drop(l)).drops = drop(l).drops
    BY <1>3 DEF end, Links
  <2>2. QED
    BY <1>4, <2>1 DEF number, isAttached
<1>6. stop(l).phase = l.phase /\ stop(l).drops = l.drops /\ open(l).phase = "up" /\ open(l).drops = l.drops
  BY DEF stop, open, Links
<1>7. QED
  BY <1>2, <1>3, <1>4, <1>5, <1>6 DEF number, isAttached

\* What is handed over is what the peer wrote on the link, and the framer of a link that
\* is kept holds what else was read, which is less than a PDU.
Framed ==
    /\ link \in Links /\ sent \in Sends
    /\ sock = "open" => isAttached(link)
    /\ Heard(pdusOf(number(link), sent), sent, got, handed)
    /\ isAttached(link) => Waits(pdusOf(number(link), sent), got, framer, Len(handed))

\* The stream of the model is that of its PDUs.
LEMMA StreamIs ==
    ASSUME link \in Links, sent \in Sends
    PROVE  /\ number(link) \in Nat
           /\ stream = FlattenSeq(pdusOf(number(link), sent))
           /\ \A n \in 1 .. Len(sent) : unitsOf(n) = pdusOf(number(link), sent)[n]
<1>1. number(link) \in Nat
  BY Numbers
<1>2. \A n : unitsOf(n) = unitsIn(number(link), sent, n)
  BY DEF unitsOf, unitsIn
<1>3. DOMAIN sent = 1 .. Len(sent)
  BY DEF Sends
<1>4. stream = FlattenSeq(pdusOf(number(link), sent))
  BY <1>2 DEF stream, pdusOf
<1>5. QED
  BY <1>1, <1>2, <1>3, <1>4 DEF pdusOf

\* Nothing was written, nothing read and nothing handed over.
LEMMA NothingHeard ==
    ASSUME NEW num \in Nat
    PROVE  Heard(pdusOf(num, <<>>), <<>>, 0, <<>>) /\ Waits(pdusOf(num, <<>>), 0, EmptyFramer, 0)
<1>. DEFINE s == <<>>
            ss == pdusOf(num, s)
<1>1. s \in Sends /\ Len(s) = 0 /\ s \in Seq(Parsed)
  BY DEF Sends
<1>2. Written(ss) /\ Len(ss) = 0
  <2>. HIDE DEF s
  <2>1. QED
    BY <1>1, PdusWritten
<1>. HIDE DEF ss
<1>3. ss \in Seq(Seq(Units))
  BY <1>2 DEF Written
<1>4. endOf(ss, 0) = 0 /\ endOf(ss, 0) = Len(FlattenSeq(ss)) /\ First(ss, 0) = <<>> /\ First(ss, 0) = FlattenSeq(ss)
  BY <1>2, <1>3, EndRecurs, FirstRecurs
<1>5. 0 \in Nat /\ 0 \in 0 .. Len(ss) /\ endOf(ss, 0) <= 0 /\ 0 <= Len(FlattenSeq(ss))
  BY <1>2, <1>4
<1>6. Rest(ss, 0, 0) \in Seq(Units) /\ Len(Rest(ss, 0, 0)) = 0
  <2>. DEFINE n == 0
              g == 0
  <2>1. n \in 0 .. Len(ss) /\ g \in Nat /\ endOf(ss, n) <= g /\ g <= Len(FlattenSeq(ss)) /\ g - endOf(ss, n) = 0
    BY <1>4, <1>5
  <2>. HIDE DEF n, g
  <2>2. Rest(ss, n, g) \in Seq(Units) /\ Len(Rest(ss, n, g)) = 0
    BY <1>2, <2>1, RestIs
  <2>3. QED
    BY <2>2 DEF n, g
<1>7. Rest(ss, 0, 0) = <<>>
  BY <1>6
<1>8. Holds(EmptyFramer, Rest(ss, 0, 0))
  BY <1>7, EmptyHolds
<1>9. Waits(ss, 0, EmptyFramer, 0)
  BY <1>2, <1>8 DEF Waits
<1>10. Heard(ss, s, 0, s)
  <2>1. Len(s) <= Len(ss) /\ endOf(ss, Len(s)) <= 0 /\ \A n \in 1 .. Len(s) : FALSE
    BY <1>1, <1>2, <1>5
  <2>. HIDE DEF s
  <2>2. QED
    BY <1>1, <1>5, <2>1 DEF Heard
<1>11. QED
  BY <1>9, <1>10 DEF ss

\* Steps that read nothing, write nothing and put no socket on the link.
LEMMA FramedStays ==
    ASSUME Framed, UNCHANGED <<sent, got, framer, handed>>,
           link' \in Links, number(link') = number(link),
           isAttached(link') => isAttached(link),
           sock' = "open" => sock = "open" /\ isAttached(link')
    PROVE  Framed'
  BY DEF Framed

\* What loses a link, or ends the session, reads nothing.
LEMMA LosesLink ==
    ASSUME Framed, UNCHANGED <<sent, got, framer, handed>>, link' \in {drop(link), end(drop(link))},
           sock' # "open"
    PROVE  Framed'
<1>1. link \in Links
  BY DEF Framed
<1>2. link' \in Links /\ number(link') = number(link) /\ ~isAttached(link')
  BY <1>1, Numbers
<1>3. QED
  BY <1>2, FramedStays

\* A PDU more is behind those that were read.
LEMMA WritesFramed ==
    ASSUME Framed, PeerWrites
    PROVE  Framed'
<1>1. PICK length \in Lengths, readable \in BOOLEAN :
        sent' = Append(sent, [length |-> length, readable |-> readable])
  BY DEF PeerWrites
<1>. DEFINE x == [length |-> length, readable |-> readable]
            num == number(link)
            ss == pdusOf(num, sent)
            mm == pdusOf(num, Append(sent, x))
            k == Len(handed)
            N == Len(sent)
<1>2. x \in [length : Nat, readable : BOOLEAN]
  BY LengthsWritten
<1>. HIDE DEF x
<1>3. sent' = Append(sent, x) /\ UNCHANGED <<link, sock, got, framer, handed>> /\ isAttached(link)
  BY <1>1 DEF PeerWrites, Framed, x
<1>4. /\ link \in Links /\ sent \in Sends /\ num \in Nat
      /\ Heard(ss, sent, got, handed) /\ Waits(ss, got, framer, k)
  BY <1>3, Numbers DEF Framed
<1>5. /\ Written(ss) /\ Len(ss) = N /\ N \in Nat
  <2>1. N \in Nat
    BY <1>4 DEF Sends
  <2>2. QED
    BY <1>4, <2>1, PdusWritten
<1>6. /\ got \in Nat /\ got <= Len(FlattenSeq(ss)) /\ k <= N /\ k \in Nat /\ handed \in Seq(Parsed)
      /\ endOf(ss, k) <= got
      /\ \A n \in 1 .. k : handed[n] = [units |-> ss[n], readable |-> sent[n].readable]
  <2>1. handed \in Seq(Parsed)
    BY <1>4 DEF Heard
  <2>2. k \in Nat
    BY <2>1
  <2>3. QED
    BY <1>4, <1>5, <2>1, <2>2 DEF Heard
<1>7. /\ Append(sent, x) \in Sends
      /\ Len(FlattenSeq(ss)) <= Len(FlattenSeq(mm))
      /\ \A n \in 1 .. N : mm[n] = ss[n]
      /\ \A n \in 0 .. N :
           endOf(mm, n) = endOf(ss, n) /\ (endOf(ss, n) <= got => Rest(mm, n, got) = Rest(ss, n, got))
  BY <1>2, <1>4, <1>6, PdusGrow
<1>8. Written(mm) /\ Len(mm) = Len(Append(sent, x))
  <2>. DEFINE s == Append(sent, x)
  <2>1. s \in Sends
    BY <1>7
  <2>. HIDE DEF s
  <2>2. Written(pdusOf(num, s)) /\ Len(pdusOf(num, s)) = Len(s)
    BY <1>4, <2>1, PdusWritten
  <2>3. QED
    BY <2>2 DEF s
<1>9. /\ Len(mm) = N + 1
      /\ \A n \in 1 .. N : Append(sent, x)[n] = sent[n]
  BY <1>4, <1>8 DEF Sends
<1>10. ss \in Seq(Seq(Units)) /\ mm \in Seq(Seq(Units))
  BY <1>5, <1>8 DEF Written
<1>. HIDE DEF ss, mm, k, N
<1>11. Len(FlattenSeq(ss)) \in Nat /\ Len(FlattenSeq(mm)) \in Nat
  <2>1. FlattenSeq(ss) \in Seq(Units) /\ FlattenSeq(mm) \in Seq(Units)
    BY <1>10, FlattenType
  <2>2. QED
    BY <2>1
<1>12. k \in 0 .. N /\ \A n \in 1 .. k : n \in 1 .. N
  BY <1>5, <1>6
<1>13. Heard(mm, Append(sent, x), got, handed)
  <2>1. got <= Len(FlattenSeq(mm)) /\ k <= Len(mm) /\ endOf(mm, k) <= got
    BY <1>5, <1>6, <1>7, <1>9, <1>11, <1>12
  <2>2. \A n \in 1 .. k : handed[n] = [units |-> mm[n], readable |-> Append(sent, x)[n].readable]
    BY <1>6, <1>7, <1>9, <1>12
  <2>3. QED
    BY <1>6, <2>1, <2>2 DEF Heard, k
<1>14. Waits(mm, got, framer, k)
  <2>1. Holds(framer, Rest(mm, k, got)) /\ (k = N \/ got < endOf(ss, k + 1))
    BY <1>4, <1>5, <1>6, <1>7, <1>12 DEF Waits
  <2>2. CASE k # N
    <3>1. k + 1 \in 0 .. N
      BY <1>5, <1>12, <2>2
    <3>2. endOf(mm, k + 1) = endOf(ss, k + 1)
      BY <1>7, <3>1
    <3>3. QED
      BY <2>1, <2>2, <3>2 DEF Waits
  <2>3. CASE k = N
    <3>1. endOf(ss, N) = Len(FlattenSeq(ss)) /\ endOf(mm, N) = endOf(ss, N) /\ N \in 0 .. N
      <4>1. N \in 0 .. N
        BY <1>5
      <4>2. QED
        BY <1>5, <1>7, <1>10, <4>1, EndRecurs
    <3>. DEFINE n == N + 1
    <3>2. n \in 1 .. Len(mm) /\ n - 1 = N
      BY <1>5, <1>9
    <3>. HIDE DEF n
    <3>3. endOf(mm, n) = endOf(mm, N) + Len(mm[n])
      BY <1>10, <3>2, EndRecurs
    <3>4. Len(mm[n]) \in Nat /\ HeaderLength <= Len(mm[n]) /\ HeaderLength \in Nat /\ 1 <= HeaderLength
      BY <1>8, <3>2, PdusHaveHeaders, LengthsAssumption
    <3>5. got < endOf(mm, n)
      BY <1>6, <1>11, <3>1, <3>3, <3>4
    <3>6. got < endOf(mm, k + 1)
      BY <2>3, <3>5 DEF n
    <3>7. QED
      BY <2>1, <3>6 DEF Waits
  <2>4. QED
    BY <2>2, <2>3
<1>15. /\ number(link') = num /\ link' \in Links /\ isAttached(link')
       /\ got' = got /\ handed' = handed /\ framer' = framer /\ Len(handed') = k
       /\ pdusOf(number(link'), sent') = mm /\ sent' = Append(sent, x) /\ sent' \in Sends
  BY <1>3, <1>4, <1>7 DEF mm, k
<1>16. QED
  BY <1>13, <1>14, <1>15 DEF Framed

\* What is read more is behind what was left.
LEMMA RestMore ==
    ASSUME NEW ss, Written(ss), NEW n \in 0 .. Len(ss), NEW g \in Nat, NEW count \in Nat,
           endOf(ss, n) <= g, g + count <= Len(FlattenSeq(ss))
    PROVE  /\ SubSeq(FlattenSeq(ss), g + 1, g + count) \in Seq(Units)
           /\ Rest(ss, n, g + count) = Rest(ss, n, g) \o SubSeq(FlattenSeq(ss), g + 1, g + count)
<1>. DEFINE s == FlattenSeq(ss)
            e == endOf(ss, n)
            m == g + 1
            z == g + count
            chunk == SubSeq(s, m, z)
            u == Rest(ss, n, g)
            v == Rest(ss, n, z)
<1>1. s \in Seq(Units) /\ Len(s) \in Nat
  <2>1. s \in Seq(Units)
    BY FlattenType DEF Written
  <2>. HIDE DEF s
  <2>2. QED
    BY <2>1
<1>2. z \in Nat /\ z <= Len(s) /\ g <= Len(s) /\ e <= g /\ m \in Int /\ z \in Int /\ m = g + 1 /\ z = g + count
  BY <1>1
<1>3. e \in Nat
  BY EndRecurs DEF Written
<1>. HIDE DEF s, e, m, z
<1>4. e <= z
  BY <1>2, <1>3
<1>5. u \in Seq(Units) /\ Len(u) = g - e /\ \A i \in 1 .. g - e : u[i] = s[e + i]
  BY <1>2, RestIs DEF e, s
<1>6. v \in Seq(Units) /\ Len(v) = z - e /\ \A i \in 1 .. z - e : v[i] = s[e + i]
  BY <1>2, <1>4, RestIs DEF e, s
<1>7. \A i \in m .. z : s[i] \in Units
  BY <1>1, <1>2
<1>8. /\ chunk \in Seq(Units) /\ Len(chunk) = IF m <= z THEN z - m + 1 ELSE 0
      /\ \A i \in 1 .. z - m + 1 : chunk[i] = s[m + i - 1]
  BY <1>2, <1>7, SubSeqProperties
<1>9. Len(chunk) = z - g /\ \A i \in 1 .. z - g : chunk[i] = s[g + i]
  <2>1. z - m + 1 = z - g /\ (~(m <= z) => z - g = 0) /\ \A i \in 1 .. z - g : m + i - 1 = g + i
    BY <1>2
  <2>2. QED
    BY <1>8, <2>1
<1>. HIDE DEF u, v, chunk
<1>10. /\ u \o chunk \in Seq(Units) /\ Len(u \o chunk) = Len(u) + Len(chunk)
       /\ \A i \in 1 .. Len(u) + Len(chunk) : (u \o chunk)[i] = IF i <= Len(u) THEN u[i] ELSE chunk[i - Len(u)]
  BY <1>5, <1>8, ConcatProperties
<1>11. Len(u) + Len(chunk) = z - e
  BY <1>2, <1>3, <1>5, <1>9
<1>12. ASSUME NEW i \in 1 .. Len(v) PROVE v[i] = (u \o chunk)[i]
  <2>1. i \in 1 .. z - e /\ i \in Nat /\ v[i] = s[e + i]
    BY <1>6
  <2>2. CASE i <= Len(u)
    <3>1. i \in 1 .. g - e
      BY <1>5, <2>1, <2>2
    <3>2. QED
      BY <1>5, <1>10, <1>11, <2>1, <2>2, <3>1
  <2>3. CASE ~(i <= Len(u))
    <3>1. i - Len(u) \in 1 .. z - g /\ g + (i - Len(u)) = e + i
      BY <1>2, <1>3, <1>5, <2>1, <2>3
    <3>2. chunk[i - Len(u)] = s[e + i]
      BY <1>9, <3>1
    <3>3. QED
      BY <1>10, <1>11, <2>1, <2>3, <3>2
  <2>4. QED
    BY <2>2, <2>3
<1>13. v = u \o chunk
  BY <1>6, <1>10, <1>11, <1>12, SeqEqual
<1>14. QED
  BY <1>8, <1>13 DEF s, m, z, u, v, chunk

\* What parsed() makes of PDUs of s.
allParsed(s, pdus) ==
    [i \in DOMAIN pdus |-> [units |-> pdus[i], readable |-> s[pdus[i][1].pdu].readable]]

\* As many were handed over as found.
Longer(more, h, found) == found.err \/ Len(more) = Len(h) + Len(found.pdus)

\* The PDUs cut are handed over behind those that were.
LEMMA HandsOver ==
    ASSUME NEW num \in Nat, NEW s \in Sends, NEW g \in Nat, NEW z \in Nat, NEW h,
           Heard(pdusOf(num, s), s, g, h), g <= z, z <= Len(FlattenSeq(pdusOf(num, s))),
           NEW found, Cut(found, pdusOf(num, s), Len(h), z),
           NEW more, more = h \o allParsed(s, found.pdus)
    PROVE  /\ Heard(pdusOf(num, s), s, z, more)
           /\ Longer(more, h, found)
<1>. DEFINE ss == pdusOf(num, s)
            k == Len(h)
            p == Len(found.pdus)
            new == allParsed(s, found.pdus)
<1>1. Written(ss) /\ Len(ss) = Len(s) /\ \A n \in 1 .. Len(s) : ss[n][1].pdu = n
  BY PdusWritten
<1>2. /\ h \in Seq(Parsed) /\ k <= Len(ss) /\ endOf(ss, k) <= g
      /\ \A n \in 1 .. k : h[n] = [units |-> ss[n], readable |-> s[n].readable]
  BY DEF Heard
<1>3. ss \in Seq(Seq(Units))
  BY <1>1 DEF Written
<1>4. found.pdus \in Seq(Seq(Units))
  BY DEF Cut, Founds
<1>5. DOMAIN found.pdus = 1 .. p /\ p \in Nat
  BY <1>4
<1>. HIDE DEF ss, new
<1>6. k \in Nat /\ Len(ss) \in Nat /\ k \in 0 .. Len(ss)
  <2>1. k \in Nat
    BY <1>2
  <2>2. Len(ss) \in Nat
    BY <1>3
  <2>3. QED
    BY <1>2, <2>1, <2>2
<1>7. endOf(ss, k) \in Nat
  BY <1>3, <1>6, EndRecurs
<1>8. CASE found.err
  <2>1. found.pdus = <<>>
    BY <1>8 DEF Cut
  <2>2. new = <<>>
    BY <2>1 DEF new, allParsed
  <2>3. more = h
    <3>1. more = h \o <<>>
      BY <2>2 DEF new
    <3>2. QED
      BY <1>2, <3>1, ConcatEmptySeq
  <2>4. endOf(ss, k) <= z
    BY <1>2, <1>7
  <2>5. QED
    BY <1>2, <1>8, <2>3, <2>4 DEF Heard, ss, Longer
<1>9. CASE ~found.err
  <2>1. /\ k + p <= Len(ss) /\ endOf(ss, k + p) <= z
        /\ \A i \in 1 .. p : found.pdus[i] = ss[k + i]
    BY <1>9 DEF Cut, ss
  <2>2. \A i \in 1 .. p : k + i \in 1 .. Len(s)
    BY <1>1, <1>5, <1>6, <2>1
  <2>3. \A i \in 1 .. p : new[i] = [units |-> ss[k + i], readable |-> s[k + i].readable]
    BY <1>1, <1>5, <2>1, <2>2 DEF new, allParsed
  <2>4. \A n \in 1 .. Len(s) : [units |-> ss[n], readable |-> s[n].readable] \in Parsed
    <3>1. ASSUME NEW n \in 1 .. Len(s) PROVE [units |-> ss[n], readable |-> s[n].readable] \in Parsed
      <4>1. ss[n] \in Seq(Units)
        <5>1. n \in 1 .. Len(ss)
          BY <1>1
        <5>2. QED
          BY <1>1, <5>1, PdusHaveHeaders
      <4>2. s[n].readable \in BOOLEAN
        <5>. DEFINE E == [length : Nat, readable : BOOLEAN]
        <5>1. s \in Seq(E)
          BY DEF Sends
        <5>. HIDE DEF E
        <5>2. s[n] \in E
          BY <5>1
        <5>3. QED
          BY <5>2 DEF E
      <4>3. QED
        BY <4>1, <4>2 DEF Parsed
    <3>2. QED
      BY <3>1
  <2>5. new \in Seq(Parsed) /\ Len(new) = p
    <3>1. new \in [1 .. p -> Parsed]
      <4>1. \A i \in 1 .. p : new[i] \in Parsed
        BY <2>2, <2>3, <2>4
      <4>2. DOMAIN new = 1 .. p /\ new = [i \in 1 .. p |-> new[i]]
        BY <1>5 DEF new, allParsed
      <4>3. QED
        BY <4>1, <4>2
    <3>2. ASSUME NEW f, NEW q \in Nat, f \in [1 .. q -> Parsed] PROVE f \in Seq(Parsed) /\ Len(f) = q
      BY <3>2
    <3>3. p \in Nat
      BY <1>5
    <3>. HIDE DEF p
    <3>4. QED
      BY <3>1, <3>2, <3>3
  <2>6. more = h \o new
    BY DEF new
  <2>7. /\ more \in Seq(Parsed) /\ Len(more) = k + p
        /\ \A n \in 1 .. k + p : more[n] = IF n <= k THEN h[n] ELSE new[n - k]
    <3>1. /\ h \o new \in Seq(Parsed) /\ Len(h \o new) = Len(h) + Len(new)
          /\ \A n \in 1 .. Len(h) + Len(new) : (h \o new)[n] = IF n <= Len(h) THEN h[n] ELSE new[n - Len(h)]
      <4>1. h \in Seq(Parsed) /\ new \in Seq(Parsed)
        BY <1>2, <2>5
      <4>2. ASSUME NEW E, NEW a \in Seq(E), NEW b \in Seq(E)
            PROVE  /\ a \o b \in Seq(E) /\ Len(a \o b) = Len(a) + Len(b)
                   /\ \A n \in 1 .. Len(a) + Len(b) : (a \o b)[n] = IF n <= Len(a) THEN a[n] ELSE b[n - Len(a)]
        BY <4>2, ConcatProperties
      <4>3. QED
        BY <4>1, <4>2
    <3>2. Len(new) = p /\ Len(h) = k
      BY <2>5
    <3>. HIDE DEF p, k
    <3>3. QED
      BY <2>6, <3>1, <3>2
  <2>. HIDE DEF k, p
  <2>8. ASSUME NEW n \in 1 .. k + p PROVE more[n] = [units |-> ss[n], readable |-> s[n].readable]
    <3>1. CASE n <= k
      <4>1. n \in 1 .. k
        BY <1>6, <3>1
      <4>2. QED
        BY <1>2, <2>7, <3>1, <4>1
    <3>2. CASE ~(n <= k)
      <4>. DEFINE i == n - k
      <4>1. i \in 1 .. p /\ k + i = n
        BY <1>5, <1>6, <3>2
      <4>2. more[n] = new[i]
        BY <2>7, <3>2
      <4>. HIDE DEF i
      <4>3. QED
        BY <2>3, <4>1, <4>2
    <3>3. QED
      BY <3>1, <3>2
  <2>9. Heard(ss, s, z, more)
    BY <2>1, <2>7, <2>8 DEF Heard, ss
  <2>10. QED
    BY <2>7, <2>9 DEF ss, k, p, Longer
<1>10. QED
  BY <1>8, <1>9

\* What Read() makes of a link it keeps, tears down or ends.
LEMMA ReadLinks ==
    ASSUME link \in Links, sock = "open", isAttached(link), NEW count \in Nat, Read(count)
    PROVE  /\ link' \in Links /\ number(link') = number(link)
           /\ sock' = "open" => isAttached(link') /\ link' = link
           /\ isAttached(link') =>
                ~next(push(framer, SubSeq(stream, got + 1, got + count))).err
<1>1. /\ drop(link) \in Links /\ number(drop(link)) = number(link) /\ ~isAttached(drop(link))
      /\ end(drop(link)) \in Links /\ number(end(drop(link))) = number(link) /\ ~isAttached(end(drop(link)))
  BY Numbers
<1>. DEFINE found == next(push(framer, SubSeq(stream, got + 1, got + count)))
<1>2. \/ found.err /\ Teardown
      \/ ~found.err /\ UNCHANGED <<link, sock>>
      \/ link' = end(drop(link)) /\ sock' = "destroyed"
  BY DEF Read
<1>. HIDE DEF found
<1>3. CASE found.err /\ Teardown
  BY <1>1, <1>3 DEF Teardown
<1>4. CASE link' = end(drop(link)) /\ sock' = "destroyed"
  BY <1>1, <1>4
<1>5. CASE ~found.err /\ UNCHANGED <<link, sock>>
  <2>1. link' = link /\ ~found.err /\ (isAttached(link') <=> isAttached(link))
    BY <1>5
  <2>2. QED
    BY <1>5, <2>1 DEF found
<1>6. QED
  BY <1>2, <1>3, <1>4, <1>5

\* A chunk is read, and what is whole with it handed over.
LEMMA ReadFramed ==
    ASSUME Framed, NEW count \in Nat, Read(count)
    PROVE  Framed'
<1>. DEFINE num == number(link)
            ss == pdusOf(num, sent)
            k == Len(handed)
            z == got + count
            chunk == SubSeq(stream, got + 1, got + count)
            pushed == push(framer, chunk)
            found == next(pushed)
<1>1. /\ link \in Links /\ sent \in Sends /\ sock = "open" /\ isAttached(link) /\ num \in Nat
      /\ Heard(ss, sent, got, handed) /\ Waits(ss, got, framer, k)
  <2>1. sock = "open"
    BY DEF Read
  <2>2. QED
    BY <2>1, Numbers DEF Framed
<1>2. stream = FlattenSeq(ss)
  BY <1>1, StreamIs
<1>3. Written(ss) /\ Len(ss) = Len(sent)
  BY <1>1, PdusWritten
<1>4. count <= Len(stream) - got
  BY DEF Read
<1>. HIDE DEF ss, num
<1>5. /\ got \in Nat /\ got <= Len(stream) /\ handed \in Seq(Parsed) /\ k <= Len(ss) /\ endOf(ss, k) <= got
  BY <1>1, <1>2 DEF Heard
<1>6. Len(stream) \in Nat /\ Len(ss) \in Nat /\ k \in Nat
  <2>1. ss \in Seq(Seq(Units))
    BY <1>3 DEF Written
  <2>2. stream \in Seq(Units)
    BY <1>2, <2>1, FlattenType
  <2>3. QED
    BY <1>5, <2>1, <2>2
<1>7. z \in Nat /\ z <= Len(stream) /\ got <= z /\ k \in 0 .. Len(ss)
  BY <1>4, <1>5, <1>6
<1>8. endOf(ss, k) \in Nat
  BY <1>3, <1>7, EndRecurs DEF Written
<1>9. chunk \in Seq(Units) /\ Rest(ss, k, z) = Rest(ss, k, got) \o chunk
  <2>1. got \in Nat /\ got + count <= Len(FlattenSeq(ss))
    BY <1>2, <1>5, <1>7
  <2>. HIDE DEF k
  <2>2. /\ SubSeq(FlattenSeq(ss), got + 1, got + count) \in Seq(Units)
        /\ Rest(ss, k, got + count) = Rest(ss, k, got) \o SubSeq(FlattenSeq(ss), got + 1, got + count)
    BY <1>3, <1>5, <1>7, <2>1, RestMore
  <2>3. QED
    BY <1>2, <2>2
<1>10. Holds(pushed, Rest(ss, k, z))
  <2>1. Holds(framer, Rest(ss, k, got))
    BY <1>1 DEF Waits
  <2>. HIDE DEF chunk
  <2>2. Holds(push(framer, chunk), Rest(ss, k, got) \o chunk)
    BY <1>9, <2>1, PushHolds
  <2>3. QED
    BY <1>9, <2>2
<1>11. Cut(found, ss, k, z) /\ Done(found, ss, k, z)
  <2>1. endOf(ss, k) <= z /\ z <= Len(FlattenSeq(ss))
    BY <1>2, <1>5, <1>7, <1>8
  <2>. HIDE DEF pushed, k, z
  <2>2. QED
    BY <1>3, <1>7, <1>10, <2>1, NextCuts
<1>12. /\ got' = z /\ framer' = found.framer /\ sent' = sent
       /\ handed' = handed \o [i \in DOMAIN found.pdus |-> parsed(found.pdus[i])]
  BY DEF Read, peer
<1>13. /\ link' \in Links /\ number(link') = num
       /\ sock' = "open" => isAttached(link') /\ link' = link
       /\ isAttached(link') => ~found.err
  BY <1>1, ReadLinks DEF num
<1>. HIDE DEF found, z
<1>14. /\ Heard(ss, sent, z, handed')
       /\ ~found.err => Len(handed') = k + Len(found.pdus)
  <2>. DEFINE more == handed \o allParsed(sent, found.pdus)
  <2>1. handed' = more
    BY <1>12 DEF parsed, allParsed
  <2>2. more = handed \o allParsed(sent, found.pdus)
    OBVIOUS
  <2>. HIDE DEF more
  <2>3. Heard(ss, sent, z, more) /\ (~found.err => Len(more) = Len(handed) + Len(found.pdus))
    <3>1. /\ Heard(pdusOf(num, sent), sent, got, handed) /\ z <= Len(FlattenSeq(pdusOf(num, sent)))
          /\ Cut(found, pdusOf(num, sent), Len(handed), z)
      BY <1>1, <1>2, <1>7, <1>11 DEF ss
    <3>2. num \in Nat /\ sent \in Sends /\ got \in Nat /\ z \in Nat /\ got <= z
      BY <1>1, <1>5, <1>7
    <3>3. Heard(pdusOf(num, sent), sent, z, more) /\ Longer(more, handed, found)
      BY <2>2, <3>1, <3>2, HandsOver
    <3>4. QED
      BY <3>3 DEF ss, Longer
  <2>4. QED
    BY <2>1, <2>3
<1>15. ~found.err => Waits(ss, z, found.framer, k + Len(found.pdus))
  BY <1>11 DEF Cut, Done, Waits
<1>16. pdusOf(number(link'), sent') = ss
  BY <1>12, <1>13 DEF ss
<1>. HIDE DEF k
<1>17. isAttached(link') => Waits(ss, got', framer', Len(handed'))
  BY <1>12, <1>13, <1>14, <1>15
<1>18. QED
  BY <1>1, <1>12, <1>13, <1>14, <1>16, <1>17 DEF Framed

\* A link of its own socket starts with a framer and a stream of its own.
LEMMA AttachFramed ==
    ASSUME Framed, Attach
    PROVE  Framed'
<1>1. link \in Links /\ link' = attach(link) /\ link.phase = "down"
  BY DEF Framed, Attach
<1>2. link' \in Links /\ link'.phase = "binding"
  BY <1>1, AttachLink
<1>3. number(link') \in Nat /\ isAttached(link')
  BY <1>2, Numbers DEF isAttached
<1>4. sent' = <<>> /\ got' = 0 /\ framer' = EmptyFramer /\ handed' = <<>>
  BY DEF Attach
<1>5. /\ Heard(pdusOf(number(link'), <<>>), <<>>, 0, <<>>)
      /\ Waits(pdusOf(number(link'), <<>>), 0, EmptyFramer, 0)
  BY <1>3, NothingHeard
<1>6. <<>> \in Sends /\ Len(<<>>) = 0
  BY DEF Sends
<1>7. QED
  BY <1>2, <1>3, <1>4, <1>5, <1>6 DEF Framed

\* What else may happen hands nothing over.
LEMMA OthersFramed ==
    ASSUME Framed, \/ PeerFallsSilent \/ ProbeFires \/ IdleFires \/ SocketDies \/ SocketClosed
                   \/ Stop \/ Ends \/ BindAnswered \/ BindFails \/ UNCHANGED vars
    PROVE  Framed'
<1>1. link \in Links /\ (sock = "open" => isAttached(link))
  BY DEF Framed
<1>2. UNCHANGED <<sent, got, framer, handed>>
  BY DEF PeerFallsSilent, ProbeFires, IdleFires, SocketDies, SocketClosed, Stop, Ends,
         BindAnswered, BindFails, Teardown, vars, peer
<1>3. CASE Teardown
  BY <1>2, <1>3, LosesLink DEF Teardown
<1>4. CASE End
  <2>1. sock' # "open"
    BY <1>4 DEF End
  <2>2. QED
    BY <1>2, <1>4, <2>1, LosesLink DEF End
<1>5. CASE UNCHANGED link /\ sock' \in {sock, "destroyed", "closed"}
  BY <1>1, <1>2, <1>5, FramedStays
<1>6. CASE Stop
  <2>1. link' = stop(link) /\ UNCHANGED sock
    BY <1>6 DEF Stop
  <2>2. link' \in Links /\ number(link') = number(link) /\ isAttached(link') = isAttached(link)
    BY <1>1, <2>1, Numbers
  <2>3. QED
    BY <1>1, <1>2, <2>1, <2>2, FramedStays
<1>7. CASE SocketClosed
  <2>1. sock' # "open" /\ link' \in {drop(link), end(drop(link)), link}
    BY <1>7 DEF SocketClosed
  <2>2. CASE link' = link
    BY <1>1, <1>2, <2>1, <2>2, FramedStays
  <2>3. QED
    BY <1>2, <2>1, <2>2, LosesLink
<1>8. CASE link.phase = "binding" /\ link' = open(link) /\ UNCHANGED sock
  <2>1. isAttached(link)
    BY <1>8 DEF isAttached
  <2>2. link' \in Links /\ number(link') = number(link) /\ isAttached(link')
    BY <1>1, <1>8, <2>1, Numbers
  <2>3. QED
    BY <1>2, <1>8, <2>1, <2>2, FramedStays
<1>9. QED
  BY <1>3, <1>4, <1>5, <1>6, <1>7, <1>8
     DEF PeerFallsSilent, ProbeFires, IdleFires, SocketDies, Ends, BindAnswered, BindFails, vars

\* Every step keeps it.
LEMMA StepsFramed ==
    ASSUME Framed, [Next]_vars
    PROVE  Framed'
<1>1. CASE \E count \in 1 .. Len(stream) : Read(count)
  <2>1. PICK count \in 1 .. Len(stream) : Read(count)
    BY <1>1
  <2>2. count \in Nat
    BY <2>1
  <2>3. QED
    BY <2>1, <2>2, ReadFramed
<1>2. QED
  BY <1>1, WritesFramed, AttachFramed, OthersFramed DEF Next

\* Of a link that is kept, exactly those PDUs are whole that were handed over.
LEMMA WholeAreHanded ==
    ASSUME Framed, isAttached(link)
    PROVE  Len(handed) = Cardinality(wholeRead)
<1>. DEFINE ss == pdusOf(number(link), sent)
            k == Len(handed)
            N == Len(sent)
<1>1. /\ link \in Links /\ sent \in Sends
      /\ Heard(ss, sent, got, handed) /\ Waits(ss, got, framer, k)
  BY DEF Framed
<1>2. number(link) \in Nat /\ \A n \in 1 .. N : unitsOf(n) = ss[n]
  BY <1>1, StreamIs
<1>3. Written(ss) /\ Len(ss) = N
  BY <1>1, <1>2, PdusWritten
<1>4. ss \in Seq(Seq(Units)) /\ N \in Nat /\ DOMAIN sent = 1 .. N
  BY <1>1, <1>3 DEF Written, Sends
<1>. HIDE DEF ss
<1>5. handed \in Seq(Parsed) /\ k <= N /\ endOf(ss, k) <= got /\ got \in Nat
  BY <1>1, <1>3 DEF Heard
<1>6. k \in Nat
  BY <1>5
<1>7. k = N \/ got < endOf(ss, k + 1)
  BY <1>1, <1>3 DEF Waits
<1>. HIDE DEF k, N
<1>8. \A n \in 1 .. N : Len(FlattenSeq([m \in 1 .. n |-> unitsOf(m)])) = endOf(ss, n)
  <2>1. ASSUME NEW n \in 1 .. N PROVE Len(FlattenSeq([m \in 1 .. n |-> unitsOf(m)])) = endOf(ss, n)
    <3>1. \A m \in 1 .. n : m \in 1 .. N
      BY <1>4
    <3>2. [m \in 1 .. n |-> unitsOf(m)] = [m \in 1 .. n |-> ss[m]]
      BY <1>2, <3>1
    <3>3. QED
      BY <3>2 DEF endOf, First
  <2>2. QED
    BY <2>1
<1>9. \A n \in 0 .. N : endOf(ss, n) \in Nat
  BY <1>3, <1>4, EndRecurs
<1>10. \A n \in 0 .. N : \A p \in n .. N : endOf(ss, n) <= endOf(ss, p)
  BY <1>3, <1>4, FirstStays
<1>11. ASSUME NEW n \in 1 .. N PROVE endOf(ss, n) <= got <=> n \in 1 .. k
  <2>1. CASE n \in 1 .. k
    <3>1. n \in 0 .. N /\ k \in n .. N /\ k \in 0 .. N
      BY <1>4, <1>5, <1>6, <2>1
    <3>2. endOf(ss, n) <= endOf(ss, k) /\ endOf(ss, n) \in Nat /\ endOf(ss, k) \in Nat
      BY <1>9, <1>10, <3>1
    <3>3. QED
      BY <1>5, <2>1, <3>2
  <2>2. CASE n \notin 1 .. k
    <3>. DEFINE j == k + 1
    <3>1. j \in 0 .. N /\ n \in j .. N /\ n \in 0 .. N /\ k # N
      BY <1>4, <1>6, <2>2
    <3>2. endOf(ss, j) <= endOf(ss, n) /\ endOf(ss, j) \in Nat /\ endOf(ss, n) \in Nat /\ got < endOf(ss, j)
      BY <1>7, <1>9, <1>10, <3>1
    <3>. HIDE DEF j
    <3>3. ~(endOf(ss, n) <= got)
      BY <1>5, <3>2
    <3>4. QED
      BY <2>2, <3>3
  <2>3. QED
    BY <2>1, <2>2
<1>12. wholeRead = {n \in 1 .. N : endOf(ss, n) <= got}
  BY <1>4, <1>8 DEF wholeRead
<1>13. wholeRead = 1 .. k
  <2>1. \A n \in 1 .. k : n \in 1 .. N
    BY <1>4, <1>5, <1>6
  <2>2. QED
    BY <1>11, <1>12, <2>1
<1>14. Cardinality(1 .. k) = k
  <2>. DEFINE a == 1
  <2>1. a \in Int /\ k \in Int
    BY <1>6
  <2>. HIDE DEF a
  <2>2. Cardinality(a .. k) = IF a > k THEN 0 ELSE k - a + 1
    BY <2>1, FS_Interval
  <2>3. QED
    BY <1>6, <2>2 DEF a
<1>15. QED
  BY <1>13, <1>14 DEF k

\* The session is handed the PDUs its peer wrote on this very link, each unit of them, in
\* order and once, however the stream was cut, whatever of it could not be read, and
\* whichever links went before; and while the link is kept no PDU that is whole waits
\* (pdu-framer.ts next, pdu-transport.ts read, attach).
THEOREM HandedAsItWasWritten == Spec => []HandedAsWritten
<1>1. Init => Framed
  <2>. SUFFICES ASSUME Init PROVE Framed
    OBVIOUS
  <2>1. link \in Links /\ isAttached(link) /\ number(link) \in Nat
    BY DEF Init, FirstLink, Links, Phases, isAttached, number
  <2>2. sent = <<>> /\ got = 0 /\ framer = EmptyFramer /\ handed = <<>> /\ Len(<<>>) = 0
    BY DEF Init
  <2>3. /\ Heard(pdusOf(number(link), <<>>), <<>>, 0, <<>>)
        /\ Waits(pdusOf(number(link), <<>>), 0, EmptyFramer, 0)
    BY <2>1, NothingHeard
  <2>4. <<>> \in Sends
    BY DEF Sends
  <2>5. QED
    BY <2>1, <2>2, <2>3, <2>4 DEF Framed
<1>2. Framed /\ [Next]_vars => Framed'
  BY StepsFramed
<1>3. Framed => HandedAsWritten
  <2>. SUFFICES ASSUME Framed PROVE HandedAsWritten
    OBVIOUS
  <2>. DEFINE ss == pdusOf(number(link), sent)
  <2>1. link \in Links /\ sent \in Sends /\ Heard(ss, sent, got, handed)
    BY DEF Framed
  <2>2. number(link) \in Nat /\ \A n \in 1 .. Len(sent) : unitsOf(n) = ss[n]
    BY <2>1, StreamIs
  <2>3. Len(ss) = Len(sent)
    BY <2>1, <2>2, PdusWritten
  <2>4. /\ handed \in Seq(Parsed) /\ Len(handed) <= Len(sent)
        /\ \A n \in 1 .. Len(handed) : handed[n] = [units |-> ss[n], readable |-> sent[n].readable]
    BY <2>1, <2>3 DEF Heard
  <2>5. DOMAIN handed = 1 .. Len(handed) /\ \A n \in 1 .. Len(handed) : n \in 1 .. Len(sent)
    <3>1. Len(handed) \in Nat /\ Len(sent) \in Nat
      BY <2>1, <2>4 DEF Sends
    <3>2. QED
      BY <2>4, <3>1
  <2>6. QED
    BY <2>2, <2>4, <2>5, WholeAreHanded DEF HandedAsWritten
<1>4. QED
  BY <1>1, <1>2, <1>3, PTL DEF Spec
=============================================================================
