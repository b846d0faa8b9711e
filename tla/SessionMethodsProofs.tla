-------------------------- MODULE SessionMethodsProofs --------------------------
(***************************************************************************)
(* What the methods of a session keep, with and without a reconnect loop.  *)
(* A handler is a composition of methods, so whoever composes them, the    *)
(* session itself, a client or a server, builds on these lemmas.           *)
(***************************************************************************)
EXTENDS SessionMethods, TLAPS

-----------------------------------------------------------------------------
(* The link: what the operations of LinkLife do to its fields.             *)

\* attach() binds a link unless the session is over (link-life.ts).
LEMMA AttachLink ==
    ASSUME NEW l \in Links
    PROVE  /\ attach(l) \in Links /\ attach(l).stopped = l.stopped
           /\ attach(l).phase = IF l.phase = "ended" THEN "ended" ELSE "binding"
  BY DEF Links, Phases, attach, isOver

\* open() makes the link up, whatever it was.
LEMMA OpenLink ==
    ASSUME NEW l \in Links
    PROVE  open(l) \in Links /\ open(l).phase = "up" /\ open(l).stopped = l.stopped
  BY DEF Links, Phases, open

\* drop() takes an attached link down and leaves any other alone.
LEMMA DropLink ==
    ASSUME NEW l \in Links
    PROVE  /\ drop(l) \in Links /\ drop(l).stopped = l.stopped
           /\ drop(l).phase = IF l.phase \in {"binding", "up"} THEN "down" ELSE l.phase
<1>1. l.drops + 1 \in Nat
  BY DEF Links
<1>2. QED
  BY <1>1 DEF Links, Phases, drop, isAttached

\* stop() changes nothing but the flag.
LEMMA StopLink ==
    ASSUME NEW l \in Links
    PROVE  stop(l) \in Links /\ stop(l).phase = l.phase /\ stop(l).stopped = TRUE
  BY DEF Links, Phases, stop

\* end() is stopped as well.
LEMMA EndLink ==
    ASSUME NEW l \in Links
    PROVE  end(l) \in Links /\ end(l).phase = "ended" /\ end(l).stopped = TRUE
  BY DEF Links, Phases, end

-----------------------------------------------------------------------------
(* What every method keeps.                                                *)

\* Without the last three conjuncts the safety properties of those who compose the
\* methods are not inductive: a retry must never be armed or run over a link that is up, nor
\* over a socket that lives, and a link nobody is attached to has no living socket.
Sound(s) ==
    /\ s \in Sessions
    /\ s.heard.close = (IF s.link.phase = "ended" THEN 1 ELSE 0)
    /\ Reconnects => (s.halted <=> s.link.stopped)
    /\ s.link.phase = "ended" => s.link.stopped
    /\ s.timer => Reconnects /\ ~s.link.stopped /\ s.attempt = "none"
    /\ s.attempt # "none" => Reconnects
    /\ s.link.phase \in {"down", "ended"} => s.sock # "open"
    /\ s.timer \/ s.attempt = "connect" => s.sock # "open"
    /\ s.timer \/ s.attempt # "none" => s.link.phase # "up"

\* No lost wake-up, of one session: ComesBack.
Wakes(s) ==
    Reconnects /\ ~s.link.stopped => s.sock # "closed" \/ s.timer \/ s.attempt # "none"

-----------------------------------------------------------------------------
(* The methods.                                                            *)

\* Session.stop() and ReconnectLoop.stop().
LEMMA StopSound ==
    ASSUME NEW s, Sound(s)
    PROVE  /\ Sound(Stop(s))
           /\ Stop(s).link = stop(s.link) /\ Stop(s).sock = s.sock
           /\ Stop(s).attempt = s.attempt /\ Stop(s).heard = s.heard
           /\ Stop(s).halted = TRUE /\ Stop(s).timer = FALSE
           /\ Stop(s).link.phase = s.link.phase /\ Stop(s).link.stopped = TRUE
<1>1. s \in Sessions /\ s.link \in Links
  BY DEF Sound, Sessions
<1>2. stop(s.link) \in Links /\ stop(s.link).phase = s.link.phase /\ stop(s.link).stopped = TRUE
  BY <1>1, StopLink
<1>3. Stop(s) \in Sessions
  BY <1>1, <1>2 DEF Stop, Sessions
<1>4. /\ Stop(s).link = stop(s.link) /\ Stop(s).sock = s.sock
      /\ Stop(s).attempt = s.attempt /\ Stop(s).heard = s.heard
      /\ Stop(s).halted = TRUE /\ Stop(s).timer = FALSE
  BY <1>1 DEF Stop, Sessions
<1>5. QED
  BY <1>2, <1>3, <1>4 DEF Sound

\* Counting an event keeps the counts' type, and only a `close` that was never heard may be counted.
LEMMA HeardOps ==
    ASSUME NEW h \in Heard
    PROVE  /\ [h EXCEPT !.disconnected = @ + 1] \in Heard
           /\ [h EXCEPT !.reconnected = @ + 1] \in Heard
           /\ [h EXCEPT !.disconnected = @ + 1].close = h.close
           /\ [h EXCEPT !.reconnected = @ + 1].close = h.close
           /\ h.close = 0 => /\ [h EXCEPT !.close = @ + 1] \in Heard
                             /\ [h EXCEPT !.close = @ + 1].close = 1
<1>1. h.disconnected + 1 \in Nat /\ h.reconnected + 1 \in Nat
  BY DEF Heard
<1>2. QED
  BY <1>1 DEF Heard

\* emitClose() on a session with no living socket and no retry to come ends it, and is heard unless it was over.
LEMMA EmitCloseSound ==
    ASSUME NEW s, Sound(s), s.sock # "open", Reconnects => s.link.stopped
    PROVE  /\ Sound(EmitClose(s))
           /\ EmitClose(s).link.phase = "ended" /\ EmitClose(s).link.stopped
           /\ EmitClose(s).sock = s.sock /\ EmitClose(s).attempt = s.attempt
           /\ EmitClose(s).heard = IF s.link.phase = "ended" THEN s.heard
                                   ELSE [s.heard EXCEPT !.close = @ + 1]
<1>1. s \in Sessions /\ s.link \in Links /\ s.heard \in Heard
  BY DEF Sound, Sessions
<1>2. CASE s.link.phase = "ended"
  BY <1>2 DEF EmitClose, isOver, Sound
<1>3. CASE s.link.phase # "ended"
  <2>. DEFINE t == [s EXCEPT !.link = end(@), !.heard.close = @ + 1]
              h == [s.heard EXCEPT !.close = @ + 1]
  <2>1. h \in Heard /\ h.close = 1
    BY <1>1, <1>3, HeardOps DEF Sound
  <2>2. t.heard = h /\ t.link = end(s.link) /\ t.sock = s.sock
        /\ t.attempt = s.attempt /\ t.timer = s.timer /\ t.halted = s.halted
    BY <1>1 DEF Sessions, Heard
  <2>3. end(s.link) \in Links /\ end(s.link).phase = "ended" /\ end(s.link).stopped = TRUE
    BY <1>1, EndLink
  <2>4. t \in Sessions
    BY <1>1, <2>1, <2>3 DEF Sessions
  <2>5. EmitClose(s) = t
    BY <1>3 DEF EmitClose, isOver
  <2>. HIDE DEF t
  <2>6. Sound(t)
    BY <1>3, <2>1, <2>2, <2>3, <2>4 DEF Sound
  <2>7. QED
    BY <1>3, <2>2, <2>3, <2>5, <2>6
<1>4. QED
  BY <1>2, <1>3

\* schedule() arms the timer, unless it is armed, an attempt runs or the loop was stopped.
LEMMA ScheduleSound ==
    ASSUME NEW s, Sound(s), s.sock # "open", s.link.phase # "up"
    PROVE  /\ Sound(Schedule(s))
           /\ Schedule(s).link = s.link /\ Schedule(s).sock = s.sock
           /\ Schedule(s).attempt = s.attempt /\ Schedule(s).heard = s.heard
           /\ Reconnects /\ ~s.link.stopped => Schedule(s).timer \/ Schedule(s).attempt # "none"
<1>1. s \in Sessions
  BY DEF Sound
<1>2. CASE Reconnects /\ ~s.timer /\ s.attempt = "none" /\ ~s.halted
  <2>. DEFINE t == [s EXCEPT !.timer = TRUE]
  <2>1. t.link = s.link /\ t.sock = s.sock /\ t.attempt = s.attempt /\ t.heard = s.heard
        /\ t.timer = TRUE /\ t.halted = s.halted /\ t \in Sessions
    BY <1>1 DEF Sessions
  <2>2. Schedule(s) = t
    BY <1>2 DEF Schedule
  <2>. HIDE DEF t
  <2>3. QED
    BY <1>2, <2>1, <2>2 DEF Sound
<1>3. CASE ~(Reconnects /\ ~s.timer /\ s.attempt = "none" /\ ~s.halted)
  BY <1>3 DEF Schedule, Sound
<1>4. QED
  BY <1>2, <1>3

\* teardown() leaves nothing attached.  It tells of the loss what the link says of it, before any listener.
LEMMA TeardownSound ==
    ASSUME NEW s, Sound(s), NEW closes \in BOOLEAN
    PROVE  /\ Sound(Teardown(s, closes))
           /\ Teardown(s, closes).link.phase \in {"down", "ended"}
           /\ Teardown(s, closes).attempt = s.attempt
           /\ s.link.stopped => Teardown(s, closes).link.stopped
           /\ s.sock # "closed" => Teardown(s, closes).sock # "closed"
           /\ s.link.phase \in {"down", "ended"} => Teardown(s, closes) = s
           /\ s.link.phase \in {"binding", "up"} /\ Reconnects /\ ~s.link.stopped =>
                /\ Teardown(s, closes).link.phase = "down"
                /\ Teardown(s, closes).link.stopped = closes
                /\ Teardown(s, closes).heard = [s.heard EXCEPT !.disconnected = @ + 1]
           /\ s.link.phase \in {"binding", "up"} /\ ~(Reconnects /\ ~s.link.stopped) =>
                /\ Teardown(s, closes).link.phase = "ended"
                /\ Teardown(s, closes).heard = [s.heard EXCEPT !.close = @ + 1]
<1>. DEFINE t == Teardown(s, closes)
            dropped == [s EXCEPT !.link = drop(@), !.sock = Destroy(@)]
            left == IF closes THEN Stop(dropped) ELSE dropped
<1>1. s \in Sessions /\ s.link \in Links /\ s.heard \in Heard /\ s.sock \in Sockets
      /\ s.link.phase \in Phases /\ s.link.stopped \in BOOLEAN
  BY DEF Sound, Sessions, Links
<1>2. CASE s.link.phase \notin {"binding", "up"}
  <2>1. t = s
    BY <1>1, <1>2 DEF Teardown, dropEvent, isAttached
  <2>2. QED
    BY <1>1, <1>2, <2>1 DEF Phases
<1>3. CASE s.link.phase \in {"binding", "up"}
  <2>1. drop(s.link) \in Links /\ drop(s.link).phase = "down"
        /\ drop(s.link).stopped = s.link.stopped
    BY <1>1, <1>3, DropLink
  <2>2. Destroy(s.sock) \in Sockets /\ Destroy(s.sock) # "open"
        /\ (s.sock # "closed" => Destroy(s.sock) # "closed")
    BY <1>1 DEF Destroy, Sockets
  <2>3. dropped.link = drop(s.link) /\ dropped.sock = Destroy(s.sock)
        /\ dropped.attempt = s.attempt /\ dropped.timer = s.timer
        /\ dropped.halted = s.halted /\ dropped.heard = s.heard
    BY <1>1 DEF Sessions
  <2>4. dropped \in Sessions
    BY <1>1, <2>1, <2>2 DEF Sessions
  <2>. HIDE DEF dropped
  <2>5. Sound(dropped)
    BY <1>3, <2>1, <2>2, <2>3, <2>4 DEF Sound
  <2>6. /\ Sound(left) /\ left.link.phase = "down" /\ left.sock = dropped.sock
        /\ left.attempt = s.attempt /\ left.heard = s.heard
        /\ left.link.stopped = (s.link.stopped \/ closes)
    <3>1. CASE closes
      <4>1. Sound(Stop(dropped)) /\ Stop(dropped).link = stop(dropped.link)
            /\ Stop(dropped).sock = dropped.sock /\ Stop(dropped).attempt = dropped.attempt
            /\ Stop(dropped).heard = dropped.heard
            /\ Stop(dropped).link.phase = dropped.link.phase
            /\ Stop(dropped).link.stopped = TRUE
        BY <2>5, StopSound
      <4>2. left = Stop(dropped) /\ (s.link.stopped \/ closes) = TRUE
        BY <3>1
      <4>. HIDE DEF left
      <4>3. QED
        BY <4>1, <4>2, <2>1, <2>3
    <3>2. CASE ~closes
      <4>1. left = dropped /\ (s.link.stopped \/ closes) = s.link.stopped
        BY <3>2, <1>1
      <4>. HIDE DEF left
      <4>2. QED
        BY <4>1, <2>1, <2>3, <2>5
    <3>3. QED
      BY <3>1, <3>2
  <2>. HIDE DEF left
  <2>7. CASE Reconnects /\ ~s.link.stopped
    <3>. DEFINE h == [s.heard EXCEPT !.disconnected = @ + 1]
                u == [left EXCEPT !.heard.disconnected = @ + 1]
    <3>1. t = u
      BY <1>3, <2>7 DEF Teardown, dropEvent, isAttached, retrying, left, dropped
    <3>2. left \in Sessions /\ left.heard \in Heard
      BY <2>6 DEF Sound, Sessions
    <3>3. h \in Heard /\ h.close = s.heard.close
      BY <1>1, HeardOps
    <3>4. u.heard = h /\ u.link = left.link /\ u.sock = left.sock
          /\ u.attempt = left.attempt /\ u.timer = left.timer /\ u.halted = left.halted
      BY <3>2, <2>6 DEF Sessions, Heard
    <3>5. u \in Sessions
      BY <3>2, <3>3, <2>6 DEF Sessions
    <3>. HIDE DEF u, h
    <3>6. Sound(u)
      BY <2>6, <3>3, <3>4, <3>5 DEF Sound
    <3>7. QED
      BY <1>3, <2>2, <2>3, <2>6, <2>7, <3>1, <3>4, <3>6 DEF h
  <2>8. CASE ~(Reconnects /\ ~s.link.stopped)
    <3>1. t = EmitClose(left)
      BY <1>3, <2>8 DEF Teardown, dropEvent, isAttached, retrying, left, dropped
    <3>2. left.sock # "open" /\ (Reconnects => left.link.stopped)
      BY <2>2, <2>3, <2>6, <2>8
    <3>3. /\ Sound(t) /\ t.link.phase = "ended" /\ t.link.stopped
          /\ t.sock = left.sock /\ t.attempt = left.attempt
          /\ t.heard = [left.heard EXCEPT !.close = @ + 1]
      BY <2>6, <3>1, <3>2, EmitCloseSound
    <3>4. QED
      BY <1>3, <2>2, <2>3, <2>6, <2>8, <3>3
  <2>9. QED
    BY <2>7, <2>8
<1>4. QED
  BY <1>2, <1>3

\* end() ends a session from anywhere and is heard once.
LEMMA EndSound ==
    ASSUME NEW s, Sound(s)
    PROVE  /\ Sound(End(s))
           /\ End(s).link.phase = "ended" /\ End(s).attempt = s.attempt
           /\ End(s).heard = IF s.link.phase = "ended" THEN s.heard
                             ELSE [s.heard EXCEPT !.close = @ + 1]
           /\ s.sock # "closed" => End(s).sock # "closed"
<1>. DEFINE u == Stop(s)
            t == Teardown(u, FALSE)
<1>1. Sound(u) /\ u.link.stopped /\ u.link.phase = s.link.phase /\ u.attempt = s.attempt
      /\ u.heard = s.heard /\ u.sock = s.sock
  BY StopSound
<1>2. s.link.phase \in {"binding", "up", "down", "ended"}
  BY DEF Sound, Sessions, Links, Phases
<1>3. End(s) = EmitClose(t)
  BY DEF End
<1>. HIDE DEF u
<1>4. /\ Sound(t) /\ t.attempt = u.attempt
      /\ u.link.stopped => t.link.stopped
      /\ t.link.phase \in {"down", "ended"}
      /\ u.sock # "closed" => t.sock # "closed"
      /\ u.link.phase \in {"down", "ended"} => t = u
      /\ u.link.phase \in {"binding", "up"} /\ ~(Reconnects /\ ~u.link.stopped) =>
            t.link.phase = "ended" /\ t.heard = [u.heard EXCEPT !.close = @ + 1]
  <2>1. FALSE \in BOOLEAN
    OBVIOUS
  <2>2. QED
    BY <1>1, <2>1, TeardownSound
<1>. HIDE DEF t
<1>5. t.sock # "open" /\ t.link.stopped
  BY <1>1, <1>4 DEF Sound
<1>6. /\ Sound(EmitClose(t)) /\ EmitClose(t).link.phase = "ended"
      /\ EmitClose(t).sock = t.sock /\ EmitClose(t).attempt = t.attempt
      /\ EmitClose(t).heard = IF t.link.phase = "ended" THEN t.heard
                              ELSE [t.heard EXCEPT !.close = @ + 1]
  BY <1>4, <1>5, EmitCloseSound
<1>7. CASE s.link.phase \in {"down", "ended"}
  BY <1>1, <1>3, <1>4, <1>6, <1>7
<1>8. CASE s.link.phase \in {"binding", "up"}
  BY <1>1, <1>3, <1>4, <1>6, <1>8
<1>9. QED
  BY <1>2, <1>7, <1>8

\* onClose() tears the link down and retries, or ends the session.
LEMMA OnCloseSound ==
    ASSUME NEW s, Sound(s), s.sock # "open", NEW closes \in BOOLEAN
    PROVE  LET t == OnClose(s, closes)
           IN  /\ Sound(t) /\ Wakes(t) /\ t.attempt = s.attempt
               /\ t.link.phase \in {"down", "ended"}
               /\ s.link.phase \in {"down", "ended"} /\ Reconnects /\ ~s.link.stopped =>
                    t.link = s.link /\ t.heard = s.heard
               /\ s.link.phase \in {"binding", "up"} /\ Reconnects /\ ~s.link.stopped =>
                    /\ t.link.phase = "down"
                    /\ t.link.stopped = closes
                    /\ t.heard = [s.heard EXCEPT !.disconnected = @ + 1]
               /\ ~(Reconnects /\ ~s.link.stopped) =>
                    /\ t.link.phase = "ended"
                    /\ t.heard = IF s.link.phase = "ended" THEN s.heard
                                 ELSE [s.heard EXCEPT !.close = @ + 1]
<1>. DEFINE t == OnClose(s, closes)
<1>0. closes \in BOOLEAN
  OBVIOUS
<1>1. CASE retrying(s.link)
  <2>. DEFINE u == Teardown(s, closes)
  <2>1. t = Schedule(u)
    BY <1>1 DEF OnClose
  <2>2. Reconnects /\ ~s.link.stopped
    BY <1>1 DEF retrying
  <2>3. /\ Sound(u) /\ u.link.phase \in {"down", "ended"} /\ u.attempt = s.attempt
        /\ s.link.phase \in {"down", "ended"} => u = s
        /\ s.link.phase \in {"binding", "up"} =>
            /\ u.link.phase = "down" /\ u.link.stopped = closes
            /\ u.heard = [s.heard EXCEPT !.disconnected = @ + 1]
    <3>1. CASE closes = TRUE
      BY <2>2, <3>1, TeardownSound
    <3>2. CASE closes = FALSE
      BY <2>2, <3>2, TeardownSound
    <3>3. QED
      BY <3>1, <3>2
  <2>. HIDE DEF u
  <2>4. u.sock # "open"
    BY <2>3 DEF Sound
  <2>5. /\ Sound(t) /\ t.link = u.link /\ t.heard = u.heard /\ t.attempt = u.attempt
        /\ Reconnects /\ ~u.link.stopped => t.timer \/ t.attempt # "none"
    BY <2>1, <2>3, <2>4, ScheduleSound
  <2>. HIDE DEF t
  <2>6. Wakes(t)
    BY <2>5 DEF Wakes
  <2>7. QED
    BY <2>2, <2>3, <2>5, <2>6 DEF t
<1>2. CASE ~retrying(s.link)
  <2>1. t = End(s)
    BY <1>2 DEF OnClose
  <2>2. ~(Reconnects /\ ~s.link.stopped)
    BY <1>2 DEF retrying
  <2>3. /\ Sound(t) /\ t.link.phase = "ended" /\ t.attempt = s.attempt
        /\ t.heard = IF s.link.phase = "ended" THEN s.heard ELSE [s.heard EXCEPT !.close = @ + 1]
    BY <2>1, EndSound
  <2>. HIDE DEF t
  <2>4. Wakes(t)
    BY <2>3 DEF Wakes, Sound
  <2>5. QED
    BY <2>2, <2>3, <2>4 DEF t
<1>3. QED
  BY <1>1, <1>2

\* A socket that dies or closes, before any handler has run.
LEMMA SocketSound ==
    ASSUME NEW s, Sound(s), NEW x \in {"destroyed", "closed"}
    PROVE  LET t == [s EXCEPT !.sock = x]
           IN  /\ Sound(t) /\ t.sock = x
               /\ t.link = s.link /\ t.heard = s.heard /\ t.attempt = s.attempt
<1>. DEFINE t == [s EXCEPT !.sock = x]
<1>1. t.link = s.link /\ t.sock = x /\ t.attempt = s.attempt
      /\ t.timer = s.timer /\ t.halted = s.halted /\ t.heard = s.heard /\ t \in Sessions
  BY DEF Sound, Sessions, Sockets
<1>. HIDE DEF t
<1>2. Sound(t)
  BY <1>1 DEF Sound
<1>3. QED
  BY <1>1, <1>2 DEF t
=============================================================================
