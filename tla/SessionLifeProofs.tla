-------------------------- MODULE SessionLifeProofs --------------------------
(***************************************************************************)
(* Proofs about SessionLife for any number of calls and of faults, with    *)
(* and without a reconnect loop.                                           *)
(*                                                                         *)
(* The invariant is Good(session).  A handler is a composition of methods  *)
(* that each keep Sound; a lemma per handler says that its whole turn      *)
(* keeps Good, tells the application one step of the contract (Tells) and  *)
(* leaves no session behind with a dead socket and no link to come         *)
(* (Buries).                                                               *)
(***************************************************************************)
EXTENDS SessionLife, SessionMethodsProofs

-----------------------------------------------------------------------------
(* The invariant.                                                          *)

\* What every turn keeps.  A method may lose the link under a bind that waits for
\* its answer; by the end of its turn the attempt has failed.
Good(s) ==
    /\ Sound(s)
    /\ s.attempt = "bind" => s.link.phase = "binding"
    /\ ~awaits => Wakes(s) /\ s.attempt # "after"

-----------------------------------------------------------------------------
(* The methods of a session with a reconnect loop.                         *)

\* A loop that gives its socket up schedules the next attempt, if there is to be one.
LEMMA AttemptOver ==
    ASSUME NEW s, Sound(s), s.link.phase # "up"
    PROVE  LET t == Schedule([s EXCEPT !.sock = Destroy(@), !.attempt = "none"])
           IN  /\ Sound(t) /\ Wakes(t)
               /\ t.attempt = "none" /\ t.link = s.link /\ t.heard = s.heard
               /\ t.sock = Destroy(s.sock)
<1>. DEFINE u == [s EXCEPT !.sock = Destroy(@), !.attempt = "none"]
            t == Schedule(u)
<1>1. s \in Sessions /\ s.sock \in Sockets
  BY DEF Sound, Sessions
<1>2. Destroy(s.sock) \in Sockets /\ Destroy(s.sock) # "open"
  BY <1>1 DEF Destroy, Sockets
<1>3. u.link = s.link /\ u.sock = Destroy(s.sock) /\ u.attempt = "none"
      /\ u.timer = s.timer /\ u.halted = s.halted /\ u.heard = s.heard
  BY <1>1 DEF Sessions
<1>4. u \in Sessions
  BY <1>1, <1>2 DEF Sessions, Attempts
<1>. HIDE DEF u
<1>5. Sound(u)
  BY <1>2, <1>3, <1>4 DEF Sound
<1>6. /\ Sound(t) /\ t.link = u.link /\ t.attempt = u.attempt /\ t.heard = u.heard
      /\ t.sock = u.sock
      /\ Reconnects /\ ~u.link.stopped => t.timer \/ t.attempt # "none"
  BY <1>2, <1>3, <1>5, ScheduleSound
<1>. HIDE DEF t
<1>7. Sound(t) /\ Wakes(t) /\ t.attempt = "none" /\ t.link = s.link /\ t.heard = s.heard
      /\ t.sock = Destroy(s.sock)
  BY <1>3, <1>6 DEF Wakes
<1>8. QED
  BY <1>7 DEF t, u

\* A failed attempt is a teardown, told by it, and then the loop's next attempt.
LEMMA AttemptFailedSound ==
    ASSUME NEW s, Sound(s)
    PROVE  /\ Sound(AttemptFailed(s)) /\ Wakes(AttemptFailed(s))
           /\ AttemptFailed(s).attempt = "none"
           /\ AttemptFailed(s).link = Teardown(s, FALSE).link
           /\ AttemptFailed(s).heard = Teardown(s, FALSE).heard
           /\ AttemptFailed(s).sock = Destroy(Teardown(s, FALSE).sock)
<1>. DEFINE t == Teardown(s, FALSE)
<1>1. Sound(t) /\ t.link.phase \in {"down", "ended"}
  BY TeardownSound
<1>2. AttemptFailed(s) = Schedule([t EXCEPT !.sock = Destroy(@), !.attempt = "none"])
  BY DEF AttemptFailed
<1>. HIDE DEF t
<1>3. QED
  BY <1>1, <1>2, AttemptOver DEF t

\* A bind that lost its link fails its attempt and tells nothing more.
LEMMA BindSettledSound ==
    ASSUME NEW s, Sound(s)
    PROVE  /\ Sound(BindSettled(s))
           /\ BindSettled(s).link = s.link /\ BindSettled(s).heard = s.heard
           /\ BindSettled(s).attempt \in {s.attempt, "none"}
           /\ BindSettled(s).attempt = "bind" => s.link.phase \in {"binding", "up"}
           /\ Wakes(s) => Wakes(BindSettled(s))
<1>1. s.link.phase \in {"binding", "up", "down", "ended"}
  BY DEF Sound, Sessions, Links, Phases
<1>2. CASE s.attempt = "bind" /\ ~isAttached(s.link)
  <2>1. BindSettled(s) = AttemptFailed(s)
    BY <1>2 DEF BindSettled
  <2>2. Teardown(s, FALSE) = s
    BY <1>1, <1>2, TeardownSound DEF isAttached
  <2>3. QED
    BY <2>1, <2>2, AttemptFailedSound
<1>3. CASE ~(s.attempt = "bind" /\ ~isAttached(s.link))
  BY <1>3 DEF BindSettled, isAttached
<1>4. QED
  BY <1>2, <1>3

\* The end of a turn that left nothing attached, with a close() made inside it or not.
LEMMA TurnSound ==
    ASSUME NEW s, Sound(s), NEW closes \in BOOLEAN, s.link.phase \in {"down", "ended"}
    PROVE  /\ Sound(Turn(s, closes)) /\ Turn(s, closes).attempt # "bind"
           /\ Turn(s, closes).attempt \in {s.attempt, "none"}
           /\ ~closes => /\ Turn(s, closes).link = s.link /\ Turn(s, closes).heard = s.heard
                         /\ Wakes(s) => Wakes(Turn(s, closes))
           /\ closes => /\ Turn(s, closes).link.phase = "ended" /\ Wakes(Turn(s, closes))
                        /\ Turn(s, closes).heard = IF s.link.phase = "ended" THEN s.heard
                                                   ELSE [s.heard EXCEPT !.close = @ + 1]
<1>. DEFINE u == BindSettled(s)
<1>1. /\ Sound(u) /\ u.link = s.link /\ u.heard = s.heard /\ u.attempt # "bind"
      /\ u.attempt \in {s.attempt, "none"}
      /\ Wakes(s) => Wakes(u)
  BY BindSettledSound
<1>2. Turn(s, closes) = IF closes THEN End(u) ELSE u
  BY DEF Turn
<1>. HIDE DEF u
<1>3. /\ Sound(End(u)) /\ End(u).link.phase = "ended" /\ End(u).attempt = u.attempt
      /\ End(u).heard = IF u.link.phase = "ended" THEN u.heard ELSE [u.heard EXCEPT !.close = @ + 1]
  BY <1>1, EndSound
<1>4. Wakes(End(u))
  BY <1>3 DEF Wakes, Sound
<1>5. CASE closes
  BY <1>1, <1>2, <1>3, <1>4, <1>5
<1>6. CASE ~closes
  BY <1>1, <1>2, <1>6
<1>7. QED
  BY <1>5, <1>6

-----------------------------------------------------------------------------
(* What a turn tells the application, in terms of the session before and   *)
(* after it: one step of SessionContract, or none.                         *)

SameLife(s, t) ==
    /\ t.heard = s.heard /\ t.link.stopped = s.link.stopped
    /\ t.link.phase = "up" <=> s.link.phase = "up"
    /\ t.link.phase = "ended" <=> s.link.phase = "ended"

Disconnects(s, t) ==
    /\ Reconnects /\ ~s.link.stopped /\ s.link.phase # "ended"
    /\ t.link.phase = "down" /\ ~t.link.stopped
    /\ t.heard = [s.heard EXCEPT !.disconnected = @ + 1]

ComesUp(s, t) ==
    /\ Reconnects /\ ~s.link.stopped /\ s.link.phase \in {"binding", "down"}
    /\ t.link.phase = "up" /\ ~t.link.stopped
    /\ t.heard = [s.heard EXCEPT !.reconnected = @ + 1]

Stops(s, t) ==
    /\ ~s.link.stopped /\ t.link.stopped = TRUE
    /\ s.link.phase # "ended" /\ t.link.phase = s.link.phase
    /\ t.heard = s.heard

Closes(s, t) ==
    /\ s.link.phase # "ended" /\ t.link.phase = "ended"
    /\ \/ t.heard = [s.heard EXCEPT !.close = @ + 1]
       \/ /\ Reconnects /\ ~s.link.stopped
          /\ \E lost : /\ lost = [s.heard EXCEPT !.disconnected = @ + 1]
                      /\ t.heard = [lost EXCEPT !.close = @ + 1]

Tells(s, t) ==
    SameLife(s, t) \/ Disconnects(s, t) \/ ComesUp(s, t) \/ Stops(s, t) \/ Closes(s, t)

\* What a turn may leave behind a dead socket: a session that is over or has a link to
\* come, or what was there before.
Buries(s, t) ==
    \/ t.link.phase = "ended"
    \/ Reconnects /\ ~t.link.stopped
    \/ t.sock # "closed"
    \/ t.link = s.link /\ s.sock = "closed"

-----------------------------------------------------------------------------
(* The handlers.                                                           *)

\* The `error` or the `close` event of a socket.
LEMMA SocketOver ==
    ASSUME NEW s, Good(s), NEW x \in {"destroyed", "closed"},
           NEW closes \in BOOLEAN, closes => isAttached(s.link)
    PROVE  LET t == Turn(OnClose([s EXCEPT !.sock = x], closes), closes)
           IN  Good(t) /\ Tells(s, t) /\ Buries(s, t)
<1>. DEFINE u == [s EXCEPT !.sock = x]
            v == OnClose(u, closes)
            t == Turn(v, closes)
<1>1. closes \in BOOLEAN /\ (closes => s.link.phase \in {"binding", "up"})
  BY DEF isAttached
<1>2. /\ Sound(u) /\ u.sock # "open"
      /\ u.attempt = s.attempt /\ u.link = s.link /\ u.heard = s.heard
  BY SocketSound DEF Good
<1>. HIDE DEF u
<1>3. /\ Sound(v) /\ Wakes(v) /\ v.attempt = u.attempt
      /\ v.link.phase \in {"down", "ended"}
      /\ u.link.phase \in {"down", "ended"} /\ Reconnects /\ ~u.link.stopped =>
           v.link = u.link /\ v.heard = u.heard
      /\ u.link.phase \in {"binding", "up"} /\ Reconnects /\ ~u.link.stopped =>
           /\ v.link.phase = "down"
           /\ v.link.stopped = closes
           /\ v.heard = [u.heard EXCEPT !.disconnected = @ + 1]
      /\ ~(Reconnects /\ ~u.link.stopped) =>
           /\ v.link.phase = "ended"
           /\ v.heard = IF u.link.phase = "ended" THEN u.heard
                        ELSE [u.heard EXCEPT !.close = @ + 1]
  BY <1>1, <1>2, OnCloseSound
<1>. HIDE DEF v
<1>4. /\ Sound(t) /\ t.attempt # "bind" /\ t.attempt \in {v.attempt, "none"} /\ Wakes(t)
      /\ ~closes => t.link = v.link /\ t.heard = v.heard
      /\ closes => /\ t.link.phase = "ended"
                   /\ t.heard = IF v.link.phase = "ended" THEN v.heard
                                ELSE [v.heard EXCEPT !.close = @ + 1]
  <2>1. CASE closes = TRUE
    BY <1>3, <2>1, TurnSound
  <2>2. CASE closes = FALSE
    BY <1>3, <2>2, TurnSound
  <2>3. QED
    BY <1>1, <2>1, <2>2
<1>. HIDE DEF t
<1>5. Good(t)
  BY <1>2, <1>3, <1>4 DEF Good
<1>6. s.link.phase \in {"binding", "up", "down", "ended"} /\ s.link.stopped \in BOOLEAN
      /\ (s.link.phase = "ended" => s.link.stopped)
      /\ (t.link.phase = "ended" => t.link.stopped)
  BY <1>4 DEF Good, Sound, Sessions, Links, Phases
<1>7. Tells(s, t)
  <2>1. CASE ~(Reconnects /\ ~s.link.stopped) /\ s.link.phase = "ended"
    <3>1. t.heard = s.heard /\ t.link.phase = "ended"
      BY <1>1, <1>2, <1>3, <1>4, <2>1
    <3>2. QED
      BY <1>6, <2>1, <3>1 DEF Tells, SameLife
  <2>2. CASE ~(Reconnects /\ ~s.link.stopped) /\ s.link.phase # "ended"
    <3>1. t.heard = [s.heard EXCEPT !.close = @ + 1] /\ t.link.phase = "ended"
      BY <1>1, <1>2, <1>3, <1>4, <2>2
    <3>2. QED
      BY <2>2, <3>1 DEF Tells, Closes
  <2>3. CASE Reconnects /\ ~s.link.stopped /\ s.link.phase \in {"down", "ended"}
    <3>1. t.link = s.link /\ t.heard = s.heard
      BY <1>1, <1>2, <1>3, <1>4, <2>3
    <3>2. QED
      BY <3>1 DEF Tells, SameLife
  <2>4. CASE Reconnects /\ ~s.link.stopped /\ s.link.phase \in {"binding", "up"} /\ ~closes
    <3>1. t.heard = [s.heard EXCEPT !.disconnected = @ + 1] /\ t.link.phase = "down"
          /\ ~t.link.stopped
      BY <1>1, <1>2, <1>3, <1>4, <2>4
    <3>2. QED
      BY <2>4, <3>1 DEF Tells, Disconnects
  <2>5. CASE Reconnects /\ ~s.link.stopped /\ s.link.phase \in {"binding", "up"} /\ closes
    <3>1. /\ v.heard = [s.heard EXCEPT !.disconnected = @ + 1]
          /\ t.heard = [v.heard EXCEPT !.close = @ + 1]
          /\ t.link.phase = "ended"
      BY <1>1, <1>2, <1>3, <1>4, <2>5
    <3>2. QED
      BY <2>5, <3>1 DEF Tells, Closes
  <2>6. QED
    BY <1>6, <2>1, <2>2, <2>3, <2>4, <2>5
<1>8. Buries(s, t)
  <2>1. CASE closes
    BY <1>4, <2>1 DEF Buries
  <2>2. CASE ~closes /\ ~(Reconnects /\ ~s.link.stopped)
    BY <1>2, <1>3, <1>4, <2>2 DEF Buries
  <2>3. CASE ~closes /\ Reconnects /\ ~s.link.stopped
    <3>1. t.link.stopped = FALSE
      BY <1>2, <1>3, <1>4, <1>6, <2>3
    <3>2. QED
      BY <2>3, <3>1 DEF Buries
  <2>4. QED
    BY <2>1, <2>2, <2>3
<1>9. QED
  BY <1>5, <1>7, <1>8 DEF t, v, u

\* A turn that ends the session: the peer's unbind, the end of a drain, of an unbind().
LEMMA Ending ==
    ASSUME NEW s, Good(s)
    PROVE  LET t == BindSettled(End(s))
           IN  Good(t) /\ Tells(s, t) /\ Buries(s, t)
<1>. DEFINE u == End(s)
            t == BindSettled(u)
<1>1. /\ Sound(u) /\ u.link.phase = "ended" /\ u.attempt = s.attempt
      /\ u.heard = IF s.link.phase = "ended" THEN s.heard ELSE [s.heard EXCEPT !.close = @ + 1]
  BY EndSound DEF Good
<1>. HIDE DEF u
<1>2. /\ Sound(t) /\ t.link = u.link /\ t.heard = u.heard
      /\ t.attempt \in {u.attempt, "none"} /\ t.attempt # "bind"
  BY <1>1, BindSettledSound
<1>. HIDE DEF t
<1>3. t.link.phase = "ended" /\ t.link.stopped
  BY <1>1, <1>2 DEF Sound
<1>4. Good(t)
  BY <1>1, <1>2, <1>3 DEF Good, Wakes
<1>5. s.link.stopped \in BOOLEAN /\ t.link.stopped \in BOOLEAN
      /\ (s.link.phase = "ended" => s.link.stopped)
  BY <1>2 DEF Good, Sound, Sessions, Links
<1>6. Tells(s, t)
  <2>1. CASE s.link.phase = "ended"
    BY <1>1, <1>2, <1>3, <1>5, <2>1 DEF Tells, SameLife
  <2>2. CASE s.link.phase # "ended"
    BY <1>1, <1>2, <1>3, <2>2 DEF Tells, Closes
  <2>3. QED
    BY <2>1, <2>2
<1>7. Buries(s, t)
  BY <1>3 DEF Buries
<1>8. QED
  BY <1>4, <1>6, <1>7 DEF t, u

\* An attempt whose onConnected resolves with an err.
LEMMA Failing ==
    ASSUME NEW s, Good(s)
    PROVE  Good(AttemptFailed(s)) /\ Tells(s, AttemptFailed(s)) /\ Buries(s, AttemptFailed(s))
<1>. DEFINE u == Teardown(s, FALSE)
            t == AttemptFailed(s)
<1>1. /\ Sound(u)
      /\ s.link.phase \in {"down", "ended"} => u = s
      /\ s.link.phase \in {"binding", "up"} /\ Reconnects /\ ~s.link.stopped =>
           /\ u.link.phase = "down"
           /\ u.link.stopped = FALSE
           /\ u.heard = [s.heard EXCEPT !.disconnected = @ + 1]
      /\ s.link.phase \in {"binding", "up"} /\ ~(Reconnects /\ ~s.link.stopped) =>
           /\ u.link.phase = "ended"
           /\ u.heard = [s.heard EXCEPT !.close = @ + 1]
  BY TeardownSound DEF Good
<1>2. /\ Sound(t) /\ Wakes(t) /\ t.attempt = "none" /\ t.link = u.link /\ t.heard = u.heard
      /\ t.sock = Destroy(u.sock)
  BY AttemptFailedSound DEF Good
<1>. HIDE DEF u, t
<1>3. Good(t)
  BY <1>2 DEF Good
<1>4. s.link.phase \in {"binding", "up", "down", "ended"}
  BY DEF Good, Sound, Sessions, Links, Phases
<1>5. Tells(s, t)
  <2>1. CASE s.link.phase \in {"down", "ended"}
    BY <1>1, <1>2, <2>1 DEF Tells, SameLife
  <2>2. CASE s.link.phase \in {"binding", "up"} /\ Reconnects /\ ~s.link.stopped
    BY <1>1, <1>2, <2>2 DEF Tells, Disconnects
  <2>3. CASE s.link.phase \in {"binding", "up"} /\ ~(Reconnects /\ ~s.link.stopped)
    BY <1>1, <1>2, <2>3 DEF Tells, Closes
  <2>4. QED
    BY <1>4, <2>1, <2>2, <2>3
<1>6. Buries(s, t)
  <2>1. CASE s.link.phase \in {"down", "ended"}
    BY <1>1, <1>2, <2>1 DEF Buries, Destroy
  <2>2. CASE s.link.phase \in {"binding", "up"}
    BY <1>1, <1>2, <2>2 DEF Buries
  <2>3. QED
    BY <1>4, <2>1, <2>2
<1>7. QED
  BY <1>3, <1>5, <1>6 DEF t

\* An idle link, or a stream that can not be read.
LEMMA GivenUp ==
    ASSUME NEW s, Good(s), NEW closes \in BOOLEAN, isAttached(s.link), s.sock # "closed"
    PROVE  LET t == Turn(Teardown(s, closes), closes)
           IN  Good(t) /\ Tells(s, t) /\ Buries(s, t)
<1>. DEFINE v == Teardown(s, closes)
            t == Turn(v, closes)
<1>1. closes \in BOOLEAN /\ s.link.phase \in {"binding", "up"}
  BY DEF isAttached
<1>2. /\ Sound(v) /\ v.attempt = s.attempt /\ v.sock # "closed"
      /\ v.link.phase \in {"down", "ended"}
      /\ Reconnects /\ ~s.link.stopped =>
           /\ v.link.phase = "down"
           /\ v.link.stopped = closes
           /\ v.heard = [s.heard EXCEPT !.disconnected = @ + 1]
      /\ ~(Reconnects /\ ~s.link.stopped) =>
           /\ v.link.phase = "ended"
           /\ v.heard = [s.heard EXCEPT !.close = @ + 1]
  <2>1. CASE closes = TRUE
    BY <1>1, <2>1, TeardownSound DEF Good
  <2>2. CASE closes = FALSE
    BY <1>1, <2>2, TeardownSound DEF Good
  <2>3. QED
    BY <1>1, <2>1, <2>2
<1>. HIDE DEF v
<1>3. /\ Sound(t) /\ t.attempt # "bind" /\ t.attempt \in {v.attempt, "none"} /\ Wakes(t)
      /\ ~closes => t.link = v.link /\ t.heard = v.heard
      /\ closes => /\ t.link.phase = "ended"
                   /\ t.heard = IF v.link.phase = "ended" THEN v.heard
                                ELSE [v.heard EXCEPT !.close = @ + 1]
  <2>1. Wakes(v)
    BY <1>2 DEF Wakes
  <2>2. CASE closes = TRUE
    BY <1>2, <2>1, <2>2, TurnSound
  <2>3. CASE closes = FALSE
    BY <1>2, <2>1, <2>3, TurnSound
  <2>4. QED
    BY <1>1, <2>2, <2>3
<1>. HIDE DEF t
<1>4. Good(t)
  BY <1>2, <1>3 DEF Good
<1>5. Tells(s, t)
  <2>1. CASE ~(Reconnects /\ ~s.link.stopped)
    <3>1. t.heard = [s.heard EXCEPT !.close = @ + 1] /\ t.link.phase = "ended"
      BY <1>1, <1>2, <1>3, <2>1
    <3>2. QED
      BY <1>1, <3>1 DEF Tells, Closes
  <2>2. CASE Reconnects /\ ~s.link.stopped /\ ~closes
    <3>1. /\ t.heard = [s.heard EXCEPT !.disconnected = @ + 1]
          /\ t.link.phase = "down" /\ ~t.link.stopped
      BY <1>1, <1>2, <1>3, <2>2
    <3>2. QED
      BY <1>1, <2>2, <3>1 DEF Tells, Disconnects
  <2>3. CASE Reconnects /\ ~s.link.stopped /\ closes
    <3>1. /\ v.heard = [s.heard EXCEPT !.disconnected = @ + 1]
          /\ t.heard = [v.heard EXCEPT !.close = @ + 1]
          /\ t.link.phase = "ended"
      BY <1>1, <1>2, <1>3, <2>3
    <3>2. QED
      BY <1>1, <2>3, <3>1 DEF Tells, Closes
  <2>4. QED
    BY <2>1, <2>2, <2>3
<1>6. Buries(s, t)
  <2>1. CASE closes
    BY <1>3, <2>1 DEF Buries
  <2>2. CASE ~closes
    BY <1>2, <1>3, <2>2 DEF Buries
  <2>3. QED
    BY <2>1, <2>2
<1>7. QED
  BY <1>4, <1>5, <1>6 DEF t, v

\* A close() that begins to drain.
LEMMA Stopping ==
    ASSUME NEW s, Good(s)
    PROVE  LET t == Stop(s)
           IN  /\ Good(t)
               /\ s.link.phase # "ended" => Tells(s, t)
               /\ s.sock = "open" => Buries(s, t)
<1>. DEFINE t == Stop(s)
<1>1. /\ Sound(t) /\ t.sock = s.sock /\ t.attempt = s.attempt /\ t.heard = s.heard
      /\ t.link.phase = s.link.phase /\ t.link.stopped = TRUE
  BY StopSound DEF Good
<1>. HIDE DEF t
<1>2. Good(t)
  BY <1>1 DEF Good, Wakes
<1>3. s.link.stopped \in BOOLEAN
  BY DEF Good, Sound, Sessions, Links
<1>4. s.link.phase # "ended" => Tells(s, t)
  BY <1>1, <1>3 DEF Tells, Stops, SameLife
<1>5. s.sock = "open" => Buries(s, t)
  BY <1>1 DEF Buries
<1>6. QED
  BY <1>2, <1>4, <1>5 DEF t

\* onConnected resolved: the session is up again, or was told to stop meanwhile.
LEMMA Returning ==
    ASSUME NEW s, Good(s), s.attempt \in {"bind", "after"}, ~awaits => s.sock = "open"
    PROVE  Good(ComeBackUp(s)) /\ Tells(s, ComeBackUp(s)) /\ Buries(s, ComeBackUp(s))
<1>1. CASE ~retrying(s.link)
  BY <1>1, Failing DEF ComeBackUp
<1>2. CASE retrying(s.link)
  <2>. DEFINE t == [s EXCEPT !.link = open(@), !.attempt = "none", !.heard.reconnected = @ + 1]
              h == [s.heard EXCEPT !.reconnected = @ + 1]
  <2>1. s \in Sessions /\ s.link \in Links /\ s.heard \in Heard /\ Reconnects /\ ~s.link.stopped
        /\ s.link.phase \in {"binding", "up", "down", "ended"}
    BY <1>2 DEF Good, Sound, Sessions, retrying, Links, Phases
  <2>2. s.link.phase \in {"binding", "down"}
    BY <2>1 DEF Good, Sound
  <2>3. h \in Heard /\ h.close = s.heard.close
    BY <2>1, HeardOps
  <2>4. open(s.link) \in Links /\ open(s.link).phase = "up" /\ open(s.link).stopped = s.link.stopped
    BY <2>1, OpenLink
  <2>5. t.heard = h /\ t.link = open(s.link) /\ t.sock = s.sock
        /\ t.attempt = "none" /\ t.timer = s.timer /\ t.halted = s.halted
    BY <2>1 DEF Sessions, Heard
  <2>6. t \in Sessions
    BY <2>1, <2>3, <2>4 DEF Sessions, Attempts
  <2>7. ComeBackUp(s) = t
    BY <1>2 DEF ComeBackUp
  <2>. HIDE DEF t, h
  <2>8. ~s.timer
    BY DEF Good, Sound
  <2>9. Sound(t)
    BY <2>1, <2>2, <2>3, <2>4, <2>5, <2>6, <2>8 DEF Good, Sound
  <2>10. Good(t)
    BY <2>5, <2>9 DEF Good, Wakes
  <2>11. Tells(s, t)
    BY <2>1, <2>2, <2>4, <2>5 DEF Tells, ComesUp, h
  <2>12. Buries(s, t)
    BY <2>1, <2>4, <2>5 DEF Buries
  <2>13. QED
    BY <2>7, <2>10, <2>11, <2>12
<1>3. QED
  BY <1>1, <1>2

\* An onConnected that throws.
LEMMA Throwing ==
    ASSUME NEW s, Good(s), s.attempt # "none"
    PROVE  Good(AttemptThrew(s)) /\ Tells(s, AttemptThrew(s)) /\ Buries(s, AttemptThrew(s))
<1>. DEFINE t == Schedule([s EXCEPT !.sock = Destroy(@), !.attempt = "none"])
<1>1. Sound(s) /\ s.link.phase # "up"
  BY DEF Good, Sound
<1>2. Sound(t) /\ Wakes(t) /\ t.attempt = "none" /\ t.link = s.link /\ t.heard = s.heard
      /\ t.sock = Destroy(s.sock)
  BY <1>1, AttemptOver
<1>3. AttemptThrew(s) = t
  BY DEF AttemptThrew
<1>. HIDE DEF t
<1>4. Buries(s, t)
  BY <1>2 DEF Buries, Destroy
<1>5. QED
  BY <1>2, <1>3, <1>4 DEF Good, Tells, SameLife

\* A close() or unbind() with nothing to drain: stop() and end() in one turn tell what end() tells.
LEMMA StoppedEnding ==
    ASSUME NEW s, Good(s)
    PROVE  LET t == BindSettled(End(Stop(s)))
           IN  Good(t) /\ Tells(s, t) /\ Buries(s, t)
<1>1. s \in Sessions /\ s.link \in Links
  BY DEF Good, Sound, Sessions
<1>2. stop(stop(s.link)) = stop(s.link)
  BY <1>1 DEF stop, Links
<1>3. Stop(Stop(s)) = Stop(s)
  BY <1>1, <1>2 DEF Stop, Sessions
<1>4. End(Stop(s)) = End(s)
  BY <1>3 DEF End
<1>5. QED
  BY <1>4, Ending

\* The retry timer fires.
LEMMA RetryStep == ASSUME Good(session), RetryTimer PROVE Good(session') /\ Tells(session, session') /\ Buries(session, session')
<1>. DEFINE s == session
            t == [s EXCEPT !.timer = FALSE, !.attempt = "connect"]
<1>1. s \in Sessions /\ s.timer /\ session' = t
  BY DEF RetryTimer, Good, Sound
<1>2. t.link = s.link /\ t.sock = s.sock /\ t.attempt = "connect" /\ t.timer = FALSE
      /\ t.halted = s.halted /\ t.heard = s.heard /\ t \in Sessions
  BY <1>1 DEF Sessions, Attempts
<1>3. Sound(s) /\ Reconnects /\ ~s.link.stopped /\ s.sock # "open" /\ s.link.phase # "up"
  BY <1>1 DEF Good, Sound
<1>. HIDE DEF s, t
<1>4. Sound(t)
  BY <1>2, <1>3 DEF Sound
<1>5. Good(t) /\ Tells(s, t) /\ Buries(s, t)
  BY <1>2, <1>4 DEF Good, Wakes, Tells, SameLife, Buries
<1>6. QED
  BY <1>1, <1>5 DEF s

\* connect() failed.
LEMMA ConnectFailsStep ==
    ASSUME Good(session), ConnectFails PROVE Good(session') /\ Tells(session, session') /\ Buries(session, session')
<1>. DEFINE s == session
            u == [s EXCEPT !.attempt = "none"]
            t == Schedule(u)
<1>1. s \in Sessions /\ s.attempt = "connect" /\ session' = t
  BY DEF ConnectFails, Good, Sound
<1>2. u.link = s.link /\ u.sock = s.sock /\ u.attempt = "none" /\ u.timer = s.timer
      /\ u.halted = s.halted /\ u.heard = s.heard /\ u \in Sessions
  BY <1>1 DEF Sessions, Attempts
<1>. HIDE DEF s, u
<1>3. Sound(s) /\ s.sock # "open" /\ s.link.phase # "up"
  BY <1>1 DEF Good, Sound, s
<1>4. Sound(u)
  BY <1>2, <1>3 DEF Sound
<1>5. /\ Sound(t) /\ t.link = u.link /\ t.attempt = u.attempt /\ t.heard = u.heard
      /\ t.sock = u.sock
      /\ Reconnects /\ ~u.link.stopped => t.timer \/ t.attempt # "none"
  BY <1>2, <1>3, <1>4, ScheduleSound
<1>. HIDE DEF t
<1>6. Good(t) /\ Tells(s, t) /\ Buries(s, t)
  BY <1>2, <1>5 DEF Good, Wakes, Tells, SameLife, Buries
<1>7. QED
  BY <1>1, <1>6 DEF s

\* connect() opened a socket: a stopped loop leaves it, and the transport takes it otherwise.
LEMMA ConnectOpensStep ==
    ASSUME Good(session), ConnectOpens PROVE Good(session') /\ Tells(session, session') /\ Buries(session, session')
<1>. DEFINE s == session
<1>1. s \in Sessions /\ s.link \in Links /\ s.attempt = "connect" /\ Sound(s)
      /\ s.link.phase \in {"binding", "up", "down", "ended"}
  BY DEF ConnectOpens, Good, Sound, Sessions, Links, Phases
<1>2. Reconnects /\ ~s.timer /\ s.sock # "open" /\ s.link.phase # "up"
      /\ (s.halted <=> s.link.stopped) /\ (s.link.phase = "ended" => s.link.stopped)
  BY <1>1 DEF Sound
<1>3. CASE s.halted
  <2>. DEFINE t == [s EXCEPT !.attempt = "none"]
  <2>1. session' = t
    BY <1>3 DEF ConnectOpens
  <2>2. t.link = s.link /\ t.sock = s.sock /\ t.attempt = "none" /\ t.timer = s.timer
        /\ t.halted = s.halted /\ t.heard = s.heard /\ t \in Sessions
    BY <1>1 DEF Sessions, Attempts
  <2>. HIDE DEF s, t
  <2>3. Sound(t)
    BY <1>1, <1>2, <2>2 DEF Sound
  <2>4. Good(t) /\ Tells(s, t) /\ Buries(s, t)
    BY <1>2, <1>3, <2>2, <2>3 DEF Good, Wakes, Tells, SameLife, Buries
  <2>5. QED
    BY <2>1, <2>4 DEF s
<1>4. CASE ~s.halted
  <2>. DEFINE t == [s EXCEPT !.link = attach(@), !.sock = "open", !.attempt = "bind"]
  <2>1. session' = t
    BY <1>4 DEF ConnectOpens
  <2>2. attach(s.link) \in Links /\ attach(s.link).stopped = s.link.stopped
        /\ attach(s.link).phase = "binding"
    BY <1>1, <1>2, <1>4, AttachLink
  <2>3. t.link = attach(s.link) /\ t.sock = "open" /\ t.attempt = "bind" /\ t.timer = s.timer
        /\ t.halted = s.halted /\ t.heard = s.heard
    BY <1>1 DEF Sessions
  <2>4. t \in Sessions
    BY <1>1, <2>2 DEF Sessions, Attempts, Sockets
  <2>. HIDE DEF t
  <2>5. Sound(t)
    <3>1. s.heard.close = 0 /\ ~t.timer /\ t.link.phase = "binding"
      BY <1>1, <1>2, <1>4, <2>2, <2>3 DEF Sound
    <3>2. (t.halted <=> t.link.stopped) /\ t.heard.close = 0
      BY <1>2, <2>2, <2>3, <3>1
    <3>. HIDE DEF s
    <3>3. QED
      BY <1>2, <2>3, <2>4, <3>1, <3>2 DEF Sound
  <2>. HIDE DEF s
  <2>6. Good(t) /\ Tells(s, t) /\ Buries(s, t)
    BY <1>2, <1>4, <2>2, <2>3, <2>5 DEF Good, Wakes, Tells, SameLife, Buries
  <2>7. QED
    BY <2>1, <2>6 DEF s
<1>5. QED
  BY <1>3, <1>4

\* The bind is answered and onConnected awaits something more.
LEMMA AwaitingStep ==
    ASSUME Good(session), BindAnswered, awaits, session' = [session EXCEPT !.attempt = "after"]
    PROVE  Good(session') /\ Tells(session, session') /\ Buries(session, session')
<1>. DEFINE s == session
            t == [s EXCEPT !.attempt = "after"]
<1>1. s \in Sessions /\ session' = t /\ s.attempt = "bind"
  BY DEF BindAnswered, Good, Sound
<1>2. t.link = s.link /\ t.sock = s.sock /\ t.attempt = "after" /\ t.timer = s.timer
      /\ t.halted = s.halted /\ t.heard = s.heard /\ t \in Sessions
  BY <1>1 DEF Sessions, Attempts
<1>3. Sound(s) /\ ~s.timer /\ Reconnects /\ s.link.phase # "up"
  BY <1>1 DEF Good, Sound
<1>. HIDE DEF s, t
<1>4. Sound(t)
  BY <1>2, <1>3 DEF Sound
<1>5. Good(t) /\ Tells(s, t) /\ Buries(s, t)
  BY <1>2, <1>4 DEF Good, Tells, SameLife, Buries
<1>6. QED
  BY <1>1, <1>5 DEF s

\* A drain is over, or had nothing to wait for.
LEMMA DrainedStep ==
    ASSUME Good(session), NEW c \in Callers, NEW s, s \in {session, Stop(session)}, Drained(c, s)
    PROVE  Good(session') /\ Tells(session, session') /\ Buries(session, session')
<1>1. CASE c \in Unbinders /\ isAttached(s.link) /\ s.sock = "open"
  <2>1. session' = s
    BY <1>1 DEF Drained
  <2>2. CASE s = session
    BY <1>1, <2>1, <2>2 DEF Tells, SameLife, Buries
  <2>3. CASE s = Stop(session)
    <3>1. session.link.phase # "ended"
      <4>1. s.link.phase = session.link.phase
        BY <2>3, StopSound DEF Good
      <4>2. QED
        BY <1>1, <4>1 DEF isAttached
    <3>2. Buries(session, session')
      BY <1>1, <2>1 DEF Buries
    <3>3. QED
      BY <2>1, <2>3, <3>1, <3>2, Stopping
  <2>4. QED
    BY <2>2, <2>3
<1>2. CASE ~(c \in Unbinders /\ isAttached(s.link) /\ s.sock = "open")
  <2>1. session' = BindSettled(End(s))
    BY <1>2 DEF Drained
  <2>2. QED
    BY <2>1, Ending, StoppedEnding
<1>3. QED
  BY <1>1, <1>2

\* Every step keeps the invariant and tells the application one step of the contract.
LEMMA GoodStep == ASSUME Good(session), [Next]_vars PROVE Good(session') /\ Tells(session, session') /\ Buries(session, session')
<1>1. CASE SocketDies
  <2>. DEFINE t == [session EXCEPT !.sock = "destroyed"]
  <2>2. session' = t
    BY <1>1 DEF SocketDies
  <2>3. /\ Sound(t) /\ t.sock = "destroyed"
        /\ t.link = session.link /\ t.heard = session.heard /\ t.attempt = session.attempt
    BY SocketSound DEF Good
  <2>. HIDE DEF t
  <2>4. QED
    BY <2>2, <2>3 DEF Good, Wakes, Tells, SameLife, Buries
<1>2. CASE SocketError
  BY <1>2, SocketOver DEF SocketError
<1>3. CASE SocketClosed
  BY <1>3, SocketOver DEF SocketClosed
<1>4. CASE LinkGivenUp
  BY <1>4, GivenUp DEF LinkGivenUp
<1>5. CASE PeerUnbinds
  BY <1>5, Ending DEF PeerUnbinds
<1>6. CASE RetryTimer
  BY <1>6, RetryStep
<1>7. CASE ConnectFails
  BY <1>7, ConnectFailsStep
<1>8. CASE ConnectOpens
  BY <1>8, ConnectOpensStep
<1>9. CASE BindAnswered
  <2>1. CASE awaits /\ session' = [session EXCEPT !.attempt = "after"]
    BY <1>9, <2>1, AwaitingStep
  <2>2. CASE session' = ComeBackUp(session)
    BY <1>9, <2>2, Returning DEF BindAnswered
  <2>3. QED
    BY <1>9, <2>1, <2>2 DEF BindAnswered
<1>10. CASE OnConnectedResolves
  BY <1>10, Returning DEF OnConnectedResolves, Good
<1>11. CASE BindFails
  BY <1>11, Failing, Throwing DEF BindFails
<1>12. CASE \E c \in Callers : Call(c) \/ DrainOver(c) \/ UnbindSettles(c)
  <2>1. PICK c \in Callers : Call(c) \/ DrainOver(c) \/ UnbindSettles(c)
    BY <1>12
  <2>2. CASE Call(c) /\ canCarry(session)
    BY <2>2, Stopping DEF Call, canCarry, isUp
  <2>3. CASE Call(c) /\ ~canCarry(session)
    BY <2>3, DrainedStep DEF Call
  <2>4. CASE DrainOver(c)
    BY <2>4, DrainedStep DEF DrainOver
  <2>5. CASE UnbindSettles(c)
    BY <2>5, Ending DEF UnbindSettles
  <2>6. QED
    BY <2>1, <2>2, <2>3, <2>4, <2>5
<1>13. CASE UNCHANGED vars
  BY <1>13 DEF vars, Tells, SameLife, Buries
<1>14. QED
  BY <1>1, <1>2, <1>3, <1>4, <1>5, <1>6, <1>7, <1>8, <1>9, <1>10, <1>11, <1>12, <1>13 DEF Next

-----------------------------------------------------------------------------
(* The theorems.                                                           *)

IInv == TypeOK /\ Good(session)

\* A session begins with its invariant.
LEMMA InitGood == Init => IInv
<1>. SUFFICES ASSUME Init PROVE IInv
  OBVIOUS
<1>1. NothingHeard \in Heard /\ FirstLink \in Links
  BY DEF NothingHeard, Heard, FirstLink, Links, Phases
<1>2. session \in Sessions
  BY <1>1 DEF Init, FirstSession, Sessions, Sockets, Attempts
<1>3. Good(session)
  BY <1>2 DEF Init, FirstSession, FirstLink, NothingHeard, Good, Sound, Wakes
<1>4. /\ calls \in [Callers -> {"idle", "draining", "unbinding", "over"}] /\ faults \in 0..MaxFaults
      /\ awaits \in BOOLEAN
  BY FaultsAssumption DEF Init
<1>5. QED
  BY <1>2, <1>3, <1>4 DEF IInv, TypeOK

\* The calls and the environment's faults keep their types.
LEMMA CallsType ==
    ASSUME TypeOK, [Next]_vars
    PROVE  /\ calls' \in [Callers -> {"idle", "draining", "unbinding", "over"}]
           /\ faults' \in 0..MaxFaults
<1>1. calls' \in [Callers -> {"idle", "draining", "unbinding", "over"}]
  BY DEF TypeOK, Next, vars, SocketDies, SocketError, SocketClosed, LinkGivenUp, PeerUnbinds,
     RetryTimer, ConnectFails, ConnectOpens, BindAnswered, OnConnectedResolves, BindFails,
     Call, DrainOver, UnbindSettles, Drained
<1>2. faults' = faults \/ (faults < MaxFaults /\ faults' = faults + 1)
  BY DEF Next, vars, Fault, SocketDies, SocketError, SocketClosed, LinkGivenUp, PeerUnbinds,
     RetryTimer, ConnectFails, ConnectOpens, BindAnswered, OnConnectedResolves, BindFails,
     Call, DrainOver, UnbindSettles, Drained
<1>3. QED
  BY <1>1, <1>2, FaultsAssumption DEF TypeOK

\* What onConnected is like stays.
LEMMA WhateverItAwaits == [Next]_vars => awaits' = awaits
BY DEF Next, vars, SocketDies, SocketError, SocketClosed, LinkGivenUp, PeerUnbinds,
   RetryTimer, ConnectFails, ConnectOpens, BindAnswered, OnConnectedResolves, BindFails,
   Call, DrainOver, UnbindSettles

\* The invariant is inductive.
LEMMA StepGood == IInv /\ [Next]_vars => IInv'
<1>. SUFFICES ASSUME IInv, [Next]_vars PROVE IInv'
  OBVIOUS
<1>1. Good(session')
  BY GoodStep DEF IInv
<1>2. session' \in Sessions
  BY <1>1 DEF Good, Sound
<1>3. TypeOK'
  BY <1>2, CallsType, WhateverItAwaits DEF IInv, TypeOK
<1>4. awaits' = awaits
  BY WhateverItAwaits
<1>5. Good(session)'
  BY <1>1, <1>4 DEF Good, Sound, Wakes
<1>6. QED
  BY <1>3, <1>5 DEF IInv

\* The invariant holds in every state a session reaches.
LEMMA AlwaysGood == Spec => []IInv
<1>1. Init => IInv
  BY InitGood
<1>2. IInv /\ [Next]_vars => IInv'
  BY StepGood
<1>3. QED
  BY <1>1, <1>2, PTL DEF Spec

\* Every session keeps its type: in particular `close` is emitted at most once (session.ts emitClose).
THEOREM TypesHold == Spec => []TypeOK
<1>1. IInv => TypeOK
  BY DEF IInv
<1>2. QED
  BY <1>1, AlwaysGood, PTL

\* A session is over exactly when its `close` was heard, and then holds neither an
\* open socket, an armed retry nor a bind in flight (session.ts end, reconnect-loop.ts attempt).
THEOREM OverIsOver == Spec => []OverMeansOver
<1>1. IInv => OverMeansOver
  BY DEF IInv, Good, Sound, OverMeansOver, isOver
<1>2. QED
  BY <1>1, AlwaysGood, PTL

\* No retry is armed or connecting over a live socket, so attach() takes the listeners
\* of dead ones only (pdu-transport.ts attach).
THEOREM ReplacesDeadSockets == Spec => []ReplacedSocketIsDead
<1>1. IInv => ReplacedSocketIsDead
  BY DEF IInv, Good, Sound, ReplacedSocketIsDead
<1>2. QED
  BY <1>1, AlwaysGood, PTL

\* When onConnected returns with its bind's answer, as SmppClient's does, a wanted
\* session always has a socket that lives or is to report its close, or a retry that is
\* armed or running (session.ts onClose, reconnect-loop.ts schedule).  Of a session whose
\* onConnected awaits more it is false: the run session_hand_wired refutes it.
THEOREM WakesUp == Spec => []ComesBack
<1>1. IInv => ComesBack
  BY DEF IInv, Good, Wakes, ComesBack, ComesBackWhatever
<1>2. QED
  BY <1>1, AlwaysGood, PTL

\* A session with no link to come is over once its socket has closed, whichever of its
\* calls, its peer, its timers and its attempts came first: whoever waits on it is told
\* (session.ts onClose, close, unbind).
THEOREM DeadIsOver == Spec => []DeadMeansOver
<1>1. Init => DeadMeansOver
  BY DEF Init, FirstSession, DeadMeansOver
<1>2. IInv /\ DeadMeansOver /\ [Next]_vars => DeadMeansOver'
  <2>. SUFFICES ASSUME IInv, DeadMeansOver, [Next]_vars PROVE DeadMeansOver'
    OBVIOUS
  <2>1. Buries(session, session')
    BY GoodStep DEF IInv
  <2>2. QED
    BY <2>1 DEF Buries, DeadMeansOver, retrying, isOver
<1>3. QED
  BY <1>1, <1>2, AlwaysGood, PTL DEF Spec

\* Two ways to write the counts after a `close`, with a `disconnected` in the same turn and without.
LEMMA HeardClose ==
    ASSUME NEW h \in Heard
    PROVE  /\ [h EXCEPT !.disconnected = @ + 0, !.close = @ + 1] = [h EXCEPT !.close = @ + 1]
           /\ [[h EXCEPT !.disconnected = @ + 1] EXCEPT !.close = @ + 1]
                = [h EXCEPT !.disconnected = @ + 1, !.close = @ + 1]
<1>1. h.disconnected + 0 = h.disconnected
  BY DEF Heard
<1>2. QED
  BY <1>1 DEF Heard

\* The session implements the contract of its events: `disconnected`, `reconnected`
\* and one last `close`, whatever onConnected awaits (session.ts teardown, emitClose).
THEOREM ContractKept == Spec => KeepsContract
<1>1. Init => Contract!Init
  <2>. SUFFICES ASSUME Init PROVE Contract!Init
    OBVIOUS
  <2>1. session.link = FirstLink /\ session.heard = NothingHeard
    BY DEF Init, FirstSession
  <2>2. session.link.phase = "up" /\ session.link.stopped = FALSE
    BY <2>1 DEF FirstLink
  <2>3. isUp(session.link) /\ session.heard = [disconnected |-> 0, reconnected |-> 0, close |-> 0]
    BY <2>1, <2>2 DEF isUp, NothingHeard
  <2>4. QED
    BY <2>1, <2>2, <2>3 DEF Contract!Init, NothingHeard, isUp, isOver
<1>2. IInv /\ IInv' /\ [Next]_vars => [Contract!Next]_(Contract!vars)
  <2>. SUFFICES ASSUME IInv, IInv', [Next]_vars PROVE [Contract!Next]_(Contract!vars)
    OBVIOUS
  <2>1. Tells(session, session') /\ Good(session) /\ Good(session')
    BY GoodStep DEF IInv
  <2>2. /\ session.heard \in Heard /\ session.link.stopped \in BOOLEAN /\ session'.link.stopped \in BOOLEAN
        /\ (session.link.phase = "ended" => session.link.stopped)
        /\ (session'.link.phase = "ended" => session'.link.stopped)
    BY <2>1 DEF Good, Sound, Sessions, Links
  <2>3. CASE SameLife(session, session')
    BY <2>2, <2>3 DEF SameLife, Contract!vars, isUp, isOver
  <2>4. CASE Disconnects(session, session')
    BY <2>2, <2>4 DEF Disconnects, Contract!Next, Contract!Disconnect, isUp, isOver
  <2>5. CASE ComesUp(session, session')
    BY <2>2, <2>5 DEF ComesUp, Contract!Next, Contract!Reconnect, isUp, isOver
  <2>6. CASE Stops(session, session')
    BY <2>2, <2>6 DEF Stops, Contract!Next, Contract!Stop, isUp, isOver
  <2>7. CASE Closes(session, session')
    <3>1. CASE session'.heard = [session.heard EXCEPT !.close = @ + 1]
      <4>1. session'.heard = [session.heard EXCEPT !.disconnected = @ + 0, !.close = @ + 1]
        BY <2>2, <3>1, HeardClose
      <4>2. Contract!Close
        BY <2>2, <2>7, <4>1 DEF Closes, Contract!Close, isUp, isOver
      <4>3. QED
        BY <4>2 DEF Contract!Next
    <3>2. CASE session'.heard # [session.heard EXCEPT !.close = @ + 1]
      <4>1. /\ Reconnects /\ ~session.link.stopped
            /\ session'.heard = [session.heard EXCEPT !.disconnected = @ + 1, !.close = @ + 1]
        BY <2>2, <2>7, <3>2, HeardClose DEF Closes
      <4>2. Contract!Close
        BY <2>2, <2>7, <4>1 DEF Closes, Contract!Close, isUp, isOver
      <4>3. QED
        BY <4>2 DEF Contract!Next
    <3>3. QED
      BY <3>1, <3>2
  <2>8. QED
    BY <2>1, <2>3, <2>4, <2>5, <2>6, <2>7 DEF Tells
<1>3. QED
  BY <1>1, <1>2, AlwaysGood, PTL DEF Spec, KeepsContract, Contract!Spec
=============================================================================
